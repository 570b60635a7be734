-------------------------------- MODULE Cadence --------------------------------
(***************************************************************************)
(* When a sync loop polls next (packages/core/src/sync/cadence.ts, and the *)
(* input that packages/daemon/src/loop.ts gives it).  Pure: an operator    *)
(* for each function, and the set of its outcomes where it draws a random  *)
(* number.  Times are in milliseconds.                                     *)
(***************************************************************************)
EXTENDS Integers

CONSTANTS Cadences,      \* the policies
          MaxFailures,   \* bound on the failures in a row
          Doubled,       \* Doubled[n]: 2 to the n
          NoActivity     \* an age: nothing was ever seen

SyncStates == {"hot", "warm", "cool", "idle", "paused"}
Polled == SyncStates \ {"paused"}

\* every[s]: the interval of s; within[s]: the age up to which a room is in s; jitter in percent.
CadencePolicy ==
  [every: [Polled -> Nat], within: [Polled \ {"idle"} -> Nat], jitter: Int,
   failureBase: Nat, failureCap: Nat]

\* age: of the newest activity, negative if its clock was ahead.
CadenceInput ==
  [age: Int \cup {NoActivity}, pending: BOOLEAN, live: BOOLEAN, online: BOOLEAN, suspended: BOOLEAN]

ASSUME CadenceAssumption ==
  /\ Cadences \subseteq CadencePolicy
  /\ MaxFailures \in Nat /\ NoActivity \notin Int
  /\ Doubled \in [0 .. MaxFailures -> Nat] /\ Doubled[0] = 1
  /\ \A n \in 0 .. MaxFailures : n + 1 <= MaxFailures => Doubled[n + 1] = 2 * Doubled[n]

Smaller(m, n) == IF m <= n THEN m ELSE n
Larger(m, n) == IF m >= n THEN m ELSE n

\* The loop's input: starting the daemon counts as activity, so there always is some.
ActivityAge(age, uptime) == IF age = NoActivity THEN uptime ELSE Smaller(age, uptime)

ActiveWithin(policy, input, s) == input.age # NoActivity /\ input.age <= policy.within[s]

NextState(policy, input) ==
  IF ~input.online \/ input.suspended THEN "paused"
  ELSE IF input.live \/ ActiveWithin(policy, input, "hot") THEN "hot"
  ELSE IF input.pending \/ ActiveWithin(policy, input, "warm") THEN "warm"
  ELSE IF ActiveWithin(policy, input, "cool") THEN "cool"
  ELSE "idle"

\* The most that a failure adds, and what it may add.
Ceiling(policy, failures) ==
  IF failures = 0 THEN 0
  ELSE Smaller(policy.failureCap, policy.failureBase * Doubled[failures - 1])

FailureBackoff(policy, failures) == {0} \cup 0 .. (Ceiling(policy, failures) - 1)

\* What base, spread by ratio percent either way, may be rounded to.
SteadyPollDelay(base, ratio) ==
  LET jitter == Larger(0, Smaller(100, ratio))
      rounded == {n \in 0 .. 2 * base + 1 : /\ 2 * base * (100 - jitter) < 200 * n + 100
                                             /\ 200 * n - 100 <= 2 * base * (100 + jitter)}
  IN  {Larger(1, n) : n \in rounded}

\* nextDelay; of a paused loop there is none.
NextDelay(policy, input, failures) ==
  LET base == policy.every[NextState(policy, input)]
  IN  IF NextState(policy, input) = "paused" THEN {}
      ELSE IF failures = 0 THEN SteadyPollDelay(base, policy.jitter)
      ELSE {Larger(base, Smaller(policy.failureCap, base + n)) : n \in FailureBackoff(policy, failures)}

=============================================================================
