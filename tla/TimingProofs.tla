----------------------------- MODULE TimingProofs ------------------------------
(***************************************************************************)
(* What the pure parts promise for all their arguments: the cadence of the *)
(* sync loop for every policy, input and run of failures; presence, the    *)
(* expansion of mentions and the forecast of delivery for every roster.    *)
(***************************************************************************)
EXTENDS Cadence, Roster, TLAPS

\* The slower, the larger.
Rank == [s \in SyncStates |->
  CASE s = "hot" -> 0 [] s = "warm" -> 1 [] s = "cool" -> 2 [] s = "idle" -> 3 [] s = "paused" -> 4]

\* More recent activity never makes the loop poll less often: also for windows that are
\* not nested, and for a message from the future.
THEOREM FresherIsNoSlower ==
  ASSUME NEW policy \in CadencePolicy, NEW old \in CadenceInput, NEW new \in CadenceInput,
         new.age # NoActivity, old.age # NoActivity => new.age <= old.age,
         new.pending = old.pending, new.live = old.live, new.online = old.online,
         new.suspended = old.suspended
  PROVE  Rank[NextState(policy, new)] <= Rank[NextState(policy, old)]
<1>1. \A s \in {"hot", "warm", "cool"} : ActiveWithin(policy, old, s) => ActiveWithin(policy, new, s)
  BY CadenceAssumption DEF ActiveWithin, CadenceInput, CadencePolicy, Polled, SyncStates
<1> QED BY <1>1 DEF NextState, Rank, SyncStates

\* The ceiling is a number, and the cap is above it.
LEMMA CeilingBounds ==
  ASSUME NEW policy \in CadencePolicy, NEW f \in 0 .. MaxFailures
  PROVE  Ceiling(policy, f) \in Nat /\ Ceiling(policy, f) <= policy.failureCap
<1>1. CASE f = 0
  BY <1>1 DEF Ceiling, CadencePolicy
<1>2. CASE f # 0
  <2>1. f - 1 \in 0 .. MaxFailures BY <1>2, CadenceAssumption
  <2>2. Doubled[f - 1] \in Nat BY <2>1, CadenceAssumption
  <2>3. policy.failureBase * Doubled[f - 1] \in Nat BY <2>2 DEF CadencePolicy
  <2> QED BY <1>2, <2>3 DEF Ceiling, Smaller, CadencePolicy
<1> QED BY <1>1, <1>2

\* One more failure never shortens the backoff, and at most doubles it once it is there.
THEOREM BackoffGrows ==
  ASSUME NEW policy \in CadencePolicy, NEW f \in 1 .. MaxFailures, f + 1 <= MaxFailures
  PROVE  /\ Ceiling(policy, f) <= Ceiling(policy, f + 1)
         /\ Ceiling(policy, f + 1) <= 2 * Ceiling(policy, f)
<1>1. f - 1 \in 0 .. MaxFailures /\ f \in 0 .. MaxFailures /\ (f - 1) + 1 = f
  BY CadenceAssumption
<1>2. Doubled[f] = 2 * Doubled[f - 1] /\ Doubled[f - 1] \in Nat
  BY <1>1, CadenceAssumption
<1> DEFINE once == policy.failureBase * Doubled[f - 1]
<1>3. policy.failureBase * Doubled[f] = 2 * once /\ once \in Nat
  BY <1>2 DEF CadencePolicy
<1>4. /\ Ceiling(policy, f) = Smaller(policy.failureCap, once)
      /\ Ceiling(policy, f + 1) = Smaller(policy.failureCap, 2 * once)
  BY <1>3 DEF Ceiling
<1>5. policy.failureCap \in Nat
  BY DEF CadencePolicy
<1> HIDE DEF once
<1> QED BY <1>3, <1>4, <1>5 DEF Smaller

\* The state of a loop that polls has an interval.
LEMMA BaseIsNat ==
  ASSUME NEW policy \in CadencePolicy, NEW input \in CadenceInput,
         NextState(policy, input) # "paused"
  PROVE  policy.every[NextState(policy, input)] \in Nat
<1>1. NextState(policy, input) \in Polled BY DEF NextState, Polled, SyncStates
<1> QED BY <1>1 DEF CadencePolicy

\* Failures never make the loop poll more often than its state says, nor less often than
\* the larger of the state's interval and the cap: an outage neither hammers the host nor
\* outlasts itself by more than that.
THEOREM FailuresOnlySlowDown ==
  ASSUME NEW policy \in CadencePolicy, NEW input \in CadenceInput,
         NEW f \in 1 .. MaxFailures, NEW d \in NextDelay(policy, input, f)
  PROVE  LET base == policy.every[NextState(policy, input)]
         IN  d \in Nat /\ base <= d /\ d <= Larger(base, policy.failureCap)
<1> DEFINE base == policy.every[NextState(policy, input)]
<1>1. NextState(policy, input) # "paused" /\ base \in Nat
  BY BaseIsNat DEF NextDelay
<1>2. PICK n \in FailureBackoff(policy, f) : d = Larger(base, Smaller(policy.failureCap, base + n))
  BY <1>1 DEF NextDelay
<1>3. n \in Nat
  BY <1>2, CeilingBounds, CadenceAssumption DEF FailureBackoff
<1>4. policy.failureCap \in Nat BY DEF CadencePolicy
<1> HIDE DEF base
<1>5. d \in Nat /\ base <= d /\ d <= Larger(base, policy.failureCap)
  BY <1>1, <1>2, <1>3, <1>4 DEF Larger, Smaller
<1> QED BY <1>5 DEF base

\* "Clamping a small failure delay ... made every early retry land at exactly base,
\* recreating the herd": as long as the cap lets a failure add anything, two machines that
\* fail together may draw different delays, from the first failure on.
THEOREM RetriesSpread ==
  ASSUME NEW policy \in CadencePolicy, NEW input \in CadenceInput,
         NEW f \in 1 .. MaxFailures, NextState(policy, input) # "paused",
         policy.every[NextState(policy, input)] < policy.failureCap,
         1 < Ceiling(policy, f)
  PROVE  \E d, e \in NextDelay(policy, input, f) : d # e
<1> DEFINE base == policy.every[NextState(policy, input)]
           delay(n) == Larger(base, Smaller(policy.failureCap, base + n))
<1>1. base \in Nat /\ policy.failureCap \in Nat
  BY BaseIsNat DEF CadencePolicy
<1>2. f \in 0 .. MaxFailures /\ Ceiling(policy, f) \in Nat
  BY CadenceAssumption, CeilingBounds
<1>3. 0 \in FailureBackoff(policy, f) /\ 1 \in FailureBackoff(policy, f)
  BY <1>2 DEF FailureBackoff
<1>4. delay(0) \in NextDelay(policy, input, f) /\ delay(1) \in NextDelay(policy, input, f)
  BY <1>3 DEF NextDelay
<1>5. delay(0) # delay(1)
  <2> HIDE DEF base
  <2>1. base < policy.failureCap BY DEF base
  <2> QED BY <1>1, <2>1 DEF Larger, Smaller
<1> HIDE DEF delay
<1> QED BY <1>4, <1>5

\* Healthy polls are spread over at most twice the interval.
LEMMA SteadyPollsAreBounded ==
  ASSUME NEW base \in Nat, NEW ratio \in Int, NEW d \in SteadyPollDelay(base, ratio)
  PROVE  d \in Nat /\ 1 <= d /\ d <= Larger(1, 2 * base)
<1> DEFINE jitter == Larger(0, Smaller(100, ratio))
<1>1. jitter \in 0 .. 100 BY DEF Larger, Smaller
<1>2. PICK n \in 0 .. 2 * base + 1 : 200 * n - 100 <= 2 * base * (100 + jitter) /\ d = Larger(1, n)
  BY DEF SteadyPollDelay
<1> HIDE DEF jitter
<1>3. base * (100 + jitter) <= base * 200
  BY <1>1
<1>4. 200 * n - 100 <= 400 * base
  BY <1>1, <1>2, <1>3
<1> QED BY <1>2, <1>4 DEF Larger

\* "Holds the poll at warm at worst": while an answer of a person is awaited, a loop that can
\* poll does so again within twice the slower of the hot and the warm interval, and within
\* the cap of the backoff if that is longer, however old the room is and however often it
\* has failed.
THEOREM PeopleAreNotKeptWaiting ==
  ASSUME NEW policy \in CadencePolicy, NEW input \in CadenceInput, NEW f \in 0 .. MaxFailures,
         input.pending, input.online, ~input.suspended, NEW d \in NextDelay(policy, input, f)
  PROVE  LET slower == Larger(policy.every["hot"], policy.every["warm"])
         IN  d <= Larger(Larger(1, 2 * slower), policy.failureCap)
<1> DEFINE base == policy.every[NextState(policy, input)]
           slower == Larger(policy.every["hot"], policy.every["warm"])
<1>1. NextState(policy, input) \in {"hot", "warm"}
  BY DEF NextState
<1>2. /\ policy.every["hot"] \in Nat /\ policy.every["warm"] \in Nat
      /\ policy.failureCap \in Nat /\ policy.jitter \in Int
  BY DEF CadencePolicy, Polled, SyncStates
<1>3. base \in Nat /\ slower \in Nat /\ base <= slower
  BY <1>1, <1>2 DEF Larger
<1>4. CASE f = 0
  <2>1. d \in SteadyPollDelay(base, policy.jitter)
    BY <1>1, <1>4 DEF NextDelay
  <2>2. d \in Nat /\ d <= Larger(1, 2 * base)
    BY <1>2, <1>3, <2>1, SteadyPollsAreBounded
  <2> HIDE DEF base, slower
  <2>3. d <= Larger(Larger(1, 2 * slower), policy.failureCap)
    BY <1>2, <1>3, <2>2 DEF Larger
  <2> QED BY <2>3 DEF slower
<1>5. CASE f # 0
  <2>1. f \in 1 .. MaxFailures
    BY <1>5, CadenceAssumption
  <2>2. d \in Nat /\ d <= Larger(base, policy.failureCap)
    BY <2>1, FailuresOnlySlowDown
  <2> HIDE DEF base, slower
  <2>3. d <= Larger(Larger(1, 2 * slower), policy.failureCap)
    BY <1>2, <1>3, <2>2 DEF Larger
  <2> QED BY <2>3 DEF slower
<1> QED BY <1>4, <1>5

-----------------------------------------------------------------------------
\* The better, the larger.
Presence == [s \in {"live", "stale", "away"} |->
  CASE s = "live" -> 2 [] s = "stale" -> 1 [] s = "away" -> 0]

\* A stamp that a reader may take as evidence now.
Credible(t, now) == t = NoTime \/ t - now <= FutureSkew

LEMMA FadingAges ==
  ASSUME NEW m \in Int, NEW n \in Int, m <= n
  PROVE  Presence[FromAge(n)] <= Presence[FromAge(m)]
BY RosterAssumption DEF FromAge, Presence

\* "An agent going away is exactly an agent that stops writing": while nothing new is
\* written, presence only fades, whatever the reader's clock does to stamps it believes.
THEOREM SilenceFades ==
  ASSUME NEW card \in AgentCard, NEW activity \in Int \cup {NoTime},
         NEW now \in Int, NEW later \in Int, now <= later,
         Credible(card.lastSeen, now), Credible(activity, now)
  PROVE  Presence[ObservedWithActivity(card, activity, later)]
           <= Presence[ObservedWithActivity(card, activity, now)]
<1>1. card.lastSeen \in Int \cup {NoTime} /\ card.status \in {"live", "away"}
  BY DEF AgentCard
<1>2. IsNews(card, activity, later) <=> IsNews(card, activity, now)
  BY <1>1, RosterAssumption DEF IsNews, Credible
<1>3. CASE IsNews(card, activity, now)
  <2>1. activity \in Int
    BY <1>3 DEF IsNews
  <2> DEFINE age(t) == IF activity > t THEN 0 ELSE t - activity
  <2>2. age(now) \in Int /\ age(later) \in Int /\ age(now) <= age(later)
    BY <2>1
  <2>3. Presence[FromAge(age(later))] <= Presence[FromAge(age(now))]
    <3> HIDE DEF age
    <3> QED BY <2>2, FadingAges
  <2> QED BY <1>2, <1>3, <2>3 DEF ObservedWithActivity
<1>4. CASE ~IsNews(card, activity, now)
  <2>1. CASE card.status = "away" \/ card.lastSeen = NoTime
    BY <1>2, <1>4, <2>1 DEF ObservedWithActivity, ObservedStatus, Presence
  <2>2. CASE card.status # "away" /\ card.lastSeen # NoTime
    <3>1. /\ card.lastSeen \in Int
          /\ ~(card.lastSeen - now > FutureSkew) /\ ~(card.lastSeen - later > FutureSkew)
      BY <1>1, <2>2, RosterAssumption DEF Credible
    <3>2. /\ ObservedWithActivity(card, activity, later) = FromAge(later - card.lastSeen)
          /\ ObservedWithActivity(card, activity, now) = FromAge(now - card.lastSeen)
      BY <1>2, <1>4, <2>2, <3>1 DEF ObservedWithActivity, ObservedStatus
    <3>3. now - card.lastSeen \in Int /\ later - card.lastSeen \in Int
          /\ now - card.lastSeen <= later - card.lastSeen
      BY <3>1
    <3>4. Presence[FromAge(later - card.lastSeen)] <= Presence[FromAge(now - card.lastSeen)]
      BY <3>3, FadingAges
    <3> QED BY <3>2, <3>4
  <2> QED BY <2>1, <2>2
<1> QED BY <1>3, <1>4

\* "A message is better evidence anyway": to have written more recently never makes an agent
\* look further away, as long as its card has a stamp that can be read.
THEOREM WritingNeverHurts ==
  ASSUME NEW card \in AgentCard, card.lastSeen # NoTime, NEW now \in Int,
         NEW earlier \in Int \cup {NoTime}, NEW activity \in Int,
         earlier # NoTime => earlier <= activity, activity - now <= FutureSkew
  PROVE  Presence[ObservedWithActivity(card, earlier, now)]
           <= Presence[ObservedWithActivity(card, activity, now)]
<1>1. card.lastSeen \in Int /\ card.status \in {"live", "away"}
  BY DEF AgentCard
<1> DEFINE age(t) == IF t > now THEN 0 ELSE now - t
<1>2. CASE ~IsNews(card, activity, now)
  <2>1. ~IsNews(card, earlier, now)
    BY <1>1, <1>2, RosterAssumption DEF IsNews
  <2>2. ObservedStatus(card, now) \in {"live", "stale", "away"}
    BY DEF ObservedStatus, FromAge
  <2> QED BY <1>2, <2>1, <2>2 DEF ObservedWithActivity, Presence
<1>3. CASE IsNews(card, activity, now) /\ IsNews(card, earlier, now)
  <2>1. earlier \in Int /\ earlier <= activity
    BY <1>3 DEF IsNews
  <2>2. age(earlier) \in Int /\ age(activity) \in Int /\ age(activity) <= age(earlier)
    BY <2>1
  <2>3. Presence[FromAge(age(earlier))] <= Presence[FromAge(age(activity))]
    <3> HIDE DEF age
    <3> QED BY <2>2, FadingAges
  <2> QED BY <1>3, <2>3 DEF ObservedWithActivity
<1>4. CASE IsNews(card, activity, now) /\ ~IsNews(card, earlier, now)
  <2>1. card.lastSeen < activity
    BY <1>1, <1>4 DEF IsNews
  <2>2. ~(card.lastSeen - now > FutureSkew)
    BY <1>1, <2>1, RosterAssumption
  <2>3. CASE card.status = "away"
    <3>1. FromAge(age(activity)) \in {"live", "stale", "away"}
      BY DEF FromAge
    <3> QED BY <1>4, <2>3, <3>1 DEF ObservedWithActivity, ObservedStatus, Presence
  <2>4. CASE card.status # "away"
    <3>1. ObservedWithActivity(card, earlier, now) = FromAge(now - card.lastSeen)
      BY <1>1, <1>4, <2>2, <2>4 DEF ObservedWithActivity, ObservedStatus
    <3>2. ObservedWithActivity(card, activity, now) = FromAge(age(activity))
      BY <1>4 DEF ObservedWithActivity
    <3>3. CASE activity <= now
      <4>1. age(activity) = now - activity
        BY <3>3
      <4>2. now - activity <= now - card.lastSeen
        BY <1>1, <2>1
      <4>3. Presence[FromAge(now - card.lastSeen)] <= Presence[FromAge(now - activity)]
        BY <1>1, <4>2, FadingAges
      <4> QED BY <3>1, <3>2, <4>1, <4>3
    <3>4. CASE activity > now
      <4>1. FromAge(age(activity)) = "live"
        BY <3>4, RosterAssumption DEF FromAge
      <4>2. FromAge(now - card.lastSeen) \in {"live", "stale", "away"}
        BY DEF FromAge
      <4> QED BY <3>1, <3>2, <4>1, <4>2 DEF Presence
    <3> QED BY <3>3, <3>4
  <2> QED BY <2>3, <2>4 DEF AgentCard
<1> QED BY <1>2, <1>3, <1>4

-----------------------------------------------------------------------------
\* "Forecast what will actually be sent, not what the caller typed": of an agent whose card
\* says what it follows, the forecast of what a sender has typed is right about the message
\* that goes out with the mentions expanded, in both directions.
THEOREM ForecastIsRight ==
  ASSUME NEW roster \in Rosters, NEW me \in Agents, NEW a \in Agents, NEW room \in Rooms,
         NEW typed \in SUBSET Mentions, NEW follows \in SUBSET Rooms, NEW outlook,
         a \in DOMAIN roster, roster[a].rooms = follows,
         <<a, outlook>> \in Forecast(roster, me, room, typed),
         NEW message, message.room = room, message.from = me,
         message.mentions = Expand(typed, roster)
  PROVE  /\ outlook = "reaches" => Delivers(message, a, follows, roster[a].machine)
         /\ outlook = "misses" => ~Delivers(message, a, follows, roster[a].machine)
<1>1. follows # Unlisted
  BY RosterAssumption
<1>2. a \notin Machines
  BY RosterAssumption
<1>3. outlook = Outlook(roster, room, a) /\ a \in Expand(typed, roster) /\ a # me
  BY <1>2 DEF Forecast
<1>4. outlook = (IF room \in follows THEN "reaches" ELSE "misses")
  BY <1>1, <1>3 DEF Outlook
<1>5. Addressed(message, a, roster[a].machine)
  BY <1>3 DEF Addressed
<1> QED BY <1>3, <1>4, <1>5 DEF Delivers

\* What a forecast leaves out is not lost: a message to a machine reaches an agent that is
\* there and follows the room also if the sender's roster does not have its card yet.
THEOREM NewcomersAreReached ==
  ASSUME NEW roster \in Rosters, NEW me \in Agents, NEW a \in Agents, a # me,
         NEW home \in Machines, NEW room \in Rooms, NEW typed \in SUBSET Mentions, home \in typed,
         NEW follows \in SUBSET Rooms, room \in follows,
         NEW message, message.room = room, message.from = me,
         message.mentions = Expand(typed, roster)
  PROVE  Delivers(message, a, follows, home)
BY DEF Delivers, Addressed, Expand

=============================================================================
