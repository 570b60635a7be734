---------------------------- MODULE SealProtocol ----------------------------
(***************************************************************************)
(* Sealing: how the nodes of a network move old messages of a room into    *)
(* main's history and prune them from the room branch                      *)
(* (packages/core/src/seal/sealer.ts).  Mutual exclusion is a lock record  *)
(* in the room branch, taken, renewed and released with compare-and-swap   *)
(* pushes; crash recovery rests on a plan (transaction.json) in the room   *)
(* branch that fixes the messages before main is touched.                  *)
(*                                                                         *)
(* Sealer.seal on one node, by what comes next:                            *)
(*   "idle" "acquire" "claim" "plan" "recover" "renewPlan" "fetch" "main"  *)
(*   "renewPrune" "prune" "release", and "off": the machine is gone        *)
(* Every step holds the node's network lock for itself (Exclusive), so the *)
(* node's own sync may run between any two.                                *)
(*                                                                         *)
(* Messages are numbered in chronological order.  Unresolved messages,     *)
(* which a plan leaves out, and the age limit, which depends on the day,   *)
(* are left out: the window is the count limit.                            *)
(***************************************************************************)
EXTENDS Integers, FiniteSets

CONSTANTS Nodes,
          Msgs,         \* the messages, numbered by time
          Window,       \* policy.windowMessages
          Tokens,       \* enough tokens for every node to have a fresh one
          Holder,       \* Holder[t]: the node that may draw token t
          NoLock,       \* the room branch has no lock record
          SlowHolders,  \* whether a lease may run out on a holder that lives
          MaxFailures   \* bound on crashes and on failing git calls

VARIABLES room,      \* the room branch on the remote
          main,      \* the main branch on the remote
          view,      \* view[n]: n's room worktree, with the lock of its tracking ref
          pc, held, plan, clear,  \* the running seal of each node
          expired,   \* the tokens whose lease has run out
          failures

vars == <<room, main, view, pc, held, plan, clear, expired, failures>>
local == <<plan, clear>>

\* A plan is the set of messages it fixes, never empty.
Plans == SUBSET Msgs
NoPlan == {}
Rooms == [posted: SUBSET Msgs, pruned: SUBSET Msgs, lock: Tokens \cup {NoLock}, plan: Plans]
Steps == {"idle", "acquire", "claim", "plan", "recover", "renewPlan", "fetch", "main",
          "renewPrune", "prune", "release", "off"}

ASSUME SealAssumption ==
  /\ Msgs \subseteq Int /\ Window \in Nat /\ MaxFailures \in Nat
  /\ SlowHolders \in BOOLEAN
  /\ NoLock \notin Tokens /\ Holder \in [Tokens -> Nodes]

\* Type invariant.
TypeOK ==
  /\ room \in Rooms
  /\ main \in [archived: SUBSET Msgs, digests: SUBSET Plans]
  /\ view \in [Nodes -> Rooms]
  /\ pc \in [Nodes -> Steps]
  /\ held \in [Nodes -> Tokens \cup {NoLock}]
  /\ plan \in [Nodes -> Plans]
  /\ clear \in [Nodes -> BOOLEAN]
  /\ expired \in SUBSET Tokens
  /\ failures \in Nat

Init ==
  /\ room = [posted |-> {}, pruned |-> {}, lock |-> NoLock, plan |-> NoPlan]
  /\ main = [archived |-> {}, digests |-> {}]
  /\ view = [n \in Nodes |-> room]
  /\ pc = [n \in Nodes |-> "idle"]
  /\ held = [n \in Nodes |-> NoLock]
  /\ plan = [n \in Nodes |-> NoPlan]
  /\ clear = [n \in Nodes |-> FALSE]
  /\ expired = {}
  /\ failures = 0

-----------------------------------------------------------------------------
Live(h) == h.posted \ h.pruned

\* decide: the messages that overflow the window, the oldest ones.
OverWindow(h) == {m \in Live(h) : Cardinality({k \in Live(h) : k > m}) >= Window}

Gone(h, S) == S \cap Live(h) = {}
Whole(h, S) == S \subseteq Live(h)

\* "only partially pruned; refusing ambiguous recovery": decide and
\* prepareTransaction throw.
Ambiguous(h) == h.plan # NoPlan /\ ~Gone(h, h.plan) /\ ~Whole(h, h.plan)

Goto(n, step) == pc' = [pc EXCEPT ![n] = step]

\* randomUUID: a token that occurs nowhere.
Fresh(t) == t \notin {room.lock} \cup {view[n].lock : n \in Nodes} \cup {held[n] : n \in Nodes}
FreshTokens(n) == {t \in Tokens : Holder[t] = n /\ Fresh(t)}
NewToken(n) == CHOOSE t \in FreshTokens(n) : TRUE

\* A call that fails; how often is bounded.
Fails ==
  /\ failures < MaxFailures
  /\ failures' = failures + 1

-----------------------------------------------------------------------------
\* Some node posts.  Messages may arrive out of order.
Post(m) ==
  /\ m \notin room.posted
  /\ room' = [room EXCEPT !.posted = @ \cup {m}]
  /\ UNCHANGED <<main, view, pc, held, local, expired, failures>>

\* The node's sync, or any fetch with a fast-forward.
Sync(n) ==
  /\ pc[n] # "off" /\ view[n] # room
  /\ view' = [view EXCEPT ![n] = room]
  /\ UNCHANGED <<room, main, pc, held, local, expired, failures>>

\* Time passes the expires_at of the room's lock.
Expire(t) ==
  /\ t = room.lock /\ t \notin expired
  /\ SlowHolders \/ \A n \in Nodes : held[n] # t
  /\ expired' = expired \cup {t}
  /\ UNCHANGED <<room, main, view, pc, held, local, failures>>

\* seal: something to do, as far as the worktree shows.
Start(n) ==
  /\ pc[n] = "idle" /\ ~Ambiguous(view[n])
  /\ view[n].plan # NoPlan \/ OverWindow(view[n]) # {}
  /\ Goto(n, "acquire")
  /\ UNCHANGED <<room, main, view, held, local, expired, failures>>

\* acquireLock: fetch, then look at the lock under the network lock.
AcquireFetch(n) ==
  /\ pc[n] = "acquire"
  /\ view' = [view EXCEPT ![n] = room]
  /\ Goto(n, "claim")
  /\ UNCHANGED <<room, main, held, local, expired, failures>>

MutUnexpired(t) == t # NoLock

\* A lock that excludes others: its expires_at is in the future.
Unexpired(t) == t # NoLock /\ t \notin expired

ClaimResumes(n) ==
  /\ pc[n] = "claim"
  /\ Unexpired(view[n].lock) /\ Holder[view[n].lock] = n
  /\ held' = [held EXCEPT ![n] = view[n].lock]
  /\ Goto(n, "plan")
  /\ UNCHANGED <<room, main, view, local, expired, failures>>

ClaimBusy(n) ==
  /\ pc[n] = "claim"
  /\ Unexpired(view[n].lock) /\ Holder[view[n].lock] # n
  /\ Goto(n, "idle")
  /\ UNCHANGED <<room, main, view, held, local, expired, failures>>

MutSwapped(n) == TRUE

\* The remote is still where the clone saw it: a push of one commit on top lands.
Swappable(n) == room = view[n]

\* A free lock is taken, an expired one stolen.  (Tokens bounds nothing if there are three
\* for a node: FreshTokens is never empty then.)
ClaimWins(n) ==
  /\ pc[n] = "claim" /\ FreshTokens(n) # {}
  /\ ~Unexpired(view[n].lock) /\ Swappable(n)
  /\ room' = [view[n] EXCEPT !.lock = NewToken(n)]
  /\ view' = [view EXCEPT ![n] = room']
  /\ held' = [held EXCEPT ![n] = NewToken(n)]
  /\ expired' = expired \ {NewToken(n)}
  /\ Goto(n, "plan")
  /\ UNCHANGED <<main, local, failures>>

\* The push was rejected: fetch again, or give up after three attempts.
ClaimLoses(n) ==
  /\ pc[n] = "claim"
  /\ ~Unexpired(view[n].lock) /\ ~Swappable(n)
  /\ \E step \in {"acquire", "idle"} : Goto(n, step)
  /\ UNCHANGED <<room, main, view, held, local, expired, failures>>

-----------------------------------------------------------------------------
MutResumePlan(n) ==
  /\ pc[n] = "plan"
  /\ view[n].plan # NoPlan /\ ~Ambiguous(view[n])
  /\ plan' = [plan EXCEPT ![n] = OverWindow(view[n])]
  /\ Goto(n, IF Gone(view[n], view[n].plan) THEN "recover" ELSE "renewPlan")
  /\ UNCHANGED <<room, main, view, held, clear, expired, failures>>

\* prepareTransaction on a worktree with a plan.
ResumePlan(n) ==
  /\ pc[n] = "plan"
  /\ view[n].plan # NoPlan /\ ~Ambiguous(view[n])
  /\ plan' = [plan EXCEPT ![n] = view[n].plan]
  /\ Goto(n, IF Gone(view[n], view[n].plan) THEN "recover" ELSE "renewPlan")
  /\ UNCHANGED <<room, main, view, held, clear, expired, failures>>

\* It throws, or there is nothing to seal any more.
NoPlanNeeded(n) ==
  /\ pc[n] = "plan"
  /\ Ambiguous(view[n]) \/ (view[n].plan = NoPlan /\ OverWindow(view[n]) = {})
  /\ Goto(n, "release")
  /\ UNCHANGED <<room, main, view, held, local, expired, failures>>

\* A new plan, pushed with merges: it lands whatever else happened to the room,
\* unless another plan is there (an add/add conflict).  The lock is not checked.
CommitPlan(n) ==
  /\ pc[n] = "plan"
  /\ view[n].plan = NoPlan /\ OverWindow(view[n]) # {} /\ room.plan = NoPlan
  /\ room' = [room EXCEPT !.plan = OverWindow(view[n])]
  /\ view' = [view EXCEPT ![n] = room']
  /\ plan' = [plan EXCEPT ![n] = OverWindow(view[n])]
  /\ Goto(n, "renewPlan")
  /\ UNCHANGED <<main, held, clear, expired, failures>>

PlanConflicts(n) ==
  /\ pc[n] = "plan"
  /\ view[n].plan = NoPlan /\ OverWindow(view[n]) # {} /\ room.plan # NoPlan
  /\ Goto(n, "release")
  /\ UNCHANGED <<room, main, view, held, local, expired, failures>>

\* recoverCompleted: the messages are gone, so their digest must be on main.
Recover(n) ==
  /\ pc[n] = "recover"
  /\ clear' = [clear EXCEPT ![n] = plan[n] \in main.digests]
  /\ Goto(n, "release")
  /\ UNCHANGED <<room, main, view, held, plan, expired, failures>>

MutOwns(n) == held[n] # NoLock

\* renewLock and releaseLock: the fetched lock carries this seal's token.
Owns(n) == room.lock = held[n]

\* renewLock; five lost races in a row count as a failure.
Renew(n) ==
  /\ pc[n] \in {"renewPlan", "renewPrune"} /\ Owns(n)
  /\ expired' = expired \ {held[n]}
  /\ view' = [view EXCEPT ![n] = room]
  /\ Goto(n, IF pc[n] = "renewPlan" THEN "fetch" ELSE "prune")
  /\ UNCHANGED <<room, main, held, local, failures>>

RenewFindsLost(n) ==
  /\ pc[n] \in {"renewPlan", "renewPrune"} /\ ~Owns(n)
  /\ Goto(n, "release")
  /\ UNCHANGED <<room, main, view, held, local, expired, failures>>

-----------------------------------------------------------------------------
\* run: the fetches before the lock is taken.  They move the tracking ref only.
Fetch(n) ==
  /\ pc[n] = "fetch"
  /\ view' = [view EXCEPT ![n].lock = room.lock]
  /\ Goto(n, "main")
  /\ UNCHANGED <<room, main, held, local, expired, failures>>

MutRecordDigest(n) ==
  main' = [archived |-> main.archived \cup view[n].posted, digests |-> main.digests]

MutRecordDigestOnly(n) == main' = [digests |-> main.digests \cup {plan[n]}]

\* What the record push puts on main: the room's history and the digest.
RecordDigest(n) ==
  main' = [archived |-> main.archived \cup view[n].posted,
           digests  |-> main.digests \cup {plan[n]}]

\* assertLockHeld: reads the tracking ref, which the fetch above refreshed.
StillValid(n) == view[n].lock = held[n] /\ held[n] \notin expired

PushMain(n) ==
  /\ pc[n] = "main" /\ StillValid(n)
  /\ RecordDigest(n)
  /\ Goto(n, "renewPrune")
  /\ UNCHANGED <<room, view, held, local, expired, failures>>

StaleHolderStops(n) ==
  /\ pc[n] = "main" /\ ~StillValid(n)
  /\ Goto(n, "release")
  /\ UNCHANGED <<room, main, view, held, local, expired, failures>>

\* Removes the planned messages, with merges and with no look at the lock.
Prune(n) ==
  /\ pc[n] = "prune"
  /\ room' = [room EXCEPT !.pruned = @ \cup plan[n]]
  /\ view' = [view EXCEPT ![n] = room']
  /\ clear' = [clear EXCEPT ![n] = TRUE]
  /\ Goto(n, "release")
  /\ UNCHANGED <<main, held, plan, expired, failures>>

\* The prune landed, and its answer was lost until the retries ran out.  (Any
\* other push that ends so leaves what the step and a failure after it leave.)
PruneUnanswered(n) ==
  /\ Fails
  /\ pc[n] = "prune"
  /\ room' = [room EXCEPT !.pruned = @ \cup plan[n]]
  /\ Goto(n, "release")
  /\ UNCHANGED <<main, view, held, local, expired>>

\* A git call throws: seal goes to its finally block.
Throws(n) ==
  /\ Fails
  /\ pc[n] \in {"plan", "recover", "renewPlan", "fetch", "main", "renewPrune", "prune"}
  /\ Goto(n, "release")
  /\ UNCHANGED <<room, main, view, held, local, expired>>

Forget(n) ==
  /\ held' = [held EXCEPT ![n] = NoLock]
  /\ plan' = [plan EXCEPT ![n] = NoPlan]
  /\ clear' = [clear EXCEPT ![n] = FALSE]

\* releaseLock: with the plan if the seal is complete, and only an own lock.
Release(n) ==
  /\ pc[n] = "release" /\ Owns(n)
  /\ room' = [room EXCEPT !.lock = NoLock, !.plan = IF clear[n] THEN NoPlan ELSE @]
  /\ view' = [view EXCEPT ![n] = room']
  /\ Forget(n) /\ Goto(n, "idle")
  /\ UNCHANGED <<main, expired, failures>>

ReleaseSkips(n) ==
  /\ pc[n] = "release" /\ ~Owns(n)
  /\ Forget(n) /\ Goto(n, "idle")
  /\ UNCHANGED <<room, main, view, expired, failures>>

\* The process dies, or the release itself fails and is only logged.
Dies(n) ==
  /\ Fails
  /\ pc[n] \notin {"idle", "off"}
  /\ Forget(n) /\ Goto(n, "idle")
  /\ UNCHANGED <<room, main, view, expired>>

\* The machine goes, at any moment, and does not come back.
SwitchedOff(n) ==
  /\ Fails
  /\ pc[n] # "off"
  /\ Forget(n) /\ Goto(n, "off")
  /\ UNCHANGED <<room, main, view, expired>>

-----------------------------------------------------------------------------
Acquire(n) ==
  AcquireFetch(n) \/ ClaimResumes(n) \/ ClaimBusy(n) \/ ClaimWins(n) \/ ClaimLoses(n)

Prepare(n) ==
  ResumePlan(n) \/ NoPlanNeeded(n) \/ CommitPlan(n) \/ PlanConflicts(n) \/ Recover(n)

Work(n) ==
  \/ Renew(n) \/ RenewFindsLost(n) \/ Fetch(n) \/ PushMain(n) \/ StaleHolderStops(n)
  \/ Prune(n) \/ Release(n) \/ ReleaseSkips(n)

Next ==
  \/ \E m \in Msgs : Post(m)
  \/ \E t \in Tokens : Expire(t)
  \/ \E n \in Nodes :
       \/ Sync(n) \/ Start(n) \/ Acquire(n) \/ Prepare(n) \/ Work(n)
       \/ PruneUnanswered(n) \/ Throws(n) \/ Dies(n) \/ SwitchedOff(n)

Spec == Init /\ [][Next]_vars

\* A node that is on keeps syncing and starts a seal after a sync that shows one is due
\* (roomsNeedingSeal); a running seal takes its next step; a lease that nobody
\* renews runs out.
Fairness ==
  /\ \A n \in Nodes : WF_vars(Sync(n)) /\ WF_vars(Start(n))
                      /\ WF_vars(Acquire(n)) /\ WF_vars(Prepare(n)) /\ WF_vars(Work(n))
  /\ \A t \in Tokens : WF_vars(Expire(t))

FairSpec == Spec /\ Fairness

-----------------------------------------------------------------------------
\* "Pruning is not data loss": whatever a seal removed from the room is in main's
\* history and in a digest, whoever stole the lock from whom and wherever a
\* sealer died.
PrunedIsRecorded ==
  \A m \in room.pruned : m \in main.archived /\ \E S \in main.digests : m \in S

\* A message is summarised once: two digests never share a message, although a
\* successor may redo what a dead or slow holder had begun.
SealedOnce == \A S, T \in main.digests : S # T => S \cap T = {}

\* A lock leaves the room branch only by its own seal's release or, once it has
\* expired, by theft: "never let an expired holder delete its successor's lock".
LockLeavesRightly ==
  [][room.lock # NoLock /\ room'.lock # room.lock
       => \/ room.lock \in expired
          \/ \E n \in Nodes : pc[n] = "release" /\ held[n] = room.lock]_vars

\* A plan in the room can be carried out or completed by whoever gets the lock
\* next: its messages are all there, or all gone with their digest on main.
\* ("A dead holder leaves a lock that expires rather than wedging the room.")
PlanIsResumable ==
  room.plan # NoPlan =>
    \/ Whole(room, room.plan)
    \/ Gone(room, room.plan) /\ room.plan \in main.digests

\* If leases outlast the holders that live, then whatever fails finitely often, a
\* room beyond its window is sealed and the plan for it removed, as long as one
\* machine remains.  (The expired lock of a dead sealer may stay: only the next
\* seal would steal it.)
RoomGetsSealed ==
  <>[](\/ OverWindow(room) = {} /\ room.plan = NoPlan
       \/ \A n \in Nodes : pc[n] = "off")

=============================================================================
