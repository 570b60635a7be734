---------------------------- MODULE RoomDelivery ----------------------------
(***************************************************************************)
(* How the messages of one room travel between the machines of a network:  *)
(* Network.send, Network.sync, joinRoom and leaveRoom, the outbox, and the *)
(* places where a seal touches a room (packages/core/src/network.ts,       *)
(* network/*.ts, git/repo.ts, sync/detector.ts, state.ts).                 *)
(*                                                                         *)
(* Every node has its own clone.  What it runs against the clone it runs   *)
(* under its network lock (module FileLock; taken as exclusive here), so a *)
(* node is one sequential process, except that its inbox is drained        *)
(* without the lock and a seal takes the lock once per step:               *)
(*                                                                         *)
(*   "idle"      the lock is free          "changed"    the room moved     *)
(*   "sending"   push of a sent message    "delivering" fill the inbox     *)
(*   "recording" setHead after that push   "draining"   push of the outbox *)
(*   "refresh"   fetch after the drain     "polling"    ls-remote          *)
(*                                                                         *)
(* A git head of the room is abstracted to what it contains: the messages  *)
(* posted in its history and those a seal pruned from its tree.  This is   *)
(* enough because commits only add uniquely named files or prune them, so  *)
(* rebasing and merging never conflict and always yield the union, and one *)
(* head fast-forwards another exactly when it contains it.                 *)
(*                                                                         *)
(* A rebase takes HEAD off the branch, replays the commits, moves the      *)
(* branch and puts HEAD back on it.  A process that dies inside it leaves  *)
(* the worktree in the middle of that, with the files that tell git what   *)
(* to abort to; uncommitted files that a death leaves are not modelled.    *)
(***************************************************************************)
EXTENDS Naturals

CONSTANTS Nodes, Msgs,
          Author,       \* Author[m]: the node that sends m
          AddressedTo,  \* AddressedTo[m]: the nodes whose inbox m is for
          Sealers,      \* the nodes that seal the room
          MaxCrashes,   \* bound on the number of crashes
          NoHead        \* no row in the cursors table, no detached HEAD, no rebase

VARIABLES room,         \* the room branch on the remote
          tracked,      \* tracked[n]: refs/remotes/origin/<room> in n's clone
          local,        \* local[n]: the room branch of n's clone
          detached,     \* detached[n]: HEAD of n's worktree, or NoHead if it is on the branch
          orig,         \* orig[n]: what an unfinished rebase in n's worktree began with, or NoHead
          cursor,       \* cursor[n]: the delivery head in n's state database
          inbox,        \* inbox[n][m]: the row of m in n's inbox table
          subscribed,   \* the nodes subscribed to the room
          pc,           \* where the holder of n's network lock is
          polled,       \* polled[n]: the head n's running sync saw in ls-remote
          sealing,      \* the nodes whose seal has pruned but not yet set the cursor
          sent,         \* history: the messages whose commit was made
          stray,        \* history: those committed on top of an unfinished rebase
          crashes

interrupted == <<detached, orig>>
worktree == <<local, interrupted>>
history == <<sent, stray>>
vars == <<room, tracked, worktree, cursor, inbox, subscribed, pc, polled, sealing, history, crashes>>

RoomHead == [posted: SUBSET Msgs, pruned: SUBSET Msgs]
Empty == [posted |-> {}, pruned |-> {}]
Item == {"absent", "pending", "processed"}
Steps == {"idle", "sending", "recording", "draining", "refresh", "polling", "changed",
          "delivering"}

ASSUME DeliveryAssumption ==
  /\ Author \in [Msgs -> Nodes]
  /\ AddressedTo \in [Msgs -> SUBSET Nodes]
  /\ \A m \in Msgs : Author[m] \notin AddressedTo[m]
  /\ Sealers \subseteq Nodes
  /\ MaxCrashes \in Nat
  /\ NoHead \notin RoomHead

\* Type invariant.  HEAD is off the branch only in a rebase.
TypeOK ==
  /\ room \in RoomHead
  /\ tracked \in [Nodes -> RoomHead]
  /\ local \in [Nodes -> RoomHead]
  /\ detached \in [Nodes -> RoomHead \cup {NoHead}]
  /\ orig \in [Nodes -> RoomHead \cup {NoHead}]
  /\ \A n \in Nodes : orig[n] = NoHead => detached[n] = NoHead
  /\ cursor \in [Nodes -> RoomHead \cup {NoHead}]
  /\ inbox \in [Nodes -> [Msgs -> Item]]
  /\ subscribed \in SUBSET Nodes
  /\ pc \in [Nodes -> Steps]
  /\ polled \in [Nodes -> RoomHead]
  /\ sealing \in SUBSET Nodes
  /\ sent \in SUBSET Msgs
  /\ stray \in SUBSET Msgs
  /\ crashes \in Nat

Init ==
  /\ room = Empty
  /\ tracked = [n \in Nodes |-> Empty]
  /\ local = [n \in Nodes |-> Empty]
  /\ detached = [n \in Nodes |-> NoHead]
  /\ orig = [n \in Nodes |-> NoHead]
  /\ cursor = [n \in Nodes |-> NoHead]
  /\ inbox = [n \in Nodes |-> [m \in Msgs |-> "absent"]]
  /\ subscribed = {}
  /\ pc = [n \in Nodes |-> "idle"]
  /\ polled = [n \in Nodes |-> Empty]
  /\ sealing = {}
  /\ sent = {} /\ stray = {}
  /\ crashes = 0

-----------------------------------------------------------------------------
\* Heads.
Live(h) == h.posted \ h.pruned

Union(h, g) == [posted |-> h.posted \cup g.posted, pruned |-> h.pruned \cup g.pruned]

Within(h, g) == h.posted \subseteq g.posted /\ h.pruned \subseteq g.pruned

With(h, S) == [h EXCEPT !.posted = @ \cup S]
Without(h, S) == [h EXCEPT !.pruned = @ \cup S]

Writers == {Author[m] : m \in Msgs}
Readers == Nodes \ (Writers \cup Sealers)

MutFastForwards(n) == TRUE

\* The remote refuses a push that is not a fast-forward of its branch.
FastForwards(n) == Within(room, local[n])

\* HEAD of n's worktree.
WorkHead(n) == IF detached[n] = NoHead THEN local[n] ELSE detached[n]

MutRestored(n) == WorkHead(n)

\* restoreWorktrees: a worktree whose HEAD is detached is in the middle of a rebase, which
\* it aborts.  What is committed on the branch is the outbox and stays.
Restored(n) == IF detached[n] = NoHead THEN local[n] ELSE orig[n]

MutAhead(n) == tracked[n] # Empty /\ ~Within(Restored(n), tracked[n])

\* aheadCount > 0: the outbox of n is not empty.
Ahead(n) == ~Within(Restored(n), tracked[n])

\* What n has processed for delivery, as its cursor says.
Processed(n) == IF cursor[n] = NoHead THEN {} ELSE Live(cursor[n])

\* collectRoomUpdate: the files of the polled tree that the cursor's tree lacks,
\* and of those shouldDeliver's.
New(n) == {m \in Live(polled[n]) \ Processed(n) : n \in AddressedTo[m]}

Goto(n, step) == pc' = [pc EXCEPT ![n] = step]

\* What a sync learnt from ls-remote lives as long as the sync.
Forget(n) == polled' = [polled EXCEPT ![n] = Empty]

\* No rebase is left in n's worktree.
NoRebase(n) ==
  /\ detached' = [detached EXCEPT ![n] = NoHead]
  /\ orig' = [orig EXCEPT ![n] = NoHead]

\* git rebase --abort: the branch is what the rebase began with, and HEAD is on it.
Aborts(n) == local' = [local EXCEPT ![n] = orig[n]] /\ NoRebase(n)

\* restoreClean does so only where it finds HEAD detached.
Restores(n) == IF detached[n] = NoHead THEN UNCHANGED interrupted ELSE NoRebase(n)

-----------------------------------------------------------------------------
\* ensureRoomWorktree: h is the room branch n's clone has, or the fetched one if it
\* has none.  (No branch and one without messages look alike here.)
Materialise(n, h) ==
  \/ h = local[n] /\ UNCHANGED tracked
  \/ local[n] = Empty /\ h = room /\ tracked' = [tracked EXCEPT ![n] = room]

\* The commit of m goes where HEAD is: send takes a worktree that exists as it is.
CommitOnBranch(n, m) ==
  /\ detached[n] = NoHead
  /\ \E h \in {local[n], room} :
       Materialise(n, h) /\ local' = [local EXCEPT ![n] = With(h, {m})]
  /\ UNCHANGED detached

CommitOffBranch(n, m) ==
  /\ detached[n] # NoHead
  /\ detached' = [detached EXCEPT ![n] = With(@, {m})]
  /\ UNCHANGED <<tracked, local>>

\* Network.send up to its commit.  Every message is sent once.
Send(n, m) ==
  /\ pc[n] = "idle" /\ n \in subscribed
  /\ Author[m] = n /\ m \notin sent
  /\ CommitOnBranch(n, m) \/ CommitOffBranch(n, m)
  /\ sent' = sent \cup {m}
  /\ stray' = IF orig[n] = NoHead THEN stray ELSE stray \cup {m}
  /\ Goto(n, "sending")
  /\ UNCHANGED <<room, orig, cursor, inbox, subscribed, polled, sealing, crashes>>

\* pushWithRetry, for send and for drainOutbox.  It pushes the branch, wherever HEAD is.
Pushing(n) == pc[n] \in {"sending", "draining"}

\* Whether a push moves the remote-tracking ref is left to git ("an explicit
\* push does not reliably move it").
PushAccepted(n) ==
  /\ Pushing(n) /\ FastForwards(n)
  /\ room' = local[n]
  /\ tracked' \in {tracked, [tracked EXCEPT ![n] = local[n]]}
  /\ Goto(n, IF pc[n] = "sending" THEN "recording" ELSE "refresh")
  /\ UNCHANGED <<worktree, cursor, inbox, subscribed, polled, sealing, history, crashes>>

\* The push landed and its answer was lost: a network failure, pushed again.
PushUnanswered(n) ==
  /\ Pushing(n) /\ FastForwards(n)
  /\ room' = local[n]
  /\ UNCHANGED <<tracked, worktree, cursor, inbox, subscribed, pc, polled, sealing, history, crashes>>

\* A rebase is needed where HEAD lacks something of the room and has commits of its own.
\* Heads with the same content may be different commits (a rebase makes new ones), so whether
\* git can fast-forward a clone that ever commits is left open.
Rebases(n) == n \in Writers \cup Sealers /\ ~Within(room, local[n])

\* Not a fast-forward: fetch and rebase, which brings in what peers posted.
PushRejected(n) ==
  /\ Pushing(n) /\ ~FastForwards(n) /\ orig[n] = NoHead
  /\ tracked' = [tracked EXCEPT ![n] = room]
  /\ local' = [local EXCEPT ![n] = Union(@, room)]
  /\ UNCHANGED <<room, interrupted, cursor, inbox, subscribed, pc, polled, sealing, history, crashes>>

\* git refuses to rebase while a rebase is unfinished.  That one is aborted, and
\* pushWithRetry throws; both callers go on.
RebaseRefused(n) ==
  /\ Pushing(n) /\ ~FastForwards(n) /\ orig[n] # NoHead
  /\ tracked' = [tracked EXCEPT ![n] = room]
  /\ Aborts(n)
  /\ Goto(n, IF pc[n] = "sending" THEN "recording" ELSE "polling")
  /\ UNCHANGED <<room, cursor, inbox, subscribed, polled, sealing, history, crashes>>

\* Unreachable, refused, or out of attempts, which may happen after any number
\* of rejections: the commit stays queued.  Both callers go on.
PushGivesUp(n) ==
  /\ Pushing(n)
  /\ Goto(n, IF pc[n] = "sending" THEN "recording" ELSE "polling")
  /\ UNCHANGED <<room, tracked, worktree, cursor, inbox, subscribed, polled, sealing, history, crashes>>

\* The last step of send: setHead(rev-parse HEAD).
RecordOwnHead(n) ==
  /\ pc[n] = "recording"
  /\ cursor' = [cursor EXCEPT ![n] = WorkHead(n)]
  /\ Goto(n, "idle")
  /\ UNCHANGED <<room, tracked, worktree, inbox, subscribed, polled, sealing, history, crashes>>

-----------------------------------------------------------------------------
\* syncOnce: restoreWorktrees, then drainOutbox if anything is queued.
SyncStart(n) ==
  /\ pc[n] = "idle" /\ n \in subscribed
  /\ local' = [local EXCEPT ![n] = Restored(n)] /\ Restores(n)
  /\ Goto(n, IF Ahead(n) THEN "draining" ELSE "polling")
  /\ UNCHANGED <<room, tracked, cursor, inbox, subscribed, polled, sealing, history, crashes>>

\* The fetch after a drained outbox; its failure is ignored.
Refresh(n) ==
  /\ pc[n] = "refresh"
  /\ tracked' \in {tracked, [tracked EXCEPT ![n] = room]}
  /\ Goto(n, "polling")
  /\ UNCHANGED <<room, worktree, cursor, inbox, subscribed, polled, sealing, history, crashes>>

MutMoved(n) == cursor[n] = NoHead

\* diffRoomHeads
Moved(n) == cursor[n] # room

MutPoll(n) ==
  /\ pc[n] = "polling"
  /\ polled' = [polled EXCEPT ![n] = cursor[n]]
  /\ Goto(n, IF Moved(n) THEN "changed" ELSE "idle")
  /\ UNCHANGED <<room, tracked, worktree, cursor, inbox, subscribed, sealing, history, crashes>>

\* lsRemoteHeads
Poll(n) ==
  /\ pc[n] = "polling"
  /\ polled' = [polled EXCEPT ![n] = IF Moved(n) THEN room ELSE Empty]
  /\ Goto(n, IF Moved(n) THEN "changed" ELSE "idle")
  /\ UNCHANGED <<room, tracked, worktree, cursor, inbox, subscribed, sealing, history, crashes>>

\* fetch and fastForward, by a rebase where it must: the worktree may get further than
\* the polled head.
Fetch(n) ==
  /\ pc[n] = "changed"
  /\ orig[n] = NoHead \/ Within(local[n], room) \/ Within(room, local[n])
  /\ tracked' = [tracked EXCEPT ![n] = room]
  /\ local' = [local EXCEPT ![n] = Union(@, room)]
  /\ Goto(n, "delivering")
  /\ UNCHANGED <<room, interrupted, cursor, inbox, subscribed, polled, sealing, history, crashes>>

\* The rebase of fastForward is refused like that of a push, and sync throws.
FetchRefused(n) ==
  /\ pc[n] = "changed" /\ Rebases(n) /\ orig[n] # NoHead
  /\ tracked' = [tracked EXCEPT ![n] = room]
  /\ Aborts(n)
  /\ Goto(n, "idle") /\ Forget(n)
  /\ UNCHANGED <<room, cursor, inbox, subscribed, sealing, history, crashes>>

\* ls-remote or the fetch throws, and sync with it.
SyncFails(n) ==
  /\ pc[n] \in {"polling", "changed"}
  /\ Goto(n, "idle") /\ Forget(n)
  /\ UNCHANGED <<room, tracked, worktree, cursor, inbox, subscribed, sealing, history, crashes>>

MutDeliver(n, m) ==
  /\ pc[n] = "delivering"
  /\ m \in New(n)
  /\ inbox' = [inbox EXCEPT ![n][m] = "pending"]
  /\ UNCHANGED <<room, tracked, worktree, cursor, subscribed, pc, polled, sealing, history, crashes>>

\* addToInbox: ON CONFLICT(id) DO NOTHING.
Deliver(n, m) ==
  /\ pc[n] = "delivering"
  /\ m \in New(n) /\ inbox[n][m] = "absent"
  /\ inbox' = [inbox EXCEPT ![n][m] = "pending"]
  /\ UNCHANGED <<room, tracked, worktree, cursor, subscribed, pc, polled, sealing, history, crashes>>

MutSyncDone(n) ==
  /\ pc[n] = "delivering"
  /\ cursor' = [cursor EXCEPT ![n] = polled[n]]
  /\ Goto(n, "idle") /\ Forget(n)
  /\ UNCHANGED <<room, tracked, worktree, inbox, subscribed, sealing, history, crashes>>

\* setHead(change.to), once every message of the update is in the inbox.
SyncDone(n) ==
  /\ pc[n] = "delivering"
  /\ \A m \in New(n) : inbox[n][m] # "absent"
  /\ cursor' = [cursor EXCEPT ![n] = polled[n]]
  /\ Goto(n, "idle") /\ Forget(n)
  /\ UNCHANGED <<room, tracked, worktree, inbox, subscribed, sealing, history, crashes>>

\* drainInbox: an agent is done with an item.  No lock.
DrainInbox(n, m) ==
  /\ inbox[n][m] = "pending"
  /\ inbox' = [inbox EXCEPT ![n][m] = "processed"]
  /\ UNCHANGED <<room, tracked, worktree, cursor, subscribed, pc, polled, sealing, history, crashes>>

-----------------------------------------------------------------------------
\* joinRoom.  A branch left from an earlier membership is checked out as it is.  The
\* subscription is saved first: it stays when the fetch fails.
JoinRoom(n) ==
  /\ pc[n] = "idle" /\ n \notin subscribed
  /\ subscribed' = subscribed \cup {n}
  /\ \E h \in {local[n], room} : Materialise(n, h) /\ local' = [local EXCEPT ![n] = h]
  /\ UNCHANGED <<room, interrupted, cursor, inbox, pc, polled, sealing, history, crashes>>

\* leaveRoom: the branch stays; the worktree, and what the state database knows of the
\* room, go.
LeaveRoom(n) ==
  /\ pc[n] = "idle" /\ n \in subscribed
  /\ subscribed' = subscribed \ {n}
  /\ cursor' = [cursor EXCEPT ![n] = NoHead]
  /\ inbox' = [inbox EXCEPT ![n] = [m \in Msgs |-> "absent"]]
  /\ NoRebase(n)
  /\ UNCHANGED <<room, tracked, local, pc, polled, sealing, history, crashes>>

\* What a seal pushes when it prunes S: its worktree without S, merged with what
\* arrived meanwhile.
Pruned(n, S) == Without(Union(Restored(n), room), S)

\* The prune step of a seal, whose messages are durable on main by then.  It runs
\* under one hold of the lock, restores the worktree first, merges where a send would
\* rebase, and shows nothing to others before its push.
Prunes(n, S) ==
  /\ pc[n] = "idle" /\ n \in Sealers \cap subscribed
  /\ S # {} /\ S \subseteq Live(Restored(n)) \cap tracked[n].posted

SealPrune(n, S) ==
  /\ Prunes(n, S) /\ n \notin sealing
  /\ room' = Pruned(n, S)
  /\ local' = [local EXCEPT ![n] = Pruned(n, S)] /\ Restores(n)
  /\ tracked' \in {tracked, [tracked EXCEPT ![n] = Pruned(n, S)]}
  /\ sealing' = sealing \cup {n}
  /\ UNCHANGED <<cursor, inbox, subscribed, pc, polled, history, crashes>>

\* The push failed, or landed and never answered: the step is rolled back locally, and
\* rollbackTo leaves no rebase behind.
SealPruneUnanswered(n, S) ==
  /\ Prunes(n, S) /\ n \notin sealing
  /\ room' \in {room, Pruned(n, S)}
  /\ local' = [local EXCEPT ![n] = Restored(n)] /\ NoRebase(n)
  /\ UNCHANGED <<tracked, cursor, inbox, subscribed, pc, polled, sealing, history, crashes>>

\* The sealer died between the prune commit and its push.  The commit removes
\* messages, so dropUnpublishedSealCommits leaves it to the outbox.
SealPruneDies(n, S) ==
  /\ Prunes(n, S) /\ crashes < MaxCrashes
  /\ local' = [local EXCEPT ![n] = Without(Restored(n), S)] /\ Restores(n)
  /\ sealing' = sealing \ {n}
  /\ crashes' = crashes + 1
  /\ UNCHANGED <<room, tracked, cursor, inbox, subscribed, pc, polled, history>>

\* seal() sets the cursor to the room branch, under a hold of the lock of its
\* own; whether the node still follows the room is not asked.
SealRecord(n) ==
  /\ n \in sealing /\ pc[n] = "idle"
  /\ cursor' = [cursor EXCEPT ![n] = local[n]]
  /\ sealing' = sealing \ {n}
  /\ UNCHANGED <<room, tracked, worktree, inbox, subscribed, pc, polled, history, crashes>>

\* The process of n dies; another one will find what it left.
Dies(n) ==
  /\ crashes < MaxCrashes
  /\ crashes' = crashes + 1
  /\ Goto(n, "idle") /\ Forget(n)
  /\ sealing' = sealing \ {n}
  /\ UNCHANGED <<room, cursor, inbox, subscribed, history>>

Fetching(n) == IF Pushing(n) THEN ~FastForwards(n) ELSE pc[n] \in {"refresh", "changed"}

\* Between two runs of git, the fetch perhaps being done.
Crash(n) ==
  /\ pc[n] # "idle" /\ Dies(n)
  /\ UNCHANGED tracked \/ (Fetching(n) /\ tracked' = [tracked EXCEPT ![n] = room])
  /\ UNCHANGED worktree

\* HEAD with some of the commits of n's branch replayed on what was fetched.
Replayed(n) ==
  {Union([posted |-> S, pruned |-> T], room) : S \in SUBSET local[n].posted, T \in SUBSET local[n].pruned}

\* In the middle of a rebase: before HEAD leaves the branch, with some commits replayed,
\* or after the branch moved.
RebaseDies(n) ==
  /\ Pushing(n) \/ pc[n] = "changed"
  /\ Rebases(n) /\ orig[n] = NoHead /\ Dies(n)
  /\ tracked' = [tracked EXCEPT ![n] = room]
  /\ orig' = [orig EXCEPT ![n] = local[n]]
  /\ \/ UNCHANGED <<local, detached>>
     \/ /\ UNCHANGED local
        /\ \E h \in Replayed(n) : detached' = [detached EXCEPT ![n] = h]
     \/ /\ local' = [local EXCEPT ![n] = Union(@, room)]
        /\ detached' \in {detached, [detached EXCEPT ![n] = Union(local[n], room)]}

-----------------------------------------------------------------------------
\* One attempt of pushWithRetry.
PushTried(n) == IF FastForwards(n) THEN PushAccepted(n) ELSE PushRejected(n) \/ RebaseRefused(n)

Push(n) == PushTried(n) \/ PushUnanswered(n) \/ PushGivesUp(n)

Sync(n) ==
  \/ SyncStart(n) \/ Refresh(n) \/ Poll(n) \/ Fetch(n) \/ FetchRefused(n)
  \/ SyncFails(n) \/ SyncDone(n)
  \/ \E m \in Msgs : Deliver(n, m)

Seal(n) ==
  \/ \E S \in SUBSET Msgs : SealPrune(n, S) \/ SealPruneUnanswered(n, S) \/ SealPruneDies(n, S)
  \/ SealRecord(n)

Next ==
  \E n \in Nodes :
    \/ \E m \in Msgs : Send(n, m) \/ DrainInbox(n, m)
    \/ Push(n) \/ RecordOwnHead(n) \/ Sync(n)
    \/ JoinRoom(n) \/ LeaveRoom(n) \/ Seal(n)
    \/ Crash(n) \/ RebaseDies(n)

Spec == Init /\ [][Next]_vars

\* The daemon syncs again and again, a call under the lock runs to its end, and a
\* network that keeps being tried is not down for ever.
FairTo(n) ==
  /\ SF_vars(PushTried(n)) /\ WF_vars(RecordOwnHead(n))
  /\ SF_vars(SyncStart(n)) /\ WF_vars(Refresh(n))
  /\ SF_vars(Poll(n)) /\ SF_vars(Fetch(n) \/ FetchRefused(n))
  /\ \A m \in Msgs : WF_vars(Deliver(n, m))
  /\ WF_vars(SyncDone(n))

Fairness == \A n \in Nodes : FairTo(n)

FairSpec == Spec /\ Fairness

-----------------------------------------------------------------------------
\* A message whose send got as far as the commit is never lost by its author's clone, and
\* stays on its branch: not by a failed push, a death (in a rebase too), the abort of what
\* that death left, the cleaning of worktrees, or leaving.  The exception is a commit made
\* on top of an unfinished rebase, which SentIsQueued is about.
SentIsDurable == \A m \in sent \ stray : m \in local[Author[m]].posted

\* "The commit is already durable, so a push that did not go through is not a lost message
\* - it is a queued one" (network.ts): of every message whose commit was made.
SentIsQueued ==
  \A m \in sent :
    \E h \in {room, local[Author[m]], WorkHead(Author[m])} : m \in h.posted

\* The room only grows on the remote: no push of a stale clone takes away what
\* another node posted or undoes a prune.
RoomAppendOnly == [][Within(room, room')]_vars

\* "Those heads mean everything up to here has been processed for delivery"
\* (network.ts on the head table), for every node.
CursorIsProcessed ==
  \A n \in Nodes : \A m \in Processed(n) : n \in AddressedTo[m] => inbox[n][m] # "absent"

\* The same for the nodes whose cursor only sync moves.
ReaderCursorIsProcessed ==
  \A n \in Readers : \A m \in Processed(n) : n \in AddressedTo[m] => inbox[n][m] # "absent"

\* The room implements the promise of a mailbox.
Mail == INSTANCE Mailbox WITH posted <- room.posted, box <- inbox
ImplementsMailbox == Mail!Spec

\* A sent message reaches the room unless its author leaves first, although pushes are
\* refused, unanswered or given up and processes die, in the middle of a rebase too.
\* The exception is that of SentIsDurable.
SentReachesRoom ==
  \A m \in Msgs :
    m \in sent \ stray ~> m \in room.posted \cup stray \/ Author[m] \notin subscribed

\* A message live in the room reaches every subscribed reader it is for, unless a
\* seal prunes it first: a node that sends and seals nothing misses nothing.
PostedIsDelivered ==
  \A m \in Msgs : \A n \in Readers \cap AddressedTo[m] :
    m \in Live(room) /\ n \in subscribed
      ~> inbox[n][m] # "absent" \/ m \in room.pruned \/ n \notin subscribed

=============================================================================
