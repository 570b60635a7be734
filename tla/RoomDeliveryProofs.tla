------------------------- MODULE RoomDeliveryProofs -------------------------
(***************************************************************************)
(* What holds of RoomDelivery for any number of nodes, messages, sealers   *)
(* and crashes.                                                            *)
(***************************************************************************)
EXTENDS RoomDelivery, TLAPS

\* The tuples that UNCHANGED speaks of.
USE DEF worktree, interrupted, history

\* The operations on heads yield heads, and only add.
LEMMA HeadOps ==
  ASSUME NEW h \in RoomHead, NEW g \in RoomHead, NEW S \in SUBSET Msgs
  PROVE  /\ Union(h, g) \in RoomHead /\ With(h, S) \in RoomHead /\ Without(h, S) \in RoomHead
         /\ Union(h, g).posted = h.posted \cup g.posted
         /\ Union(h, g).pruned = h.pruned \cup g.pruned
         /\ With(h, S).posted = h.posted \cup S /\ With(h, S).pruned = h.pruned
         /\ Without(h, S).posted = h.posted /\ Without(h, S).pruned = h.pruned \cup S
BY DEF Union, With, Without, RoomHead

LEMMA EmptyHead == Empty \in RoomHead /\ Empty.posted = {} /\ Live(Empty) = {}
BY DEF Empty, RoomHead, Live

\* What a commit certainly leaves behind: with a rebase unfinished, only what an abort
\* keeps as well.
Kept(n) == IF orig[n] = NoHead THEN local[n].posted ELSE local[n].posted \cap orig[n].posted

\* Restoring a worktree yields a head that has what is kept.
LEMMA RestoredOps ==
  ASSUME TypeOK, NEW n \in Nodes
  PROVE  Restored(n) \in RoomHead /\ Kept(n) \subseteq Restored(n).posted
BY DEF TypeOK, Restored, Kept

\* What the push of a prune contains.
LEMMA PrunedOps ==
  ASSUME TypeOK, NEW n \in Nodes, NEW S \in SUBSET Msgs
  PROVE  /\ Pruned(n, S) \in RoomHead
         /\ Restored(n).posted \subseteq Pruned(n, S).posted
         /\ Within(room, Pruned(n, S))
<1>1. Restored(n) \in RoomHead /\ room \in RoomHead
  BY RestoredOps DEF TypeOK
<1>2. Union(Restored(n), room) \in RoomHead
  BY <1>1, HeadOps
<1> QED
  BY <1>1, <1>2, HeadOps DEF Pruned, Within

\* What becomes of an unfinished rebase.
LEMMA RestoresTyped ==
  ASSUME TypeOK, NEW n \in Nodes, Restores(n) \/ NoRebase(n)
  PROVE  /\ detached' \in [Nodes -> RoomHead \cup {NoHead}]
         /\ orig' \in [Nodes -> RoomHead \cup {NoHead}]
         /\ \A k \in Nodes : orig'[k] = NoHead => detached'[k] = NoHead
BY DEF TypeOK, Restores, NoRebase

LEMMA AbortsTyped ==
  ASSUME TypeOK, NEW n \in Nodes, orig[n] # NoHead, Aborts(n)
  PROVE  /\ local' \in [Nodes -> RoomHead]
         /\ detached' \in [Nodes -> RoomHead \cup {NoHead}]
         /\ orig' \in [Nodes -> RoomHead \cup {NoHead}]
         /\ \A k \in Nodes : orig'[k] = NoHead => detached'[k] = NoHead
BY DEF TypeOK, Aborts, NoRebase

\* What a worktree is checked out from contains what the clone had.
LEMMA Checkout ==
  ASSUME TypeOK, NEW n \in Nodes, NEW h \in {local[n], room}, Materialise(n, h)
  PROVE  /\ h \in RoomHead /\ local[n].posted \subseteq h.posted
         /\ tracked' \in [Nodes -> RoomHead]
BY EmptyHead DEF Materialise, TypeOK

LEMMA DeliveryStepTyped ==
  ASSUME TypeOK, [Next]_vars
  PROVE  TypeOK'
<1>1. CASE UNCHANGED vars
  BY <1>1 DEF TypeOK, vars
<1>2. ASSUME NEW n \in Nodes, NEW m \in Msgs, Send(n, m) \/ DrainInbox(n, m)
      PROVE  TypeOK'
  <2>1. CASE Send(n, m)
    <3>1. /\ sent' \in SUBSET Msgs /\ stray' \in SUBSET Msgs /\ pc' \in [Nodes -> Steps]
          /\ UNCHANGED <<room, orig, cursor, inbox, subscribed, polled, sealing, crashes>>
      BY <2>1 DEF Send, TypeOK, Goto, Steps
    <3>2. /\ local' \in [Nodes -> RoomHead] /\ tracked' \in [Nodes -> RoomHead]
          /\ detached' \in [Nodes -> RoomHead \cup {NoHead}]
          /\ \A k \in Nodes : orig[k] = NoHead => detached'[k] = NoHead
      <4>0. /\ local \in [Nodes -> RoomHead] /\ tracked \in [Nodes -> RoomHead]
            /\ detached \in [Nodes -> RoomHead \cup {NoHead}]
            /\ \A k \in Nodes : orig[k] = NoHead => detached[k] = NoHead
        BY DEF TypeOK
      <4>1. CASE CommitOnBranch(n, m)
        <5>1. PICK h \in {local[n], room} :
                Materialise(n, h) /\ local' = [local EXCEPT ![n] = With(h, {m})]
          BY <4>1 DEF CommitOnBranch
        <5>2. h \in RoomHead /\ tracked' \in [Nodes -> RoomHead]
          BY <5>1, Checkout
        <5>5. With(h, {m}) \in RoomHead
          BY <5>2, HeadOps
        <5>3. local' \in [Nodes -> RoomHead] /\ UNCHANGED detached
          BY <4>0, <4>1, <5>1, <5>5 DEF CommitOnBranch
        <5> QED BY <4>0, <5>2, <5>3
      <4>2. CASE CommitOffBranch(n, m)
        <5>1. detached[n] \in RoomHead /\ With(detached[n], {m}) \in RoomHead
          BY <4>0, <4>2, HeadOps DEF CommitOffBranch
        <5>2. /\ detached' = [detached EXCEPT ![n] = With(detached[n], {m})]
              /\ detached[n] # NoHead /\ UNCHANGED <<tracked, local>>
          BY <4>2 DEF CommitOffBranch
        <5>3. detached' \in [Nodes -> RoomHead \cup {NoHead}]
          BY <4>0, <5>1, <5>2
        <5>4. ASSUME NEW k \in Nodes, orig[k] = NoHead
              PROVE  detached'[k] = NoHead
          <6>1. detached[k] = NoHead /\ k # n
            BY <4>0, <5>2, <5>4
          <6> QED BY <4>0, <5>2, <6>1
        <5> QED BY <4>0, <5>2, <5>3, <5>4
      <4> QED BY <2>1, <4>1, <4>2 DEF Send
    <3> QED BY <3>1, <3>2 DEF TypeOK
  <2>2. CASE DrainInbox(n, m)
    BY <2>2 DEF DrainInbox, TypeOK, Item
  <2> QED BY <1>2, <2>1, <2>2
<1>3. ASSUME NEW n \in Nodes, Push(n) \/ RecordOwnHead(n)
      PROVE  TypeOK'
  <2>1. CASE PushAccepted(n)
    BY <2>1 DEF PushAccepted, TypeOK, Goto, Steps
  <2>2. CASE PushUnanswered(n)
    BY <2>2 DEF PushUnanswered, TypeOK
  <2>3. CASE PushRejected(n)
    <3>1. Union(local[n], room) \in RoomHead
      BY HeadOps DEF TypeOK
    <3> QED BY <2>3, <3>1 DEF PushRejected, TypeOK
  <2>4. CASE PushGivesUp(n)
    BY <2>4 DEF PushGivesUp, TypeOK, Goto, Steps
  <2>5. CASE RecordOwnHead(n)
    <3>1. WorkHead(n) \in RoomHead
      BY DEF WorkHead, TypeOK
    <3> QED BY <2>5, <3>1 DEF RecordOwnHead, TypeOK, Goto, Steps
  <2>6. CASE RebaseRefused(n)
    BY <2>6, AbortsTyped DEF RebaseRefused, TypeOK, Goto, Steps
  <2> QED BY <1>3, <2>1, <2>2, <2>3, <2>4, <2>5, <2>6 DEF Push, PushTried
<1>4. ASSUME NEW n \in Nodes, Sync(n)
      PROVE  TypeOK'
  <2>1. CASE SyncStart(n)
    BY <2>1, RestoredOps, RestoresTyped DEF SyncStart, TypeOK, Goto, Steps
  <2>2. CASE Refresh(n)
    BY <2>2 DEF Refresh, TypeOK, Goto, Steps
  <2>3. CASE Poll(n)
    BY <2>3, EmptyHead DEF Poll, TypeOK, Goto, Steps
  <2>4. CASE Fetch(n)
    <3>1. Union(local[n], room) \in RoomHead
      BY HeadOps DEF TypeOK
    <3> QED BY <2>4, <3>1 DEF Fetch, TypeOK, Goto, Steps
  <2>5. CASE SyncFails(n)
    BY <2>5, EmptyHead DEF SyncFails, Forget, TypeOK, Goto, Steps
  <2>6. CASE SyncDone(n)
    BY <2>6, EmptyHead DEF SyncDone, Forget, TypeOK, Goto, Steps
  <2>7. ASSUME NEW m \in Msgs, Deliver(n, m)
        PROVE  TypeOK'
    BY <2>7 DEF Deliver, TypeOK, Item
  <2>8. CASE FetchRefused(n)
    BY <2>8, EmptyHead, AbortsTyped DEF FetchRefused, Forget, TypeOK, Goto, Steps
  <2> QED BY <1>4, <2>1, <2>2, <2>3, <2>4, <2>5, <2>6, <2>7, <2>8 DEF Sync
<1>5. ASSUME NEW n \in Nodes, JoinRoom(n) \/ LeaveRoom(n) \/ Crash(n) \/ RebaseDies(n)
      PROVE  TypeOK'
  <2>1. CASE JoinRoom(n)
    <3>1. PICK h \in {local[n], room} :
            Materialise(n, h) /\ local' = [local EXCEPT ![n] = h]
      BY <2>1 DEF JoinRoom
    <3>2. h \in RoomHead /\ tracked' \in [Nodes -> RoomHead]
      BY <3>1, Checkout
    <3> QED BY <2>1, <3>1, <3>2 DEF JoinRoom, TypeOK
  <2>2. CASE LeaveRoom(n)
    BY <2>2, RestoresTyped DEF LeaveRoom, TypeOK, Item
  <2>3. CASE Crash(n)
    BY <2>3, EmptyHead DEF Crash, Dies, Forget, TypeOK, Goto, Steps
  <2>4. CASE RebaseDies(n)
    <3>1. /\ local[n] \in RoomHead /\ room \in RoomHead
          /\ Union(local[n], room) \in RoomHead
          /\ Replayed(n) \subseteq RoomHead
      BY HeadOps DEF TypeOK, Replayed, RoomHead, Union
    <3>2. /\ UNCHANGED local \/ local' = [local EXCEPT ![n] = Union(local[n], room)]
          /\ \/ UNCHANGED detached
             \/ \E h \in RoomHead : detached' = [detached EXCEPT ![n] = h]
      BY <2>4, <3>1 DEF RebaseDies
    <3>3. orig' = [orig EXCEPT ![n] = local[n]] /\ local[n] # NoHead
      BY <2>4, <3>1, DeliveryAssumption DEF RebaseDies
    <3>4. local' \in [Nodes -> RoomHead]
      BY <3>1, <3>2 DEF TypeOK
    <3>5. /\ detached' \in [Nodes -> RoomHead \cup {NoHead}]
          /\ orig' \in [Nodes -> RoomHead \cup {NoHead}]
          /\ \A k \in Nodes : orig'[k] = NoHead => detached'[k] = NoHead
      BY <3>1, <3>2, <3>3 DEF TypeOK
    <3> QED
      BY <2>4, <3>4, <3>5, EmptyHead DEF RebaseDies, Dies, Forget, TypeOK, Goto, Steps
  <2> QED BY <1>5, <2>1, <2>2, <2>3, <2>4
<1>6. ASSUME NEW n \in Nodes, Seal(n)
      PROVE  TypeOK'
  <2>1. ASSUME NEW S \in SUBSET Msgs, SealPrune(n, S)
        PROVE  TypeOK'
    BY <2>1, PrunedOps, RestoresTyped DEF SealPrune, Prunes, TypeOK
  <2>2. ASSUME NEW S \in SUBSET Msgs, SealPruneUnanswered(n, S)
        PROVE  TypeOK'
    BY <2>2, PrunedOps, RestoredOps, RestoresTyped DEF SealPruneUnanswered, Prunes, TypeOK
  <2>3. ASSUME NEW S \in SUBSET Msgs, SealPruneDies(n, S)
        PROVE  TypeOK'
    <3>1. Without(Restored(n), S) \in RoomHead
      BY RestoredOps, HeadOps
    <3> QED BY <2>3, <3>1, RestoresTyped DEF SealPruneDies, Prunes, TypeOK
  <2>4. CASE SealRecord(n)
    BY <2>4 DEF SealRecord, TypeOK
  <2> QED BY <1>6, <2>1, <2>2, <2>3, <2>4 DEF Seal
<1> QED
  BY <1>1, <1>2, <1>3, <1>4, <1>5, <1>6 DEF Next

\* Type correctness.
THEOREM DeliveryTyped == Spec => []TypeOK
<1>1. Init => TypeOK
  BY EmptyHead DEF Init, TypeOK, Item, Steps
<1>2. TypeOK /\ [Next]_vars => TypeOK'
  BY DeliveryStepTyped
<1> QED
  BY <1>1, <1>2, PTL DEF Spec

-----------------------------------------------------------------------------
\* What a node's step does to the branch and to an unfinished rebase.
LEMMA LocalSteps ==
  ASSUME TypeOK, NEW n \in Nodes,
         \/ \E m \in Msgs : Send(n, m) \/ DrainInbox(n, m)
         \/ Push(n) \/ RecordOwnHead(n) \/ Sync(n)
         \/ JoinRoom(n) \/ LeaveRoom(n) \/ Seal(n) \/ Crash(n) \/ RebaseDies(n)
  PROVE  \/ UNCHANGED <<local, orig>>
         \/ \E h \in RoomHead :
              /\ local' = [local EXCEPT ![n] = h]
              /\ \/ UNCHANGED orig /\ local[n].posted \subseteq h.posted
                 \/ orig' = [orig EXCEPT ![n] = NoHead] /\ Kept(n) \subseteq h.posted
                 \/ /\ orig[n] = NoHead /\ orig' = [orig EXCEPT ![n] = local[n]]
                    /\ local[n].posted \subseteq h.posted
<1> DEFINE Same == UNCHANGED <<local, orig>>
           Add(h) == UNCHANGED orig /\ local[n].posted \subseteq h.posted
           Settle(h) == orig' = [orig EXCEPT ![n] = NoHead] /\ Kept(n) \subseteq h.posted
           Begin(h) == /\ orig[n] = NoHead /\ orig' = [orig EXCEPT ![n] = local[n]]
                       /\ local[n].posted \subseteq h.posted
           Writes(h) == local' = [local EXCEPT ![n] = h] /\ (Add(h) \/ Settle(h) \/ Begin(h))
<1> SUFFICES Same \/ \E h \in RoomHead : Writes(h)
  OBVIOUS
<1>0. local[n] \in RoomHead /\ room \in RoomHead /\ local \in [Nodes -> RoomHead]
  BY DEF TypeOK
<1>1. ASSUME NEW h \in RoomHead, Restored(n).posted \subseteq h.posted, Restores(n),
             local' = [local EXCEPT ![n] = h]
      PROVE  \E g \in RoomHead : Writes(g)
  <2>1. CASE detached[n] = NoHead
    <3>1. Add(h)
      BY <1>1, <2>1 DEF Restored, Restores
    <3> QED BY <1>1, <3>1
  <2>2. CASE detached[n] # NoHead
    <3>1. Settle(h)
      BY <1>1, <2>2, RestoredOps DEF Restores, NoRebase
    <3> QED BY <1>1, <3>1
  <2> QED BY <2>1, <2>2
<1>2. ASSUME orig[n] # NoHead, Aborts(n)
      PROVE  \E g \in RoomHead : Writes(g)
  <2>1. orig[n] \in RoomHead
    BY <1>2 DEF TypeOK
  <2>2. Writes(orig[n])
    BY <1>2 DEF Aborts, NoRebase, Kept
  <2> QED BY <2>1, <2>2
<1>3. ASSUME NEW m \in Msgs, Send(n, m)
      PROVE  Same \/ \E h \in RoomHead : Writes(h)
  <2>1. CASE CommitOnBranch(n, m)
    <3>1. PICK h \in {local[n], room} :
            Materialise(n, h) /\ local' = [local EXCEPT ![n] = With(h, {m})]
      BY <2>1 DEF CommitOnBranch
    <3>2. h \in RoomHead /\ local[n].posted \subseteq h.posted
      BY <3>1, Checkout
    <3>3. With(h, {m}) \in RoomHead /\ With(h, {m}).posted = h.posted \cup {m}
      BY <3>2, HeadOps
    <3>4. Writes(With(h, {m}))
      BY <1>3, <3>1, <3>2, <3>3 DEF Send
    <3> QED BY <3>3, <3>4
  <2>2. CASE CommitOffBranch(n, m)
    BY <1>3, <2>2 DEF Send, CommitOffBranch
  <2> QED BY <1>3, <2>1, <2>2 DEF Send
<1>4. CASE PushRejected(n) \/ Fetch(n)
  <2>1. Union(local[n], room) \in RoomHead /\ local[n].posted \subseteq Union(local[n], room).posted
    BY <1>0, HeadOps
  <2>2. Writes(Union(local[n], room))
    BY <1>4, <2>1 DEF PushRejected, Fetch
  <2> QED BY <2>1, <2>2
<1>5. CASE RebaseRefused(n) \/ FetchRefused(n)
  BY <1>2, <1>5 DEF RebaseRefused, FetchRefused
<1>6. CASE SyncStart(n)
  BY <1>1, <1>6, RestoredOps DEF SyncStart
<1>7. CASE JoinRoom(n)
  <2>1. PICK h \in {local[n], room} : Materialise(n, h) /\ local' = [local EXCEPT ![n] = h]
    BY <1>7 DEF JoinRoom
  <2>2. h \in RoomHead /\ local[n].posted \subseteq h.posted
    BY <2>1, Checkout
  <2>3. Writes(h)
    BY <1>7, <2>1, <2>2 DEF JoinRoom
  <2> QED BY <2>2, <2>3
<1>8. CASE LeaveRoom(n)
  <2>1. local' = [local EXCEPT ![n] = local[n]] /\ Kept(n) \subseteq local[n].posted
    BY <1>0, <1>8 DEF LeaveRoom, Kept
  <2>2. Writes(local[n])
    BY <1>8, <2>1 DEF LeaveRoom, NoRebase
  <2> QED BY <1>0, <2>2
<1>9. ASSUME NEW S \in SUBSET Msgs, SealPrune(n, S)
      PROVE  \E h \in RoomHead : Writes(h)
  BY <1>1, <1>9, PrunedOps DEF SealPrune
<1>10. ASSUME NEW S \in SUBSET Msgs, SealPruneUnanswered(n, S)
       PROVE  \E h \in RoomHead : Writes(h)
  <2>1. Writes(Restored(n))
    BY <1>10, RestoredOps DEF SealPruneUnanswered, NoRebase
  <2> QED BY <2>1, RestoredOps
<1>11. ASSUME NEW S \in SUBSET Msgs, SealPruneDies(n, S)
       PROVE  \E h \in RoomHead : Writes(h)
  <2>1. Without(Restored(n), S) \in RoomHead /\ Without(Restored(n), S).posted = Restored(n).posted
    BY RestoredOps, HeadOps
  <2> QED BY <1>1, <1>11, <2>1 DEF SealPruneDies
<1>12. CASE RebaseDies(n)
  <2>1. PICK h \in {local[n], Union(local[n], room)} : local' = [local EXCEPT ![n] = h]
    BY <1>0, <1>12 DEF RebaseDies
  <2>2. h \in RoomHead /\ local[n].posted \subseteq h.posted
    BY <1>0, HeadOps
  <2>3. Writes(h)
    BY <1>12, <2>1, <2>2 DEF RebaseDies
  <2> QED BY <2>2, <2>3
<1>13. CASE \/ PushAccepted(n) \/ PushUnanswered(n) \/ PushGivesUp(n) \/ RecordOwnHead(n)
            \/ Refresh(n) \/ Poll(n) \/ SyncFails(n) \/ SyncDone(n)
            \/ SealRecord(n) \/ Crash(n)
            \/ \E m \in Msgs : DrainInbox(n, m) \/ Deliver(n, m)
  BY <1>13 DEF PushAccepted, PushUnanswered, PushGivesUp, RecordOwnHead, Refresh,
     Poll, SyncFails, SyncDone, SealRecord, Crash, DrainInbox, Deliver
<1> QED
  BY <1>3, <1>4, <1>5, <1>6, <1>7, <1>8, <1>9, <1>10, <1>11, <1>12, <1>13
     DEF Push, PushTried, Sync, Seal

\* What is kept stays kept, through deaths in a rebase and the aborts of what they left.
LEMMA KeptGrows ==
  ASSUME TypeOK, Next, NEW k \in Nodes
  PROVE  Kept(k) \subseteq Kept(k)'
<1>1. PICK n \in Nodes :
        \/ \E m \in Msgs : Send(n, m) \/ DrainInbox(n, m)
        \/ Push(n) \/ RecordOwnHead(n) \/ Sync(n)
        \/ JoinRoom(n) \/ LeaveRoom(n) \/ Seal(n) \/ Crash(n) \/ RebaseDies(n)
  BY DEF Next
<1>2. CASE UNCHANGED <<local, orig>>
  BY <1>2 DEF Kept
<1>3. ASSUME NEW h \in RoomHead,
             /\ local' = [local EXCEPT ![n] = h]
             /\ \/ UNCHANGED orig /\ local[n].posted \subseteq h.posted
                \/ orig' = [orig EXCEPT ![n] = NoHead] /\ Kept(n) \subseteq h.posted
                \/ /\ orig[n] = NoHead /\ orig' = [orig EXCEPT ![n] = local[n]]
                   /\ local[n].posted \subseteq h.posted
      PROVE  Kept(k) \subseteq Kept(k)'
  <2>1. CASE k # n
    <3>1. local'[k] = local[k] /\ orig'[k] = orig[k]
      BY <1>3, <2>1 DEF TypeOK
    <3> QED BY <3>1 DEF Kept
  <2>2. CASE k = n
    <3>1. local'[k] = h
      BY <1>3, <2>2 DEF TypeOK
    <3>2. CASE UNCHANGED orig /\ local[n].posted \subseteq h.posted
      BY <2>2, <3>1, <3>2 DEF Kept
    <3>3. CASE orig' = [orig EXCEPT ![n] = NoHead] /\ Kept(n) \subseteq h.posted
      <4>1. orig'[k] = NoHead
        BY <2>2, <3>3 DEF TypeOK
      <4> QED BY <2>2, <3>1, <3>3, <4>1 DEF Kept
    <3>4. CASE /\ orig[n] = NoHead /\ orig' = [orig EXCEPT ![n] = local[n]]
               /\ local[n].posted \subseteq h.posted
      <4>1. orig'[k] = local[k]
        BY <2>2, <3>4 DEF TypeOK
      <4> QED BY <2>2, <3>1, <3>4, <4>1 DEF Kept
    <3> QED BY <1>3, <3>2, <3>3, <3>4
  <2> QED BY <2>1, <2>2
<1> QED
  BY <1>1, <1>2, <1>3, LocalSteps

\* Only Send adds to the messages that count as sent.
LEMMA OnlySendSends ==
  ASSUME TypeOK, Next
  PROVE  \/ UNCHANGED history
         \/ \E m \in Msgs : Send(Author[m], m)
<1>1. ASSUME NEW n \in Nodes, NEW m \in Msgs, Send(n, m)
      PROVE  Send(Author[m], m)
  BY <1>1 DEF Send
<1>2. ASSUME NEW n \in Nodes, NEW m \in Msgs, DrainInbox(n, m)
      PROVE  UNCHANGED history
  BY <1>2 DEF DrainInbox
<1>3. ASSUME NEW n \in Nodes, Push(n)
      PROVE  UNCHANGED history
  BY <1>3 DEF Push, PushTried, PushAccepted, PushUnanswered, PushRejected, PushGivesUp,
     RebaseRefused
<1>4. ASSUME NEW n \in Nodes, Sync(n)
      PROVE  UNCHANGED history
  BY <1>4 DEF Sync, SyncStart, Refresh, Poll, Fetch, FetchRefused, SyncFails,
     SyncDone, Deliver
<1>5. ASSUME NEW n \in Nodes, Seal(n)
      PROVE  UNCHANGED history
  BY <1>5 DEF Seal, SealPrune, SealPruneUnanswered, SealPruneDies, SealRecord
<1>6. ASSUME NEW n \in Nodes,
             RecordOwnHead(n) \/ JoinRoom(n) \/ LeaveRoom(n) \/ Crash(n) \/ RebaseDies(n)
      PROVE  UNCHANGED history
  BY <1>6 DEF RecordOwnHead, JoinRoom, LeaveRoom, Crash, RebaseDies, Dies
<1> QED
  BY <1>1, <1>2, <1>3, <1>4, <1>5, <1>6 DEF Next

\* A message is kept from its commit on, unless it was committed on top of an unfinished rebase.
SentIsKept == \A m \in sent \ stray : m \in Kept(Author[m])

\* A committed message never leaves its author's branch, through any sequence of failed
\* pushes, deaths between two runs of git and inside a rebase, aborts, restores, seals,
\* leaves and joins.  What a send commits on top of an unfinished rebase is excepted.
THEOREM CommittedIsDurable == Spec => []SentIsDurable
<1>1. Init => SentIsKept
  BY DEF Init, SentIsKept
<1>2. TypeOK /\ SentIsKept /\ [Next]_vars => SentIsKept'
  <2> SUFFICES ASSUME TypeOK, SentIsKept, [Next]_vars, NEW q \in sent' \ stray'
               PROVE  q \in Kept(Author[q])'
    BY DEF SentIsKept
  <2>1. CASE UNCHANGED vars
    BY <2>1 DEF SentIsKept, Kept, vars
  <2>2. ASSUME Next, q \in sent \ stray
        PROVE  q \in Kept(Author[q])'
    <3>1. q \in Msgs /\ Author[q] \in Nodes /\ q \in Kept(Author[q])
      BY <2>2, DeliveryAssumption DEF SentIsKept, TypeOK
    <3>2. Kept(Author[q]) \subseteq Kept(Author[q])'
      BY <2>2, <3>1, KeptGrows
    <3> QED BY <3>1, <3>2
  <2>3. ASSUME NEW m \in Msgs, Send(Author[m], m), q \notin sent \ stray
        PROVE  q \in Kept(Author[q])'
    <3>1. orig[Author[m]] = NoHead /\ q = m
      BY <2>3 DEF Send
    <3>2. Author[m] \in Nodes /\ detached[Author[m]] = NoHead /\ orig'[Author[m]] = NoHead
      BY <2>3, <3>1, DeliveryAssumption DEF TypeOK, Send
    <3>3. PICK h \in {local[Author[m]], room} :
            /\ Materialise(Author[m], h)
            /\ local' = [local EXCEPT ![Author[m]] = With(h, {m})]
      BY <2>3, <3>2 DEF Send, CommitOnBranch, CommitOffBranch
    <3>4. h \in RoomHead /\ local'[Author[m]] = With(h, {m})
      BY <3>2, <3>3, Checkout DEF TypeOK
    <3>5. m \in local'[Author[m]].posted
      BY <3>4, HeadOps
    <3> QED BY <3>1, <3>2, <3>5 DEF Kept
  <2>4. CASE Next /\ UNCHANGED history
    BY <2>2, <2>4
  <2> QED
    BY <2>1, <2>2, <2>3, <2>4, OnlySendSends
<1>3. SentIsKept => SentIsDurable
  BY DEF SentIsKept, SentIsDurable, Kept
<1> QED
  BY <1>1, <1>2, <1>3, DeliveryTyped, PTL DEF Spec

-----------------------------------------------------------------------------
LEMMA RoomOnlyGrows ==
  ASSUME TypeOK, Next
  PROVE  Within(room, room')
<1>1. PICK n \in Nodes :
        \/ \E m \in Msgs : Send(n, m) \/ DrainInbox(n, m)
        \/ Push(n) \/ RecordOwnHead(n) \/ Sync(n)
        \/ JoinRoom(n) \/ LeaveRoom(n) \/ Seal(n) \/ Crash(n) \/ RebaseDies(n)
  BY DEF Next
<1>2. CASE PushAccepted(n) \/ PushUnanswered(n)
  BY <1>2 DEF PushAccepted, PushUnanswered, FastForwards
<1>3. ASSUME NEW S \in SUBSET Msgs, SealPrune(n, S) \/ SealPruneUnanswered(n, S)
      PROVE  Within(room, room')
  BY <1>3, PrunedOps DEF SealPrune, SealPruneUnanswered, Within
<1>4. CASE UNCHANGED room
  BY <1>4 DEF Within
<1>5. \/ UNCHANGED room \/ PushAccepted(n) \/ PushUnanswered(n)
      \/ \E S \in SUBSET Msgs : SealPrune(n, S) \/ SealPruneUnanswered(n, S)
  BY <1>1 DEF Push, PushTried, Sync, Seal, Send, DrainInbox, PushRejected,
     RebaseRefused, PushGivesUp, RecordOwnHead, SyncStart, Refresh, Poll, Fetch, FetchRefused,
     SyncFails, SyncDone, Deliver, JoinRoom, LeaveRoom, SealPruneDies, SealRecord, Crash,
     RebaseDies, Dies
<1> QED
  BY <1>2, <1>3, <1>4, <1>5

\* No push or seal ever takes anything away from the remote's room branch.
THEOREM RoomGrows == Spec => RoomAppendOnly
<1>1. TypeOK /\ [Next]_vars => [Within(room, room')]_vars
  BY RoomOnlyGrows
<1> QED
  BY <1>1, DeliveryTyped, PTL DEF Spec, RoomAppendOnly

-----------------------------------------------------------------------------
\* Who can be in which step: only writers send, only sealers seal.
Roles ==
  /\ \A n \in Nodes : pc[n] \in {"sending", "recording"} => n \in Writers
  /\ sealing \subseteq Sealers

LEMMA RolesAlways == Spec => []Roles
<1>1. Init => Roles
  BY DEF Init, Roles
<1>2. TypeOK /\ Roles /\ [Next]_vars => Roles'
  <2> SUFFICES ASSUME TypeOK, Roles, [Next]_vars
               PROVE  Roles'
    OBVIOUS
  <2>1. CASE UNCHANGED vars
    BY <2>1 DEF Roles, vars
  <2>2. ASSUME NEW n \in Nodes, NEW m \in Msgs, Send(n, m)
        PROVE  Roles'
    BY <2>2 DEF Send, Roles, Goto, TypeOK, Writers
  <2>3. ASSUME NEW n \in Nodes, PushAccepted(n) \/ RebaseRefused(n) \/ PushGivesUp(n)
        PROVE  Roles'
    BY <2>3 DEF PushAccepted, RebaseRefused, PushGivesUp, Pushing, Roles, Goto, TypeOK
  <2>4. ASSUME NEW n \in Nodes,
               \/ RecordOwnHead(n) \/ SyncStart(n) \/ Refresh(n) \/ Poll(n) \/ Fetch(n)
               \/ FetchRefused(n) \/ SyncFails(n) \/ SyncDone(n) \/ Crash(n) \/ RebaseDies(n)
        PROVE  Roles'
    <3>1. PICK step \in {"idle", "draining", "polling", "changed", "delivering"} :
            Goto(n, step)
      BY <2>4 DEF RecordOwnHead, SyncStart, Refresh, Poll, Fetch, FetchRefused, SyncFails,
         SyncDone, Crash, RebaseDies, Dies
    <3>2. sealing' \subseteq sealing
      BY <2>4 DEF RecordOwnHead, SyncStart, Refresh, Poll, Fetch, FetchRefused, SyncFails,
         SyncDone, Crash, RebaseDies, Dies
    <3> QED BY <3>1, <3>2 DEF Roles, Goto, TypeOK
  <2>5. ASSUME NEW n \in Nodes,
               \/ PushUnanswered(n) \/ PushRejected(n) \/ JoinRoom(n) \/ LeaveRoom(n)
               \/ SealRecord(n)
               \/ \E m \in Msgs : DrainInbox(n, m) \/ Deliver(n, m)
               \/ \E S \in SUBSET Msgs : SealPruneUnanswered(n, S) \/ SealPruneDies(n, S)
        PROVE  Roles'
    <3>1. UNCHANGED pc /\ sealing' \subseteq sealing
      BY <2>5 DEF PushUnanswered, PushRejected, JoinRoom, LeaveRoom, SealRecord, DrainInbox,
         Deliver, SealPruneUnanswered, SealPruneDies, Prunes
    <3> QED BY <3>1 DEF Roles
  <2>6. ASSUME NEW n \in Nodes, NEW S \in SUBSET Msgs, SealPrune(n, S)
        PROVE  Roles'
    BY <2>6 DEF SealPrune, Prunes, Roles
  <2> QED
    BY <2>1, <2>2, <2>3, <2>4, <2>5, <2>6 DEF Next, Push, PushTried, Sync, Seal
<1> QED
  BY <1>1, <1>2, DeliveryTyped, PTL DEF Spec

\* For a node that neither sends nor seals, the cursor is what the code says it
\* is: everything up to it that is for the node has been in its inbox.
THEOREM ReaderCursorIsHonest == Spec => []ReaderCursorIsProcessed
<1>1. Init => ReaderCursorIsProcessed
  BY DEF Init, ReaderCursorIsProcessed, Processed, Readers
<1>2. TypeOK /\ Roles /\ ReaderCursorIsProcessed /\ [Next]_vars => ReaderCursorIsProcessed'
  <2> SUFFICES ASSUME TypeOK, Roles, ReaderCursorIsProcessed, [Next]_vars,
                      NEW k \in Readers, NEW q \in Processed(k)', k \in AddressedTo[q]
               PROVE  inbox'[k][q] # "absent"
    BY DEF ReaderCursorIsProcessed
  <2>0. k \in Nodes /\ k \notin Writers /\ k \notin Sealers /\ q \in Msgs
    <3>1. cursor'[k] # NoHead /\ q \in Live(cursor'[k])
      BY DEF Processed
    <3>2. TypeOK'
      BY DeliveryStepTyped
    <3> QED BY <3>1, <3>2 DEF TypeOK, RoomHead, Live, Readers
  <2>1. CASE UNCHANGED <<cursor, inbox>>
    BY <2>1 DEF ReaderCursorIsProcessed, Processed, Live
  <2>2. ASSUME NEW n \in Nodes, NEW m \in Msgs, DrainInbox(n, m) \/ Deliver(n, m)
        PROVE  inbox'[k][q] # "absent"
    <3>1. q \in Processed(k)
      BY <2>2 DEF DrainInbox, Deliver, Processed, Live
    <3>2. inbox[k][q] # "absent"
      BY <3>1 DEF ReaderCursorIsProcessed
    <3> QED BY <2>0, <2>2, <3>2 DEF DrainInbox, Deliver, TypeOK
  <2>3. ASSUME NEW n \in Nodes, RecordOwnHead(n) \/ SealRecord(n)
        PROVE  inbox'[k][q] # "absent"
    <3>1. n # k
      BY <2>0, <2>3 DEF RecordOwnHead, SealRecord, Roles
    <3>2. q \in Processed(k) /\ UNCHANGED inbox
      BY <2>0, <2>3, <3>1 DEF RecordOwnHead, SealRecord, Processed, Live, TypeOK
    <3> QED BY <3>2 DEF ReaderCursorIsProcessed
  <2>4. ASSUME NEW n \in Nodes, SyncDone(n)
        PROVE  inbox'[k][q] # "absent"
    <3>1. CASE q \in Processed(k)
      BY <2>4, <3>1 DEF SyncDone, ReaderCursorIsProcessed
    <3>2. CASE q \notin Processed(k)
      <4>1. n = k
        BY <2>0, <2>4, <3>2 DEF SyncDone, Processed, Live, TypeOK
      <4>2. q \in Live(polled[k])
        BY <2>0, <2>4, <4>1 DEF SyncDone, Processed, Live, TypeOK
      <4>3. q \in New(k)
        BY <3>2, <4>2 DEF New
      <4> QED BY <2>4, <4>1, <4>3 DEF SyncDone
    <3> QED BY <3>1, <3>2
  <2>5. ASSUME NEW n \in Nodes, LeaveRoom(n)
        PROVE  inbox'[k][q] # "absent"
    <3>1. n # k
      BY <2>0, <2>5 DEF LeaveRoom, Processed, TypeOK
    <3>2. q \in Processed(k) /\ inbox'[k] = inbox[k]
      BY <2>0, <2>5, <3>1 DEF LeaveRoom, Processed, Live, TypeOK
    <3> QED BY <3>2 DEF ReaderCursorIsProcessed
  <2>6. Next => \/ UNCHANGED <<cursor, inbox>>
                \/ \E n \in Nodes, m \in Msgs : DrainInbox(n, m) \/ Deliver(n, m)
                \/ \E n \in Nodes : RecordOwnHead(n) \/ SealRecord(n) \/ SyncDone(n) \/ LeaveRoom(n)
    <3>1. ASSUME NEW n \in Nodes, Push(n)
          PROVE  UNCHANGED <<cursor, inbox>>
      BY <3>1 DEF Push, PushTried, PushAccepted, PushUnanswered, PushRejected, RebaseRefused,
         PushGivesUp
    <3>2. ASSUME NEW n \in Nodes, Sync(n)
          PROVE  UNCHANGED <<cursor, inbox>> \/ SyncDone(n) \/ \E m \in Msgs : Deliver(n, m)
      BY <3>2 DEF Sync, SyncStart, Refresh, Poll, Fetch, FetchRefused, SyncFails
    <3>3. ASSUME NEW n \in Nodes, Seal(n)
          PROVE  UNCHANGED <<cursor, inbox>> \/ SealRecord(n)
      BY <3>3 DEF Seal, SealPrune, SealPruneUnanswered, SealPruneDies
    <3>4. ASSUME NEW n \in Nodes,
                 JoinRoom(n) \/ Crash(n) \/ RebaseDies(n) \/ \E m \in Msgs : Send(n, m)
          PROVE  UNCHANGED <<cursor, inbox>>
      BY <3>4 DEF JoinRoom, Crash, RebaseDies, Dies, Send
    <3> QED BY <3>1, <3>2, <3>3, <3>4 DEF Next
  <2> QED
    BY <2>1, <2>2, <2>3, <2>4, <2>5, <2>6 DEF vars
<1> QED
  BY <1>1, <1>2, RolesAlways, DeliveryTyped, PTL DEF Spec

-----------------------------------------------------------------------------
\* What a sync saw in ls-remote is still there when it uses it.
PolledIsPosted == \A n \in Nodes : polled[n].posted \subseteq room.posted

LEMMA PolledIsPostedAlways == Spec => []PolledIsPosted
<1>1. Init => PolledIsPosted
  BY EmptyHead DEF Init, PolledIsPosted
<1>2. TypeOK /\ PolledIsPosted /\ [Next]_vars => PolledIsPosted'
  <2> SUFFICES ASSUME TypeOK, PolledIsPosted, [Next]_vars, NEW k \in Nodes
               PROVE  polled'[k].posted \subseteq room'.posted
    BY DEF PolledIsPosted
  <2>1. CASE UNCHANGED vars
    BY <2>1 DEF PolledIsPosted, vars
  <2>2. CASE Next
    <3>1. room.posted \subseteq room'.posted
      BY <2>2, RoomOnlyGrows DEF Within
    <3>2. ASSUME NEW n \in Nodes,
                 \/ Poll(n) \/ FetchRefused(n) \/ SyncFails(n) \/ SyncDone(n)
                 \/ Crash(n) \/ RebaseDies(n)
          PROVE  polled'[k].posted \subseteq room'.posted
      <4>1. polled'[k] \in {polled[k], room, Empty}
        BY <3>2 DEF Poll, FetchRefused, SyncFails, SyncDone, Crash, RebaseDies, Dies, Forget,
           TypeOK
      <4> QED BY <3>1, <4>1, EmptyHead DEF PolledIsPosted
    <3>3. CASE UNCHANGED polled
      BY <3>1, <3>3 DEF PolledIsPosted
    <3>4. \/ UNCHANGED polled
          \/ \E n \in Nodes :
               \/ Poll(n) \/ FetchRefused(n) \/ SyncFails(n) \/ SyncDone(n)
               \/ Crash(n) \/ RebaseDies(n)
      <4>1. ASSUME NEW n \in Nodes, Push(n) \/ Seal(n)
            PROVE  UNCHANGED polled
        <5>1. CASE Push(n)
          BY <5>1 DEF Push, PushTried, PushAccepted, PushUnanswered, PushRejected,
             RebaseRefused, PushGivesUp
        <5>2. CASE Seal(n)
          BY <5>2 DEF Seal, SealPrune, SealPruneUnanswered, SealPruneDies, SealRecord
        <5> QED BY <4>1, <5>1, <5>2
      <4>2. ASSUME NEW n \in Nodes, Sync(n)
            PROVE  \/ UNCHANGED polled \/ Poll(n) \/ FetchRefused(n) \/ SyncFails(n)
                   \/ SyncDone(n)
        BY <4>2 DEF Sync, SyncStart, Refresh, Fetch, Deliver
      <4>3. ASSUME NEW n \in Nodes, RecordOwnHead(n) \/ JoinRoom(n) \/ LeaveRoom(n)
            PROVE  UNCHANGED polled
        BY <4>3 DEF RecordOwnHead, JoinRoom, LeaveRoom
      <4>4. ASSUME NEW n \in Nodes, NEW m \in Msgs, Send(n, m) \/ DrainInbox(n, m)
            PROVE  UNCHANGED polled
        BY <4>4 DEF Send, DrainInbox
      <4> QED BY <2>2, <4>1, <4>2, <4>3, <4>4 DEF Next
    <3> QED BY <3>2, <3>3, <3>4
  <2> QED
    BY <2>1, <2>2
<1> QED
  BY <1>1, <1>2, DeliveryTyped, PTL DEF Spec

\* The room, its outboxes, cursors, crashes and seals implement the mailbox.
THEOREM RoomImplementsMailbox == Spec => ImplementsMailbox
<1>1. Init => Mail!Init
  BY EmptyHead DEF Init, Mail!Init
<1>2. TypeOK /\ PolledIsPosted /\ [Next]_vars => [Mail!Next]_Mail!mailVars
  <2> SUFFICES ASSUME TypeOK, PolledIsPosted, [Next]_vars
               PROVE  Mail!Next \/ UNCHANGED <<room.posted, inbox>>
    BY DEF Mail!mailVars
  <2>1. CASE UNCHANGED vars
    BY <2>1 DEF vars
  <2>2. ASSUME NEW n \in Nodes, NEW m \in Msgs, Deliver(n, m)
        PROVE  Mail!Next
    <3>1. m \in room.posted /\ n \in AddressedTo[m]
      BY <2>2 DEF Deliver, New, Live, PolledIsPosted
    <3>2. Mail!Deliver(n, m)
      BY <2>2, <3>1 DEF Deliver, Mail!Deliver, Mail!Move
    <3> QED BY <3>2 DEF Mail!Next
  <2>3. ASSUME NEW n \in Nodes, NEW m \in Msgs, DrainInbox(n, m)
        PROVE  Mail!Next
    <3>1. Mail!Finish(n, m)
      BY <2>3 DEF DrainInbox, Mail!Finish, Mail!Move
    <3> QED BY <3>1 DEF Mail!Next
  <2>4. ASSUME NEW n \in Nodes, LeaveRoom(n)
        PROVE  Mail!Next
    <3>1. Mail!GiveUpRoom(n)
      BY <2>4 DEF LeaveRoom, Mail!GiveUpRoom
    <3> QED BY <3>1 DEF Mail!Next
  <2>5. CASE Next /\ UNCHANGED inbox
    <3>1. TypeOK'
      BY DeliveryStepTyped
    <3>2. room.posted \subseteq room'.posted /\ room'.posted \in SUBSET Msgs
      BY <2>5, <3>1, RoomOnlyGrows DEF Within, TypeOK, RoomHead
    <3>3. room'.posted = room.posted \cup room'.posted
      BY <3>2
    <3>4. Mail!Publish
      BY <2>5, <3>2, <3>3 DEF Mail!Publish
    <3> QED BY <3>4 DEF Mail!Next
  <2>6. Next => \/ UNCHANGED inbox
                \/ \E n \in Nodes, m \in Msgs : Deliver(n, m) \/ DrainInbox(n, m)
                \/ \E n \in Nodes : LeaveRoom(n)
    <3>1. ASSUME NEW n \in Nodes, Push(n)
          PROVE  UNCHANGED inbox
      BY <3>1 DEF Push, PushTried, PushAccepted, PushUnanswered, PushRejected, RebaseRefused,
         PushGivesUp
    <3>2. ASSUME NEW n \in Nodes, Sync(n)
          PROVE  UNCHANGED inbox \/ \E m \in Msgs : Deliver(n, m)
      BY <3>2 DEF Sync, SyncStart, Refresh, Poll, Fetch, FetchRefused, SyncFails, SyncDone
    <3>3. ASSUME NEW n \in Nodes, Seal(n)
          PROVE  UNCHANGED inbox
      BY <3>3 DEF Seal, SealPrune, SealPruneUnanswered, SealPruneDies, SealRecord
    <3>4. ASSUME NEW n \in Nodes, RecordOwnHead(n) \/ JoinRoom(n) \/ Crash(n) \/ RebaseDies(n)
          PROVE  UNCHANGED inbox
      BY <3>4 DEF RecordOwnHead, JoinRoom, Crash, RebaseDies, Dies
    <3>5. ASSUME NEW n \in Nodes, NEW m \in Msgs, Send(n, m)
          PROVE  UNCHANGED inbox
      BY <3>5 DEF Send
    <3> QED BY <3>1, <3>2, <3>3, <3>4, <3>5 DEF Next
  <2> QED
    BY <2>1, <2>2, <2>3, <2>4, <2>5, <2>6
<1> QED
  BY <1>1, <1>2, PolledIsPostedAlways, DeliveryTyped, PTL DEF Spec, ImplementsMailbox, Mail!Spec
=============================================================================
