------------------------------ MODULE SealProofs ------------------------------
(***************************************************************************)
(* Sealing for any number of nodes, messages, tokens, crashes and lost     *)
(* answers, and for leases that run out whenever they like: what is pruned *)
(* is on main, no message is summarised twice, and no seal takes another's *)
(* lock away.  If leases outlast the holders that live, a plan in the room *)
(* can always be carried out.                                              *)
(*                                                                         *)
(* Nodes write to the room without looking at the lock, so the invariants  *)
(* say what the node that does hold it (the leader) can rely on.           *)
(***************************************************************************)
EXTENDS SealProtocol, TLAPS

\* What overflows the window is in the room.
LEMMA OverWindowLives ==
  ASSUME NEW h \in Rooms
  PROVE  OverWindow(h) \in SUBSET Live(h) /\ Live(h) \in SUBSET Msgs
BY DEF OverWindow, Live, Rooms

\* Typing is preserved.
LEMMA SealStepTyped ==
  ASSUME TypeOK, [Next]_vars
  PROVE  TypeOK'
<1> USE SealAssumption DEF TypeOK, Rooms, Plans, NoPlan, Steps
<1>1. CASE UNCHANGED vars
  BY <1>1 DEF vars, local
<1>2. ASSUME NEW m \in Msgs, Post(m)
      PROVE  TypeOK'
  BY <1>2 DEF Post, local
<1>3. ASSUME NEW t \in Tokens, Expire(t)
      PROVE  TypeOK'
  BY <1>3 DEF Expire, local
<1>4. ASSUME NEW n \in Nodes,
             \/ Sync(n) \/ Start(n) \/ Acquire(n) \/ Prepare(n) \/ Work(n)
             \/ PruneUnanswered(n) \/ Throws(n) \/ Dies(n) \/ SwitchedOff(n)
      PROVE  TypeOK'
  <2>1. CASE Sync(n)
    BY <2>1 DEF Sync, Goto, local
  <2>2. CASE Start(n)
    BY <2>2 DEF Start, Goto, local
  <2>3. CASE AcquireFetch(n)
    BY <2>3 DEF AcquireFetch, Goto, local
  <2>4. CASE ClaimResumes(n)
    BY <2>4 DEF ClaimResumes, Goto, local
  <2>5. CASE ClaimBusy(n)
    BY <2>5 DEF ClaimBusy, Goto, local
  <2>6. CASE ClaimWins(n)
    BY <2>6 DEF ClaimWins, Goto, local, NewToken, FreshTokens
  <2>7. CASE ClaimLoses(n)
    BY <2>7 DEF ClaimLoses, Goto, local
  <2>8. CASE ResumePlan(n)
    BY <2>8 DEF ResumePlan, Goto, local
  <2>9. CASE NoPlanNeeded(n)
    BY <2>9 DEF NoPlanNeeded, Goto, local
  <2>10. CASE CommitPlan(n)
    <3> DEFINE over == OverWindow(view[n])
    <3>1. over \in SUBSET Msgs
      BY OverWindowLives DEF Live
    <3>2. /\ room' = [room EXCEPT !.plan = over] /\ view' = [view EXCEPT ![n] = room']
          /\ plan' = [plan EXCEPT ![n] = over] /\ pc' = [pc EXCEPT ![n] = "renewPlan"]
          /\ UNCHANGED <<main, held, clear, expired, failures>>
      BY <2>10 DEF CommitPlan, Goto
    <3> HIDE DEF over
    <3>3. room' \in Rooms
      BY <3>1, <3>2
    <3>4. view' \in [Nodes -> Rooms] /\ plan' \in [Nodes -> Plans]
      BY <3>1, <3>2, <3>3
    <3> QED BY <3>2, <3>3, <3>4
  <2>11. CASE PlanConflicts(n)
    BY <2>11 DEF PlanConflicts, Goto, local
  <2>12. CASE Recover(n)
    BY <2>12 DEF Recover, Goto, local
  <2>13. CASE Renew(n)
    BY <2>13 DEF Renew, Goto, local
  <2>14. CASE RenewFindsLost(n)
    BY <2>14 DEF RenewFindsLost, Goto, local
  <2>15. CASE Fetch(n)
    <3>1. [view[n] EXCEPT !.lock = room.lock] \in Rooms
      OBVIOUS
    <3>2. view' = [view EXCEPT ![n] = [view[n] EXCEPT !.lock = room.lock]]
      BY <2>15 DEF Fetch
    <3>3. view' \in [Nodes -> Rooms]
      BY <3>1, <3>2
    <3> QED BY <2>15, <3>3 DEF Fetch, Goto, local
  <2>16. CASE PushMain(n)
    BY <2>16 DEF PushMain, Goto, local, RecordDigest
  <2>17. CASE StaleHolderStops(n)
    BY <2>17 DEF StaleHolderStops, Goto, local
  <2>18. CASE Prune(n)
    BY <2>18 DEF Prune, Goto, local, Forget, Fails
  <2>19. CASE Release(n)
    BY <2>19 DEF Release, Goto, local, Forget, Fails
  <2>20. CASE ReleaseSkips(n)
    BY <2>20 DEF ReleaseSkips, Goto, local, Forget, Fails
  <2>21. CASE PruneUnanswered(n)
    <3>1. room' \in Rooms
      BY <2>21 DEF PruneUnanswered
    <3>2. failures' \in Nat
      BY <2>21 DEF PruneUnanswered, Fails
    <3> QED BY <2>21, <3>1, <3>2 DEF PruneUnanswered, Goto, local
  <2>22. CASE Throws(n)
    BY <2>22 DEF Throws, Goto, local, Forget, Fails
  <2>23. CASE Dies(n)
    BY <2>23 DEF Dies, Goto, local, Forget, Fails
  <2>24. CASE SwitchedOff(n)
    BY <2>24 DEF SwitchedOff, Goto, local, Forget, Fails
  <2> QED
    BY <1>4, <2>1, <2>2, <2>3, <2>4, <2>5, <2>6, <2>7, <2>8, <2>9, <2>10, <2>11, <2>12, <2>13,
       <2>14, <2>15, <2>16, <2>17, <2>18, <2>19, <2>20, <2>21, <2>22, <2>23, <2>24
            DEF Acquire, Prepare, Work
<1> QED
  BY <1>1, <1>2, <1>3, <1>4 DEF Next

\* What a clone shows of a room was there, and every plan is about messages of the room.
ViewsAreHistory ==
  /\ room.plan \subseteq room.posted
  /\ \A n \in Nodes :
       /\ view[n].posted \subseteq room.posted /\ view[n].pruned \subseteq room.pruned
       /\ view[n].plan \subseteq view[n].posted

\* Where a seal is at work on its plan.
Working == {"renewPlan", "fetch", "main", "renewPrune", "prune"}

\* A seal at work has a plan, of messages that its clone has; past its push of main the
\* digest is there, and a seal that is complete has pruned.
PlansAreSound ==
  /\ \A S \in main.digests : S \subseteq main.archived
  /\ \A n \in Nodes :
       /\ pc[n] \in Working => plan[n] # NoPlan /\ plan[n] \subseteq view[n].posted
       /\ pc[n] \in {"renewPrune", "prune"} => plan[n] \in main.digests
       /\ pc[n] = "recover" => plan[n] # NoPlan /\ plan[n] \subseteq room.pruned
       /\ clear[n] => pc[n] = "release" /\ plan[n] # NoPlan /\ plan[n] \subseteq room.pruned

\* What holds whoever holds the lock.
HistoryInv == TypeOK /\ ViewsAreHistory /\ PlansAreSound /\ PrunedIsRecorded

\* A digest is pushed before the prune of what it is of, and clones only show what was there.
LEMMA RecordStays ==
  ASSUME HistoryInv, TypeOK', [Next]_vars
  PROVE  HistoryInv'
<1> USE SealAssumption
    DEF TypeOK, Rooms, Plans, NoPlan, HistoryInv, ViewsAreHistory, PlansAreSound, PrunedIsRecorded,
    Working
<1>1. CASE UNCHANGED vars
  BY <1>1 DEF vars, local
<1>2. ASSUME NEW m \in Msgs, Post(m)
      PROVE  HistoryInv'
  <2>1. /\ room'.posted = room.posted \cup {m}
        /\ room'.plan = room.plan /\ room'.pruned = room.pruned
        /\ UNCHANGED <<main, view, plan, pc, clear>>
    BY <1>2 DEF Post, local
  <2>2. ViewsAreHistory'
    BY <2>1
  <2>3. PlansAreSound' /\ PrunedIsRecorded'
    BY <2>1
  <2> QED BY <2>2, <2>3
<1>3. ASSUME NEW t \in Tokens, Expire(t)
      PROVE  HistoryInv'
  BY <1>3 DEF Expire, local
<1>4. ASSUME NEW n \in Nodes,
             \/ Sync(n) \/ Start(n) \/ Acquire(n) \/ Prepare(n) \/ Work(n)
             \/ PruneUnanswered(n) \/ Throws(n) \/ Dies(n) \/ SwitchedOff(n)
      PROVE  HistoryInv'
  <2>1. CASE Sync(n)
    BY <2>1 DEF Sync, Goto, local
  <2>2. CASE Start(n)
    BY <2>2 DEF Start, Goto, local
  <2>3. CASE AcquireFetch(n)
    BY <2>3 DEF AcquireFetch, Goto, local
  <2>4. CASE ClaimResumes(n)
    BY <2>4 DEF ClaimResumes, Goto, local
  <2>5. CASE ClaimBusy(n)
    BY <2>5 DEF ClaimBusy, Goto, local
  <2>6. CASE ClaimWins(n)
    BY <2>6 DEF ClaimWins, Goto, local, NewToken, FreshTokens, Swappable
  <2>7. CASE ClaimLoses(n)
    BY <2>7 DEF ClaimLoses, Goto, local
  <2>8. CASE ResumePlan(n)
    BY <2>8 DEF ResumePlan, Goto, local, Ambiguous, Gone, Whole, Live
  <2>9. CASE NoPlanNeeded(n)
    BY <2>9 DEF NoPlanNeeded, Goto, local
  <2>10. CASE CommitPlan(n)
    <3> DEFINE over == OverWindow(view[n])
    <3>1. over \subseteq view[n].posted /\ over # {}
      BY <2>10, OverWindowLives DEF CommitPlan, Live
    <3>2. /\ room' = [room EXCEPT !.plan = over] /\ view' = [view EXCEPT ![n] = room']
          /\ plan' = [plan EXCEPT ![n] = over] /\ pc' = [pc EXCEPT ![n] = "renewPlan"]
          /\ pc[n] = "plan" /\ UNCHANGED <<main, clear>>
      BY <2>10 DEF CommitPlan, Goto
    <3> HIDE DEF over
    <3>3. over \subseteq room.posted
      BY <3>1
    <3>4. ViewsAreHistory' /\ PrunedIsRecorded'
      BY <3>2, <3>3
    <3>5. PlansAreSound'
      BY <3>1, <3>2, <3>3
    <3> QED BY <3>4, <3>5
  <2>11. CASE PlanConflicts(n)
    BY <2>11 DEF PlanConflicts, Goto, local
  <2>12. CASE Recover(n)
    BY <2>12 DEF Recover, Goto, local
  <2>13. CASE Renew(n)
    BY <2>13 DEF Renew, Goto, local
  <2>14. CASE RenewFindsLost(n)
    BY <2>14 DEF RenewFindsLost, Goto, local
  <2>15. CASE Fetch(n)
    BY <2>15 DEF Fetch, Goto, local
  <2>16. CASE PushMain(n)
    BY <2>16 DEF PushMain, Goto, local, RecordDigest
  <2>17. CASE StaleHolderStops(n)
    BY <2>17 DEF StaleHolderStops, Goto, local
  <2>18. CASE Prune(n)
    BY <2>18 DEF Prune, Goto, local, Forget, Fails
  <2>19. CASE Release(n)
    BY <2>19 DEF Release, Goto, local, Forget, Fails
  <2>20. CASE ReleaseSkips(n)
    BY <2>20 DEF ReleaseSkips, Goto, local, Forget, Fails
  <2>21. CASE PruneUnanswered(n)
    BY <2>21 DEF PruneUnanswered, Goto, local, Forget, Fails
  <2>22. CASE Throws(n)
    BY <2>22 DEF Throws, Goto, local, Forget, Fails
  <2>23. CASE Dies(n)
    BY <2>23 DEF Dies, Goto, local, Forget, Fails
  <2>24. CASE SwitchedOff(n)
    BY <2>24 DEF SwitchedOff, Goto, local, Forget, Fails
  <2> QED
    BY <1>4, <2>1, <2>2, <2>3, <2>4, <2>5, <2>6, <2>7, <2>8, <2>9, <2>10, <2>11, <2>12, <2>13,
       <2>14, <2>15, <2>16, <2>17, <2>18, <2>19, <2>20, <2>21, <2>22, <2>23, <2>24
            DEF Acquire, Prepare, Work
<1> QED
  BY <1>1, <1>2, <1>3, <1>4 DEF Next

-----------------------------------------------------------------------------
\* The lock of the room is a token of n.
Leads(n) == room.lock \in Tokens /\ Holder[room.lock] = n

\* A token that has not expired excludes: whoever holds it, or has it in its clone, leads.  And a
\* leader's clone shows its lock.
TokensExclude ==
  \A n \in Nodes :
    /\ held[n] \in Tokens => Holder[held[n]] = n
    /\ pc[n] \in Working \cup {"plan", "recover", "release"} => held[n] \in Tokens
    /\ held[n] \in Tokens \ expired => room.lock = held[n]
    /\ view[n].lock \in Tokens \ expired /\ Holder[view[n].lock] = n => room.lock = view[n].lock
    /\ Leads(n) => view[n].lock = room.lock

\* A digest is of messages that are pruned, or of the plan in the room.
DigestsAreDone == \A S \in main.digests : S \subseteq room.pruned \/ S = room.plan

\* Nobody but the leader records a digest or removes the plan; so the leader's clone is up to
\* date in both, and what it works on is the plan in the room, apart from all other digests.
LeaderKnows ==
  \A n \in Nodes : Leads(n) =>
    /\ view[n].plan # NoPlan => view[n].plan = room.plan
    /\ \A S \in main.digests : S \subseteq view[n].pruned \/ S = view[n].plan
    /\ held[n] = room.lock =>
         /\ pc[n] \in Working \cup {"recover"} => plan[n] = view[n].plan
         /\ clear[n] => plan[n] = view[n].plan
         /\ pc[n] \in Working => \A S \in main.digests : S # plan[n] => S \cap plan[n] = {}

\* The inductive invariant for leases that run out whenever they like.
SealInv == HistoryInv /\ TokensExclude /\ DigestsAreDone /\ LeaderKnows /\ SealedOnce

\* The token of a claim is its node's own, and neither the room nor a clone nor a seal has it.
LEMMA NewTokenIsFresh ==
  ASSUME NEW n \in Nodes, ClaimWins(n)
  PROVE  NewToken(n) \in Tokens /\ Holder[NewToken(n)] = n /\ Fresh(NewToken(n))
<1>1. NewToken(n) \in FreshTokens(n)
  BY DEF ClaimWins, NewToken
<1> QED
  BY <1>1 DEF FreshTokens

\* A claim compares and swaps the lock that its clone shows, with a token nobody has had.
LEMMA TokensStay ==
  ASSUME TypeOK, TokensExclude, [Next]_vars
  PROVE  TokensExclude'
<1> USE SealAssumption DEF TypeOK, Rooms, Plans, NoPlan, TokensExclude, Leads, Working
<1>1. CASE UNCHANGED vars
  BY <1>1 DEF vars, local
<1>2. ASSUME NEW m \in Msgs, Post(m)
      PROVE  TokensExclude'
  BY <1>2 DEF Post, local
<1>3. ASSUME NEW t \in Tokens, Expire(t)
      PROVE  TokensExclude'
  BY <1>3 DEF Expire, local
<1>4. ASSUME NEW n \in Nodes,
             \/ Sync(n) \/ Start(n) \/ Acquire(n) \/ Prepare(n) \/ Work(n)
             \/ PruneUnanswered(n) \/ Throws(n) \/ Dies(n) \/ SwitchedOff(n)
      PROVE  TokensExclude'
  <2>1. CASE Sync(n)
    BY <2>1 DEF Sync, Goto, local
  <2>2. CASE Start(n)
    BY <2>2 DEF Start, Goto, local
  <2>3. CASE AcquireFetch(n)
    BY <2>3 DEF AcquireFetch, Goto, local
  <2>4. CASE ClaimResumes(n)
    BY <2>4 DEF ClaimResumes, Goto, local, Unexpired
  <2>5. CASE ClaimBusy(n)
    BY <2>5 DEF ClaimBusy, Goto, local
  <2>6. CASE ClaimWins(n)
    <3> DEFINE t == NewToken(n)
    <3>1. t \in Tokens /\ Holder[t] = n /\ Fresh(t)
      BY <2>6, NewTokenIsFresh
    <3>2. /\ room = view[n] /\ (view[n].lock \in Tokens => view[n].lock \in expired)
          /\ room' = [view[n] EXCEPT !.lock = t] /\ view' = [view EXCEPT ![n] = room']
          /\ held' = [held EXCEPT ![n] = t] /\ expired' = expired \ {t}
          /\ pc' = [pc EXCEPT ![n] = "plan"]
      BY <2>6 DEF ClaimWins, Goto, Swappable, Unexpired
    <3> HIDE DEF t
    <3> QED BY <3>1, <3>2 DEF Fresh
  <2>7. CASE ClaimLoses(n)
    BY <2>7 DEF ClaimLoses, Goto, local
  <2>8. CASE ResumePlan(n)
    BY <2>8 DEF ResumePlan, Goto, local
  <2>9. CASE NoPlanNeeded(n)
    BY <2>9 DEF NoPlanNeeded, Goto, local
  <2>10. CASE CommitPlan(n)
    BY <2>10 DEF CommitPlan, Goto, local
  <2>11. CASE PlanConflicts(n)
    BY <2>11 DEF PlanConflicts, Goto, local
  <2>12. CASE Recover(n)
    BY <2>12 DEF Recover, Goto, local
  <2>13. CASE Renew(n)
    BY <2>13 DEF Renew, Goto, local, Owns
  <2>14. CASE RenewFindsLost(n)
    BY <2>14 DEF RenewFindsLost, Goto, local
  <2>15. CASE Fetch(n)
    BY <2>15 DEF Fetch, Goto, local
  <2>16. CASE PushMain(n)
    BY <2>16 DEF PushMain, Goto, local
  <2>17. CASE StaleHolderStops(n)
    BY <2>17 DEF StaleHolderStops, Goto, local
  <2>18. CASE Prune(n)
    BY <2>18 DEF Prune, Goto, local, Forget, Fails
  <2>19. CASE Release(n)
    BY <2>19 DEF Release, Goto, local, Forget, Fails, Owns
  <2>20. CASE ReleaseSkips(n)
    BY <2>20 DEF ReleaseSkips, Goto, local, Forget, Fails
  <2>21. CASE PruneUnanswered(n)
    BY <2>21 DEF PruneUnanswered, Goto, local, Forget, Fails
  <2>22. CASE Throws(n)
    BY <2>22 DEF Throws, Goto, local, Forget, Fails
  <2>23. CASE Dies(n)
    BY <2>23 DEF Dies, Goto, local, Forget, Fails
  <2>24. CASE SwitchedOff(n)
    BY <2>24 DEF SwitchedOff, Goto, local, Forget, Fails
  <2> QED
    BY <1>4, <2>1, <2>2, <2>3, <2>4, <2>5, <2>6, <2>7, <2>8, <2>9, <2>10, <2>11, <2>12, <2>13,
       <2>14, <2>15, <2>16, <2>17, <2>18, <2>19, <2>20, <2>21, <2>22, <2>23, <2>24
            DEF Acquire, Prepare, Work
<1> QED
  BY <1>1, <1>2, <1>3, <1>4 DEF Next

\* A plan that the leader finds whole shares no message with the digests of others.
LEMMA ResumedIsApart ==
  ASSUME LeaderKnows, NEW n \in Nodes, Leads(n), view[n].plan # NoPlan,
         ~Ambiguous(view[n]), ~Gone(view[n], view[n].plan),
         NEW S \in main.digests, S # view[n].plan
  PROVE  S \cap view[n].plan = {}
<1>1. S \subseteq view[n].pruned
  BY DEF LeaderKnows
<1>2. view[n].plan \cap view[n].pruned = {}
  BY DEF Ambiguous, Whole, Live
<1> QED
  BY <1>1, <1>2

\* The others change the room by pushing what they have planned and by prunes, and neither
\* touches what the leader is at.
LEMMA LeadersStay ==
  ASSUME SealInv, [Next]_vars
  PROVE  DigestsAreDone' /\ LeaderKnows' /\ SealedOnce'
<1> USE SealAssumption
    DEF TypeOK, Rooms, Plans, NoPlan, SealInv, HistoryInv, ViewsAreHistory, PlansAreSound,
    TokensExclude, DigestsAreDone, LeaderKnows, Leads, Working, SealedOnce
<1>1. CASE UNCHANGED vars
  BY <1>1 DEF vars, local
<1>2. ASSUME NEW m \in Msgs, Post(m)
      PROVE  DigestsAreDone' /\ LeaderKnows' /\ SealedOnce'
  BY <1>2 DEF Post, local
<1>3. ASSUME NEW t \in Tokens, Expire(t)
      PROVE  DigestsAreDone' /\ LeaderKnows' /\ SealedOnce'
  BY <1>3 DEF Expire, local
<1>4. ASSUME NEW n \in Nodes,
             \/ Sync(n) \/ Start(n) \/ Acquire(n) \/ Prepare(n) \/ Work(n)
             \/ PruneUnanswered(n) \/ Throws(n) \/ Dies(n) \/ SwitchedOff(n)
      PROVE  DigestsAreDone' /\ LeaderKnows' /\ SealedOnce'
  <2>1. CASE Sync(n)
    BY <2>1 DEF Sync, Goto, local
  <2>2. CASE Start(n)
    BY <2>2 DEF Start, Goto, local
  <2>3. CASE AcquireFetch(n)
    BY <2>3 DEF AcquireFetch, Goto, local
  <2>4. CASE ClaimResumes(n)
    BY <2>4 DEF ClaimResumes, Goto, local, Unexpired
  <2>5. CASE ClaimBusy(n)
    BY <2>5 DEF ClaimBusy, Goto, local
  <2>6. CASE ClaimWins(n)
    <3>1. DigestsAreDone' /\ SealedOnce'
      BY <2>6 DEF ClaimWins, Swappable
    <3>2. LeaderKnows'
      <4> DEFINE t == NewToken(n)
      <4>1. t \in Tokens /\ Holder[t] = n /\ Fresh(t)
        BY <2>6, NewTokenIsFresh
      <4>2. /\ room = view[n]
            /\ room' = [view[n] EXCEPT !.lock = t] /\ view' = [view EXCEPT ![n] = room']
            /\ held' = [held EXCEPT ![n] = t] /\ pc' = [pc EXCEPT ![n] = "plan"]
            /\ pc[n] = "claim" /\ UNCHANGED <<main, plan, clear>>
        BY <2>6 DEF ClaimWins, Goto, local, Swappable
      <4> HIDE DEF t
      <4>3. /\ \A k \in Nodes : Leads(k)' => k = n
            /\ view'[n].plan = room'.plan /\ view'[n].pruned = room.pruned
            /\ view'[n].plan = room.plan
        BY <4>1, <4>2
      <4>4. pc'[n] \notin Working \cup {"recover"} /\ ~clear'[n]
        BY <4>2
      <4> QED BY <4>2, <4>3, <4>4
    <3> QED BY <3>1, <3>2
  <2>7. CASE ClaimLoses(n)
    BY <2>7 DEF ClaimLoses, Goto, local
  <2>8. CASE ResumePlan(n)
    <3>1. Gone(view[n], view[n].plan) => pc'[n] = "recover"
      BY <2>8 DEF ResumePlan, Goto
    <3>2. Leads(n) /\ ~Gone(view[n], view[n].plan) =>
            \A S \in main.digests : S # view[n].plan => S \cap view[n].plan = {}
      BY <2>8, ResumedIsApart DEF ResumePlan
    <3>3. Leads(n) /\ pc'[n] \in Working =>
            \A S \in main.digests : S # view[n].plan => S \cap view[n].plan = {}
      BY <3>1, <3>2
    <3> QED BY <2>8, <3>3 DEF ResumePlan, Goto
  <2>9. CASE NoPlanNeeded(n)
    BY <2>9 DEF NoPlanNeeded, Goto, local
  <2>10. CASE CommitPlan(n)
    <3> DEFINE new == OverWindow(view[n])
    <3>1. new \in SUBSET Msgs /\ new \cap view[n].pruned = {}
      BY OverWindowLives DEF Live
    <3>2. Leads(n) => \A S \in main.digests : S \cap new = {}
      BY <2>10, <3>1 DEF CommitPlan
    <3>3. /\ new # {} /\ view[n].plan = {} /\ room.plan = {} /\ pc[n] = "plan"
          /\ room' = [room EXCEPT !.plan = new] /\ view' = [view EXCEPT ![n] = room']
          /\ plan' = [plan EXCEPT ![n] = new] /\ pc' = [pc EXCEPT ![n] = "renewPlan"]
          /\ UNCHANGED <<main, held, clear, expired>>
      BY <2>10 DEF CommitPlan, Goto
    <3> HIDE DEF new
    <3>4. room'.lock = room.lock /\ room'.pruned = room.pruned /\ room'.plan = new
      BY <3>1, <3>3
    <3>5. \A S \in main.digests : S \subseteq room.pruned
      BY <3>3
    <3>7. DigestsAreDone' /\ SealedOnce'
      <4>1. DigestsAreDone'
        BY <3>3, <3>4, <3>5
      <4>2. SealedOnce'
        BY <3>3
      <4> QED BY <4>1, <4>2
    <3>6. LeaderKnows'
      <4> SUFFICES ASSUME NEW k \in Nodes, Leads(k)'
                   PROVE  /\ view'[k].plan # NoPlan => view'[k].plan = new
                          /\ \A S \in main.digests :
                                S \subseteq view'[k].pruned \/ S = view'[k].plan
                          /\ held[k] = room.lock =>
                               /\ pc'[k] \in Working \cup {"recover"} => plan'[k] = view'[k].plan
                               /\ clear[k] => plan'[k] = view'[k].plan
                               /\ pc'[k] \in Working =>
                                    \A S \in main.digests : S # plan'[k] => S \cap plan'[k] = {}
        BY <3>3, <3>4
      <4>1. CASE k = n
        <5>1. view'[n].plan = new /\ view'[n].pruned = room.pruned /\ plan'[n] = new
          BY <3>3, <3>4
        <5>2. ~clear[n] /\ held[n] \in Tokens
          BY <3>3
        <5>3. held[n] = room.lock => Leads(n)
          BY <5>2
        <5> QED BY <3>2, <3>5, <4>1, <5>1, <5>2, <5>3
      <4>2. CASE k # n
        <5>1. /\ view'[k] = view[k] /\ plan'[k] = plan[k] /\ pc'[k] = pc[k]
              /\ Leads(k)
          BY <3>3, <3>4, <4>2
        <5> QED BY <3>3, <5>1
      <4> QED BY <4>1, <4>2
    <3> QED BY <3>6, <3>7
  <2>11. CASE PlanConflicts(n)
    BY <2>11 DEF PlanConflicts, Goto, local
  <2>12. CASE Recover(n)
    BY <2>12 DEF Recover, Goto, local
  <2>13. CASE Renew(n)
    BY <2>13 DEF Renew, Goto, local, Owns
  <2>14. CASE RenewFindsLost(n)
    BY <2>14 DEF RenewFindsLost, Goto, local, Owns
  <2>15. CASE Fetch(n)
    <3>1. /\ view'[n].plan = view[n].plan /\ view'[n].pruned = view[n].pruned
          /\ view'[n].lock = room.lock
          /\ \A k \in Nodes \ {n} : view'[k] = view[k]
      BY <2>15 DEF Fetch
    <3>2. /\ pc[n] = "fetch" /\ pc' = [pc EXCEPT ![n] = "main"]
          /\ UNCHANGED <<room, main, held, plan, clear, expired>>
      BY <2>15 DEF Fetch, Goto, local
    <3>3. DigestsAreDone' /\ SealedOnce'
      BY <3>2
    <3>4. ASSUME NEW k \in Nodes
          PROVE  /\ view'[k].plan = view[k].plan /\ view'[k].pruned = view[k].pruned
                 /\ Leads(k)' /\ held[k] = room.lock => Leads(k)
                 /\ Leads(k)' => k = n \/ Leads(k)
                 /\ pc'[k] \in Working \cup {"recover"} => pc[k] \in Working \cup {"recover"}
                 /\ pc'[k] \in Working => pc[k] \in Working
      BY <3>1, <3>2
    <3> QED BY <3>1, <3>2, <3>3, <3>4
  <2>16. CASE PushMain(n)
    BY <2>16 DEF PushMain, Goto, local, RecordDigest, StillValid
  <2>17. CASE StaleHolderStops(n)
    BY <2>17 DEF StaleHolderStops, Goto, local
  <2>18. CASE Prune(n)
    BY <2>18 DEF Prune, Goto, local, Forget, Fails
  <2>19. CASE Release(n)
    BY <2>19 DEF Release, Goto, local, Forget, Fails, Owns
  <2>20. CASE ReleaseSkips(n)
    BY <2>20 DEF ReleaseSkips, Goto, local, Forget, Fails, Owns
  <2>21. CASE PruneUnanswered(n)
    BY <2>21 DEF PruneUnanswered, Goto, local, Forget, Fails
  <2>22. CASE Throws(n)
    BY <2>22 DEF Throws, Goto, local, Forget, Fails
  <2>23. CASE Dies(n)
    BY <2>23 DEF Dies, Goto, local, Forget, Fails
  <2>24. CASE SwitchedOff(n)
    BY <2>24 DEF SwitchedOff, Goto, local, Forget, Fails
  <2> QED
    BY <1>4, <2>1, <2>2, <2>3, <2>4, <2>5, <2>6, <2>7, <2>8, <2>9, <2>10, <2>11, <2>12, <2>13,
       <2>14, <2>15, <2>16, <2>17, <2>18, <2>19, <2>20, <2>21, <2>22, <2>23, <2>24
            DEF Acquire, Prepare, Work
<1> QED
  BY <1>1, <1>2, <1>3, <1>4 DEF Next

\* When no lease runs out under a live holder, whoever holds a token leads; and as only the leader
\* prunes, its clone has every prune when it plans.
HoldersLead ==
  \A n \in Nodes :
    /\ held[n] \in Tokens => held[n] \notin expired
    /\ \/ pc[n] = "plan"
       \/ pc[n] = "claim" /\ view[n].lock \in Tokens \ expired /\ Holder[view[n].lock] = n
       => view[n].pruned = room.pruned

\* If leases outlast the holders that live, only the leader works.
LEMMA HoldersStay ==
  ASSUME ~SlowHolders, SealInv, HoldersLead, [Next]_vars
  PROVE  HoldersLead'
<1> USE SealAssumption
    DEF TypeOK, Rooms, Plans, NoPlan, SealInv, HistoryInv, TokensExclude, Leads, Working,
    HoldersLead
<1>1. CASE UNCHANGED vars
  BY <1>1 DEF vars, local
<1>2. ASSUME NEW m \in Msgs, Post(m)
      PROVE  HoldersLead'
  BY <1>2 DEF Post, local
<1>3. ASSUME NEW t \in Tokens, Expire(t)
      PROVE  HoldersLead'
  BY <1>3 DEF Expire, local
<1>4. ASSUME NEW n \in Nodes,
             \/ Sync(n) \/ Start(n) \/ Acquire(n) \/ Prepare(n) \/ Work(n)
             \/ PruneUnanswered(n) \/ Throws(n) \/ Dies(n) \/ SwitchedOff(n)
      PROVE  HoldersLead'
  <2>1. CASE Sync(n)
    BY <2>1 DEF Sync, Goto, local
  <2>2. CASE Start(n)
    BY <2>2 DEF Start, Goto, local
  <2>3. CASE AcquireFetch(n)
    BY <2>3 DEF AcquireFetch, Goto, local
  <2>4. CASE ClaimResumes(n)
    BY <2>4 DEF ClaimResumes, Goto, local, Unexpired
  <2>5. CASE ClaimBusy(n)
    BY <2>5 DEF ClaimBusy, Goto, local
  <2>6. CASE ClaimWins(n)
    <3> DEFINE t == NewToken(n)
    <3>1. t \in Tokens /\ Holder[t] = n /\ Fresh(t)
      BY <2>6, NewTokenIsFresh
    <3>2. /\ room = view[n]
          /\ room' = [view[n] EXCEPT !.lock = t] /\ view' = [view EXCEPT ![n] = room']
          /\ held' = [held EXCEPT ![n] = t] /\ expired' = expired \ {t}
          /\ pc' = [pc EXCEPT ![n] = "plan"]
      BY <2>6 DEF ClaimWins, Goto, Swappable
    <3> HIDE DEF t
    <3> QED BY <3>1, <3>2 DEF Fresh
  <2>7. CASE ClaimLoses(n)
    BY <2>7 DEF ClaimLoses, Goto, local
  <2>8. CASE ResumePlan(n)
    BY <2>8 DEF ResumePlan, Goto, local
  <2>9. CASE NoPlanNeeded(n)
    BY <2>9 DEF NoPlanNeeded, Goto, local
  <2>10. CASE CommitPlan(n)
    BY <2>10 DEF CommitPlan, Goto, local
  <2>11. CASE PlanConflicts(n)
    BY <2>11 DEF PlanConflicts, Goto, local
  <2>12. CASE Recover(n)
    BY <2>12 DEF Recover, Goto, local
  <2>13. CASE Renew(n)
    BY <2>13 DEF Renew, Goto, local, Owns
  <2>14. CASE RenewFindsLost(n)
    BY <2>14 DEF RenewFindsLost, Goto, local
  <2>15. CASE Fetch(n)
    BY <2>15 DEF Fetch, Goto, local
  <2>16. CASE PushMain(n)
    BY <2>16 DEF PushMain, Goto, local
  <2>17. CASE StaleHolderStops(n)
    BY <2>17 DEF StaleHolderStops, Goto, local
  <2>18. CASE Prune(n)
    BY <2>18 DEF Prune, Goto, local, Forget, Fails
  <2>19. CASE Release(n)
    BY <2>19 DEF Release, Goto, local, Forget, Fails, Owns
  <2>20. CASE ReleaseSkips(n)
    BY <2>20 DEF ReleaseSkips, Goto, local, Forget, Fails
  <2>21. CASE PruneUnanswered(n)
    BY <2>21 DEF PruneUnanswered, Goto, local, Forget, Fails
  <2>22. CASE Throws(n)
    BY <2>22 DEF Throws, Goto, local, Forget, Fails
  <2>23. CASE Dies(n)
    BY <2>23 DEF Dies, Goto, local, Forget, Fails
  <2>24. CASE SwitchedOff(n)
    BY <2>24 DEF SwitchedOff, Goto, local, Forget, Fails
  <2> QED
    BY <1>4, <2>1, <2>2, <2>3, <2>4, <2>5, <2>6, <2>7, <2>8, <2>9, <2>10, <2>11, <2>12, <2>13,
       <2>14, <2>15, <2>16, <2>17, <2>18, <2>19, <2>20, <2>21, <2>22, <2>23, <2>24
            DEF Acquire, Prepare, Work
<1> QED
  BY <1>1, <1>2, <1>3, <1>4 DEF Next

\* Then a plan goes whole, by the prune of its leader.
LEMMA ResumableStays ==
  ASSUME ~SlowHolders, SealInv, HoldersLead, PlanIsResumable, [Next]_vars
  PROVE  PlanIsResumable'
<1> USE SealAssumption
    DEF TypeOK, Rooms, Plans, NoPlan, SealInv, HistoryInv, ViewsAreHistory, PlansAreSound,
    TokensExclude, DigestsAreDone, LeaderKnows, Leads, Working, HoldersLead, PlanIsResumable,
    Whole, Gone, Live
<1>1. CASE UNCHANGED vars
  BY <1>1 DEF vars, local
<1>2. ASSUME NEW m \in Msgs, Post(m)
      PROVE  PlanIsResumable'
  BY <1>2 DEF Post, local
<1>3. ASSUME NEW t \in Tokens, Expire(t)
      PROVE  PlanIsResumable'
  BY <1>3 DEF Expire, local
<1>4. ASSUME NEW n \in Nodes,
             \/ Sync(n) \/ Start(n) \/ Acquire(n) \/ Prepare(n) \/ Work(n)
             \/ PruneUnanswered(n) \/ Throws(n) \/ Dies(n) \/ SwitchedOff(n)
      PROVE  PlanIsResumable'
  <2>1. CASE Sync(n)
    BY <2>1 DEF Sync, Goto, local
  <2>2. CASE Start(n)
    BY <2>2 DEF Start, Goto, local
  <2>3. CASE AcquireFetch(n)
    BY <2>3 DEF AcquireFetch, Goto, local
  <2>4. CASE ClaimResumes(n)
    BY <2>4 DEF ClaimResumes, Goto, local
  <2>5. CASE ClaimBusy(n)
    BY <2>5 DEF ClaimBusy, Goto, local
  <2>6. CASE ClaimWins(n)
    BY <2>6 DEF ClaimWins, Goto, local, NewToken, FreshTokens, Swappable
  <2>7. CASE ClaimLoses(n)
    BY <2>7 DEF ClaimLoses, Goto, local
  <2>8. CASE ResumePlan(n)
    BY <2>8 DEF ResumePlan, Goto, local
  <2>9. CASE NoPlanNeeded(n)
    BY <2>9 DEF NoPlanNeeded, Goto, local
  <2>10. CASE CommitPlan(n)
    <3>1. OverWindow(view[n]) \subseteq view[n].posted \ view[n].pruned
      BY OverWindowLives
    <3> QED BY <2>10, <3>1 DEF CommitPlan, Goto
  <2>11. CASE PlanConflicts(n)
    BY <2>11 DEF PlanConflicts, Goto, local
  <2>12. CASE Recover(n)
    BY <2>12 DEF Recover, Goto, local
  <2>13. CASE Renew(n)
    BY <2>13 DEF Renew, Goto, local
  <2>14. CASE RenewFindsLost(n)
    BY <2>14 DEF RenewFindsLost, Goto, local
  <2>15. CASE Fetch(n)
    BY <2>15 DEF Fetch, Goto, local
  <2>16. CASE PushMain(n)
    BY <2>16 DEF PushMain, Goto, local, RecordDigest
  <2>17. CASE StaleHolderStops(n)
    BY <2>17 DEF StaleHolderStops, Goto, local
  <2>18. CASE Prune(n)
    BY <2>18 DEF Prune, Goto, local, Forget, Fails
  <2>19. CASE Release(n)
    BY <2>19 DEF Release, Goto, local, Forget, Fails, Owns
  <2>20. CASE ReleaseSkips(n)
    BY <2>20 DEF ReleaseSkips, Goto, local, Forget, Fails
  <2>21. CASE PruneUnanswered(n)
    BY <2>21 DEF PruneUnanswered, Goto, local, Forget, Fails
  <2>22. CASE Throws(n)
    BY <2>22 DEF Throws, Goto, local, Forget, Fails
  <2>23. CASE Dies(n)
    BY <2>23 DEF Dies, Goto, local, Forget, Fails
  <2>24. CASE SwitchedOff(n)
    BY <2>24 DEF SwitchedOff, Goto, local, Forget, Fails
  <2> QED
    BY <1>4, <2>1, <2>2, <2>3, <2>4, <2>5, <2>6, <2>7, <2>8, <2>9, <2>10, <2>11, <2>12, <2>13,
       <2>14, <2>15, <2>16, <2>17, <2>18, <2>19, <2>20, <2>21, <2>22, <2>23, <2>24
            DEF Acquire, Prepare, Work
<1> QED
  BY <1>1, <1>2, <1>3, <1>4 DEF Next

-----------------------------------------------------------------------------
\* The invariants hold at first.
LEMMA SealInvInit == Init => SealInv /\ HoldersLead /\ PlanIsResumable
BY SealAssumption
   DEF Init, SealInv, HistoryInv, TypeOK, ViewsAreHistory, PlansAreSound, PrunedIsRecorded,
       TokensExclude, DigestsAreDone, LeaderKnows, Leads, SealedOnce, HoldersLead, PlanIsResumable,
       Rooms, Plans, NoPlan, Steps, Working, Whole

\* And they are preserved together.
LEMMA SealInvNext == SealInv /\ [Next]_vars => SealInv'
<1> SUFFICES ASSUME SealInv, [Next]_vars
             PROVE  SealInv'
  OBVIOUS
<1>1. HistoryInv /\ TypeOK /\ TokensExclude
  BY DEF SealInv, HistoryInv
<1>2. TypeOK'
  BY <1>1, SealStepTyped
<1>3. HistoryInv'
  BY <1>1, <1>2, RecordStays
<1>4. TokensExclude'
  BY <1>1, TokensStay
<1> QED
  BY <1>3, <1>4, LeadersStay DEF SealInv

\* Type correctness of sealing.
THEOREM SealTyped == Spec => []TypeOK
<1>1. Init => TypeOK
  BY SealInvInit DEF SealInv, HistoryInv
<1>2. TypeOK /\ [Next]_vars => TypeOK'
  BY SealStepTyped
<1> QED
  BY <1>1, <1>2, PTL DEF Spec

\* "Pruning is not data loss": what a seal removes is in main's history and in a digest.  What
\* it prunes was planned, and its own push of main came before; no lock is needed for this.
THEOREM PrunedStaysRecorded == Spec => []PrunedIsRecorded
<1>1. Init => HistoryInv
  BY SealInvInit DEF SealInv
<1>2. HistoryInv /\ [Next]_vars => HistoryInv'
  <2> SUFFICES ASSUME HistoryInv, [Next]_vars
               PROVE  HistoryInv'
    OBVIOUS
  <2>1. TypeOK'
    BY SealStepTyped DEF HistoryInv
  <2> QED
    BY <2>1, RecordStays
<1>3. HistoryInv => PrunedIsRecorded
  BY DEF HistoryInv
<1> QED
  BY <1>1, <1>2, <1>3, PTL DEF Spec

\* No message is in two digests, although leases run out under holders that go on, and plans and
\* prunes are pushed without a look at the lock.
THEOREM MessagesAreSealedOnce == Spec => []SealedOnce
<1>1. Init => SealInv
  BY SealInvInit
<1>2. SealInv => SealedOnce
  BY DEF SealInv
<1> QED
  BY <1>1, SealInvNext, <1>2, PTL DEF Spec

\* A lock is only taken away by the seal that holds it, or after it has expired.
THEOREM LocksLeaveRightly == Spec => LockLeavesRightly
<1> DEFINE A == room.lock # NoLock /\ room'.lock # room.lock
                  => \/ room.lock \in expired
                     \/ \E n \in Nodes : pc[n] = "release" /\ held[n] = room.lock
<1>1. TypeOK /\ [Next]_vars => [A]_vars
  <2> SUFFICES ASSUME TypeOK, Next
               PROVE  A
    OBVIOUS
  <2> USE DEF TypeOK, Rooms
  <2>1. ASSUME NEW m \in Msgs, Post(m)
        PROVE  A
    BY <2>1 DEF Post
  <2>2. ASSUME NEW n \in Nodes, ClaimWins(n)
        PROVE  A
    BY <2>2 DEF ClaimWins, Swappable, Unexpired
  <2>3. ASSUME NEW n \in Nodes, Release(n)
        PROVE  A
    BY <2>3 DEF Release, Owns
  <2>4. ASSUME NEW n \in Nodes, CommitPlan(n) \/ Prune(n) \/ PruneUnanswered(n)
        PROVE  A
    BY <2>4 DEF CommitPlan, Prune, PruneUnanswered
  <2>5. CASE room' = room
    BY <2>5
  <2> QED
    BY <2>1, <2>2, <2>3, <2>4, <2>5
       DEF Next, Expire, Sync, Start, Acquire, AcquireFetch, ClaimResumes, ClaimBusy, ClaimLoses,
           Prepare, ResumePlan, NoPlanNeeded, PlanConflicts, Recover, Work, Renew, RenewFindsLost,
           Fetch, PushMain, StaleHolderStops, ReleaseSkips, Throws, Dies, SwitchedOff
<1> QED
  BY SealTyped, <1>1, PTL DEF Spec, LockLeavesRightly

\* If leases outlast the holders that live, whoever gets the lock next can carry out or complete
\* the plan in the room.  (Without that it may be wedged: see the run of PlanIsResumable with
\* slow holders.)
THEOREM PlansStayResumable == ~SlowHolders => (Spec => []PlanIsResumable)
<1> SUFFICES ASSUME ~SlowHolders
             PROVE  Spec => []PlanIsResumable
  OBVIOUS
<1> DEFINE Inv == SealInv /\ HoldersLead /\ PlanIsResumable
<1>1. Init => Inv
  BY SealInvInit
<1>2. Inv /\ [Next]_vars => Inv'
  BY SealInvNext, HoldersStay, ResumableStays
<1> QED
  BY <1>1, <1>2, PTL DEF Spec

=============================================================================
