------------------------------ MODULE AgentProofs ------------------------------
(***************************************************************************)
(* What holds of the commands of one agent, for any number of them.        *)
(*                                                                         *)
(* Approvals: the list is rewritten as a whole and without a lock, so the  *)
(* argument is about what every command in flight has read: two that       *)
(* overlap are both counted as met, and a revocation that met none finds   *)
(* no stale list left.                                                     *)
(*                                                                         *)
(* Reading: what a call in flight remembers carries the proof: who answers *)
(* was decided before the answer was sent, and the item is settled only    *)
(* after it.                                                               *)
(*                                                                         *)
(* Watch: a network in good health has delivered all that completed syncs  *)
(* have seen in its rooms; so whichever of inbox and health a poll reads   *)
(* first, what it lists is all that was due, unless a sync came between.   *)
(***************************************************************************)
EXTENDS Approvals, Reading, Watch, Sequences, WellFoundedInduction, TLAPS

-----------------------------------------------------------------------------
\* Approvals.

\* Type correctness, for all sets of commands, works and claims.
THEOREM ApprovalsTyped == ApprovalSpec => []ApprovalTypeOK
<1>1. ApprovalInit => ApprovalTypeOK
  BY DEF ApprovalInit, ApprovalTypeOK, Absent, PolicyContents, CommandSteps, ClaimSteps, Snapshots
<1>2. ApprovalTypeOK /\ [ApprovalNext]_approvalVars => ApprovalTypeOK'
  <2> SUFFICES ASSUME ApprovalTypeOK, [ApprovalNext]_approvalVars
               PROVE  ApprovalTypeOK'
    OBVIOUS
  <2> USE DEF ApprovalTypeOK
  <2>1. CASE UNCHANGED approvalVars
    BY <2>1 DEF approvalVars
  <2>2. ASSUME NEW f \in PolicyFiles, NEW contents \in Policies, EditPolicy(f, contents)
        PROVE  ApprovalTypeOK'
    BY <2>2, ApprovalAssumption DEF EditPolicy
  <2>3. ASSUME NEW p \in Commands, NEW op \in Ops, NEW w \in Works, CommandReads(p, op, w)
        PROVE  ApprovalTypeOK'
    <3>1. Listed \in Snapshots
      BY DEF Listed, Snapshots
    <3>2. commanding' \in [Commands -> CommandSteps]
      <4>1. CASE (op = "approve") = (w \in Listed)
        BY <2>3, <4>1 DEF CommandReads, CommandSteps
      <4>2. CASE (op = "approve") # (w \in Listed)
        BY <2>3, <3>1, <4>2 DEF CommandReads, CommandSteps
      <4> QED BY <4>1, <4>2
    <3>3. met' \subseteq Commands
      BY <2>3 DEF CommandReads
    <3> QED BY <2>3, <3>2, <3>3 DEF CommandReads
  <2>4. ASSUME NEW p \in Commands, CommandTruncates(p)
        PROVE  ApprovalTypeOK'
    <3>1. /\ commanding[p] \in [step: {"read", "writing"}, op: Ops, work: Works, had: Snapshots]
          /\ commanding[p].work \in Works
      BY <2>4 DEF CommandTruncates, CommandSteps
    <3>2. commanding' \in [Commands -> CommandSteps]
      BY <2>4, <3>1 DEF CommandTruncates, CommandSteps
    <3> QED BY <2>4, <3>1, <3>2 DEF CommandTruncates, Snapshots
  <2>5. ASSUME NEW p \in Commands, CommandWrites(p)
        PROVE  ApprovalTypeOK'
    <3>1. commanding[p].work \in Works /\ commanding[p].had \in Snapshots
      BY <2>5 DEF CommandWrites, CommandSteps
    <3>2. Rewritten(p) \in Snapshots
      BY <3>1 DEF Rewritten, Snapshots
    <3> QED BY <2>5, <3>1, <3>2 DEF CommandWrites, CommandSteps
  <2>6. ASSUME NEW p \in Commands, CommandDies(p)
        PROVE  ApprovalTypeOK'
    BY <2>6 DEF CommandDies, CommandSteps
  <2>7. ASSUME NEW c \in Claims, NEW w \in Works, ClaimDecides(c, w)
        PROVE  ApprovalTypeOK'
    <3>1. ApprovalRequired \in BOOLEAN
      BY DEF ApprovalRequired
    <3> QED BY <2>7, <3>1 DEF ClaimDecides, ClaimSteps
  <2>8. ASSUME NEW c \in Claims, ClaimChecks(c)
        PROVE  ApprovalTypeOK'
    BY <2>8 DEF ClaimChecks, ClaimSteps
  <2>9. ASSUME NEW c \in Claims, ClaimEnds(c)
        PROVE  ApprovalTypeOK'
    BY <2>9 DEF ClaimEnds, ClaimSteps
  <2> QED
    BY <2>1, <2>2, <2>3, <2>4, <2>5, <2>6, <2>7, <2>8, <2>9 DEF ApprovalNext, Person, Agent
<1> QED
  BY <1>1, <1>2, PTL DEF ApprovalSpec

-----------------------------------------------------------------------------
Permitted == everApproved \ withdrawn

\* The file lists only what is permitted.
FileIsPermitted == approvals.works \subseteq Permitted

\* So does what a command in flight has read, and what it is about to write.
PlansArePermitted ==
  \A p \in Commands :
    Busy(p) => /\ commanding[p].had \subseteq Permitted
               /\ commanding[p].step = "writing" /\ commanding[p].op = "approve"
                  => commanding[p].work \in Permitted

\* Two commands in flight have both met another one.
OverlapsAreSeen ==
  \A p, q \in Commands : p # q /\ Busy(p) /\ Busy(q) => p \in met

ApprovalInv == FileIsPermitted /\ PlansArePermitted /\ OverlapsAreSeen

LEMMA ApprovalInvInit == ApprovalInit => ApprovalInv
BY DEF ApprovalInit, ApprovalInv, FileIsPermitted, PlansArePermitted, OverlapsAreSeen, Busy

LEMMA OverlapsStaySeen ==
  ASSUME ApprovalTypeOK, OverlapsAreSeen, [ApprovalNext]_approvalVars
  PROVE  OverlapsAreSeen'
<1> USE DEF ApprovalTypeOK, Busy
<1> SUFFICES ASSUME NEW p \in Commands, NEW q \in Commands, p # q, Busy(p)', Busy(q)'
             PROVE  p \in met'
  BY DEF OverlapsAreSeen
<1>1. CASE commanding' = commanding /\ met' = met
  BY <1>1 DEF OverlapsAreSeen
<1>2. ASSUME NEW r \in Commands, NEW op \in Ops, NEW w \in Works, CommandReads(r, op, w)
      PROVE  p \in met'
  <2>1. \A o \in Commands \ {r} : commanding'[o] = commanding[o]
    BY <1>2 DEF CommandReads
  <2>2. CASE p # r /\ q # r
    BY <1>2, <2>1, <2>2 DEF OverlapsAreSeen, CommandReads
  <2>3. CASE p = r \/ q = r
    BY <1>2, <2>1, <2>3 DEF CommandReads, Meets
  <2> QED BY <2>2, <2>3
<1>3. ASSUME NEW r \in Commands, CommandTruncates(r) \/ CommandWrites(r) \/ CommandDies(r)
      PROVE  p \in met'
  <2>1. \A o \in Commands : commanding'[o].step \in {"read", "writing"} => Busy(o)
    BY <1>3 DEF CommandTruncates, CommandWrites, CommandDies
  <2>2. met' = met
    BY <1>3 DEF CommandTruncates, CommandWrites, CommandDies
  <2> QED BY <2>1, <2>2 DEF OverlapsAreSeen
<1>4. CASE Agent
  BY <1>4, <1>1 DEF Agent, ClaimDecides, ClaimChecks, ClaimEnds
<1>5. CASE \E f \in PolicyFiles, contents \in Policies : EditPolicy(f, contents)
  BY <1>5, <1>1 DEF EditPolicy
<1>6. CASE UNCHANGED approvalVars
  BY <1>6, <1>1 DEF approvalVars
<1> QED
  BY <1>2, <1>3, <1>4, <1>5, <1>6 DEF ApprovalNext, Person

LEMMA PlansStayPermitted ==
  ASSUME ApprovalTypeOK, ApprovalInv, [ApprovalNext]_approvalVars
  PROVE  FileIsPermitted' /\ PlansArePermitted'
<1> USE DEF ApprovalTypeOK, ApprovalInv, Permitted
<1>1. CASE UNCHANGED <<commanding, approvals, everApproved, withdrawn>>
  BY <1>1 DEF FileIsPermitted, PlansArePermitted, Busy
<1>2. ASSUME NEW r \in Commands, NEW op \in Ops, NEW w \in Works, CommandReads(r, op, w)
      PROVE  FileIsPermitted' /\ PlansArePermitted'
  <2>1. FileIsPermitted'
    BY <1>2 DEF CommandReads, FileIsPermitted
  <2>2. ASSUME NEW p \in Commands, Busy(p)'
        PROVE  /\ commanding'[p].had \subseteq Permitted'
               /\ commanding'[p].step = "writing" /\ commanding'[p].op = "approve"
                  => commanding'[p].work \in Permitted'
    <3>1. Permitted' = Permitted
      BY <1>2 DEF CommandReads
    <3>2. CASE p = r
      <4>1. commanding'[r] = [step |-> "read", op |-> op, work |-> w, had |-> Listed]
        BY <1>2, <2>2, <3>2 DEF CommandReads, Busy
      <4> QED BY <3>1, <3>2, <4>1 DEF Listed, FileIsPermitted
    <3>3. CASE p # r
      BY <1>2, <2>2, <3>1, <3>3 DEF CommandReads, PlansArePermitted, Busy
    <3> QED BY <3>2, <3>3
  <2> QED BY <2>1, <2>2 DEF PlansArePermitted
<1>3. ASSUME NEW r \in Commands, CommandTruncates(r)
      PROVE  FileIsPermitted' /\ PlansArePermitted'
  <2>1. FileIsPermitted'
    BY <1>3 DEF CommandTruncates, FileIsPermitted
  <2>2. Permitted \subseteq Permitted'
    BY <1>3 DEF CommandTruncates
  <2>3. commanding[r].op = "approve" => commanding[r].work \in Permitted'
    BY <1>3 DEF CommandTruncates
  <2>4. /\ commanding[r] \in [step: {"read", "writing"}, op: Ops, work: Works, had: Snapshots]
        /\ commanding' = [commanding EXCEPT ![r].step = "writing"]
    BY <1>3 DEF CommandTruncates, CommandSteps
  <2>5. \A p \in Commands : /\ Busy(p)' => Busy(p)
                            /\ Busy(p)' => /\ commanding'[p].had = commanding[p].had
                                           /\ commanding'[p].op = commanding[p].op
                                           /\ commanding'[p].work = commanding[p].work
                            /\ p # r => commanding'[p] = commanding[p]
    BY <1>3, <2>4 DEF Busy
  <2> QED BY <2>1, <2>2, <2>3, <2>5 DEF PlansArePermitted
<1>4. ASSUME NEW r \in Commands, CommandWrites(r)
      PROVE  FileIsPermitted' /\ PlansArePermitted'
  <2>1. Busy(r) /\ commanding[r].had \subseteq Permitted
    BY <1>4 DEF CommandWrites, Busy, PlansArePermitted
  <2>2. CASE commanding[r].op = "revoke" /\ r \notin met
    <3>1. \A p \in Commands \ {r} : ~Busy(p)
      BY <2>1, <2>2 DEF OverlapsAreSeen
    <3>2. PlansArePermitted'
      BY <1>4, <3>1 DEF CommandWrites, PlansArePermitted, Busy
    <3>3. Rewritten(r) = commanding[r].had \ {commanding[r].work}
      BY <2>2 DEF Rewritten
    <3>4. FileIsPermitted'
      BY <1>4, <2>1, <2>2, <3>3 DEF CommandWrites, FileIsPermitted
    <3> QED BY <3>2, <3>4
  <2>3. CASE ~(commanding[r].op = "revoke" /\ r \notin met)
    <3>1. Permitted' = Permitted
      BY <1>4, <2>3 DEF CommandWrites
    <3>2. Rewritten(r) \subseteq Permitted
      BY <1>4, <2>1 DEF CommandWrites, Rewritten, PlansArePermitted
    <3>3. PlansArePermitted'
      BY <1>4, <3>1 DEF CommandWrites, PlansArePermitted, Busy
    <3> QED BY <1>4, <3>1, <3>2, <3>3 DEF CommandWrites, FileIsPermitted
  <2> QED BY <2>2, <2>3
<1>5. ASSUME NEW r \in Commands, CommandDies(r)
      PROVE  FileIsPermitted' /\ PlansArePermitted'
  BY <1>5 DEF CommandDies, FileIsPermitted, PlansArePermitted, Busy
<1>6. CASE Agent
  BY <1>6, <1>1 DEF Agent, ClaimDecides, ClaimChecks, ClaimEnds
<1>7. CASE \E f \in PolicyFiles, contents \in Policies : EditPolicy(f, contents)
  BY <1>7, <1>1 DEF EditPolicy
<1>8. CASE UNCHANGED approvalVars
  BY <1>8, <1>1 DEF approvalVars
<1> QED
  BY <1>2, <1>3, <1>4, <1>5, <1>6, <1>7, <1>8 DEF ApprovalNext, Person

\* Where the policy asks for a person, a claim is granted only for a work that somebody has
\* approved and that no command that met no other has revoked since: whatever commands
\* overlap, die or cut the file off.
THEOREM GateHolds == ApprovalSpec => GrantsArePermitted
<1>1. ApprovalTypeOK /\ ApprovalInv /\ [ApprovalNext]_approvalVars => ApprovalInv'
  BY OverlapsStaySeen, PlansStayPermitted DEF ApprovalInv
<1>2. ApprovalTypeOK /\ ApprovalInv /\ [ApprovalNext]_approvalVars =>
        [\A c \in Claims :
           claiming[c].step = "decided" /\ claiming'[c].step = "granted" /\ claiming[c].required
           => claiming[c].work \in everApproved \ withdrawn]_approvalVars
  <2> SUFFICES ASSUME ApprovalTypeOK, ApprovalInv, ApprovalNext, NEW c \in Claims,
                      claiming[c].step = "decided", claiming'[c].step = "granted",
                      claiming[c].required
               PROVE  claiming[c].work \in everApproved \ withdrawn
    OBVIOUS
  <2>1. ClaimChecks(c)
    <3>1. claiming' # claiming
      OBVIOUS
    <3>2. PICK d \in Claims : ClaimChecks(d) \/ ClaimEnds(d) \/ \E w \in Works : ClaimDecides(d, w)
      BY <3>1 DEF ApprovalNext, Person, Agent, EditPolicy, CommandReads, CommandTruncates,
                  CommandWrites, CommandDies
    <3>3. d = c
      BY <3>2 DEF ClaimChecks, ClaimEnds, ClaimDecides, ApprovalTypeOK
    <3> QED BY <3>2, <3>3 DEF ClaimEnds, ClaimDecides
  <2>2. Has(claiming[c].work)
    BY <2>1 DEF ClaimChecks, ApprovalTypeOK
  <2> QED BY <2>2 DEF Has, Listed, ApprovalInv, FileIsPermitted, Permitted
<1> QED
  BY ApprovalInvInit, ApprovalsTyped, <1>1, <1>2, PTL DEF ApprovalSpec, GrantsArePermitted

-----------------------------------------------------------------------------
\* Reading.

\* A call that answers a question does so for a person, and has sent the answer by the time
\* it settles the item.
CallsRelay ==
  /\ reading = [k \in Readers |-> reading[k]]
  /\ \A k \in Readers :
       ~Idles(k) =>
         /\ reading[k].does \in {"send", "settle"} /\ reading[k].letter \in Questions
            => reading[k].author = "human"
         /\ reading[k].does = "settle" => <<reading[k].letter, reading[k].author>> \in relayed

RelayInv == CallsRelay /\ QuestionsWaitForPeople

LEMMA RelayInvInit == ReadingInit => RelayInv
BY DEF ReadingInit, RelayInv, CallsRelay, QuestionsWaitForPeople, Idles

\* Replacing what one call remembers keeps the invariant if the new memory satisfies it.
LEMMA TurnsKeepRelays ==
  ASSUME CallsRelay, NEW k \in Readers, NEW to, Turns(k, to), relayed \subseteq relayed',
         to # NoReading =>
           /\ to.does \in {"send", "settle"} /\ to.letter \in Questions => to.author = "human"
           /\ to.does = "settle" => <<to.letter, to.author>> \in relayed'
  PROVE  CallsRelay'
BY DEF CallsRelay, Turns, Idles

LEMMA RelayInvNext == RelayInv /\ [ReadingNext]_readingVars => RelayInv'
<1> SUFFICES ASSUME RelayInv, [ReadingNext]_readingVars
             PROVE  RelayInv'
  OBVIOUS
<1> USE DEF RelayInv
<1>1. CASE UNCHANGED readingVars
  BY <1>1 DEF readingVars, CallsRelay, QuestionsWaitForPeople, Idles
<1>2. CASE OnInbox
  <2>1. CallsRelay'
    BY <1>2 DEF OnInbox, Arrive, LookInbox, WaitForThread, ForgetRoom, JoinAgain, Drain,
                CallsRelay, Idles
  <2>2. QuestionsWaitForPeople'
    BY <1>2 DEF OnInbox, Arrive, LookInbox, WaitForThread, ForgetRoom, JoinAgain, Drain,
                QuestionsWaitForPeople
  <2> QED BY <2>1, <2>2
<1>3. ASSUME NEW k \in Readers, OnCall(k)
      PROVE  RelayInv'
  <2>1. CASE PublishReads(k)
    <3>1. CallsRelay'
      BY <2>1, TurnsKeepRelays DEF PublishReads
    <3> QED BY <2>1, <3>1 DEF PublishReads, QuestionsWaitForPeople
  <2>2. CASE PublishWrites(k)
    <3>1. CallsRelay'
      BY <2>2, TurnsKeepRelays DEF PublishWrites
    <3> QED BY <2>2, <3>1 DEF PublishWrites, QuestionsWaitForPeople
  <2>3. CASE CallEnds(k)
    <3>1. CallsRelay'
      BY <2>3, TurnsKeepRelays DEF CallEnds
    <3> QED BY <2>3, <3>1 DEF CallEnds, QuestionsWaitForPeople
  <2>4. ASSUME NEW m \in Letters, AckBegins(k, m)
        PROVE  RelayInv'
    <3>1. CallsRelay'
      BY <2>4, TurnsKeepRelays DEF AckBegins
    <3> QED BY <2>4, <3>1 DEF AckBegins, QuestionsWaitForPeople
  <2>5. ASSUME NEW m \in Letters, NEW author \in Authors, AnswerBegins(k, m, author)
        PROVE  RelayInv'
    <3>1. CallsRelay'
      BY <2>5, TurnsKeepRelays DEF AnswerBegins
    <3> QED BY <2>5, <3>1 DEF AnswerBegins, QuestionsWaitForPeople
  <2>6. CASE AnswerSent(k)
    <3> DEFINE to == AfterSend(reading[k])
    <3>1. ~Idles(k) /\ reading[k].does \in {"send", "ack"} /\ Turns(k, to)
      BY <2>6 DEF AnswerSent, Sends
    <3>2. relayed' = relayed \cup {<<reading[k].letter, reading[k].author>>}
      BY <2>6 DEF AnswerSent
    <3>3. to # NoReading =>
            /\ to.does \in {"send", "settle"} /\ to.letter \in Questions => to.author = "human"
            /\ to.does = "settle" => <<to.letter, to.author>> \in relayed'
      BY <3>1, <3>2 DEF CallsRelay, AfterSend
    <3>4. CallsRelay'
      BY <3>1, <3>2, <3>3, TurnsKeepRelays
    <3> QED BY <2>6, <3>2, <3>4 DEF AnswerSent, QuestionsWaitForPeople
  <2>7. CASE AnswerSettles(k)
    <3>1. CallsRelay'
      BY <2>7, TurnsKeepRelays DEF AnswerSettles
    <3>2. QuestionsWaitForPeople'
      <4> SUFFICES ASSUME NEW m \in handled' \cap Questions, m \notin handled
                   PROVE  <<m, "human">> \in relayed
        BY <2>7 DEF AnswerSettles, QuestionsWaitForPeople
      <4>1. m = reading[k].letter /\ reading[k].does = "settle" /\ ~Idles(k)
        BY <2>7 DEF AnswerSettles
      <4> QED BY <4>1 DEF CallsRelay
    <3> QED BY <3>1, <3>2
  <2> QED
    BY <1>3, <2>1, <2>2, <2>3, <2>4, <2>5, <2>6, <2>7 DEF OnCall
<1> QED
  BY <1>1, <1>2, <1>3 DEF ReadingNext

\* No overlap of draining, acknowledging, forgetting and answering settles a question for
\* people without an answer of a person, for any inbox.
THEOREM PeopleAreAsked == ReadingSpec => []QuestionsWaitForPeople
<1>1. RelayInv => QuestionsWaitForPeople
  BY DEF RelayInv
<1> QED
  BY RelayInvInit, RelayInvNext, <1>1, PTL DEF ReadingSpec

-----------------------------------------------------------------------------
\* The set of letters that an agent can have been shown is bounded: they arrive one by one.
Bounded(S) == \E b \in Nat : \A m \in S : m <= b

\* A bounded set of numbers has a greatest one: the least of its bounds.
LEMMA Greatest ==
  ASSUME NEW S, S \subseteq Nat, S # {}, Bounded(S)
  PROVE  \E m \in S : \A i \in S : i <= m
<1> DEFINE B == {b \in Nat : \A i \in S : i <= b}
           R == OpToRel(<, Nat)
<1>1. B \subseteq Nat /\ B # {}
  BY DEF Bounded
<1>2. PICK b \in B : \A c \in B : ~ (<<c, b>> \in R)
  BY <1>1, NatLessThanWellFounded, WFMin
<1>3. \A c \in B : ~ (c < b)
  BY <1>2 DEF OpToRel
<1> HIDE DEF R
<1>4. ASSUME b \notin S
      PROVE  FALSE
  <2>1. \A i \in S : i < b
    BY <1>2, <1>4
  <2>2. b - 1 \in Nat
    <3>1. PICK i \in S : TRUE
      OBVIOUS
    <3>2. i \in Nat /\ b \in Nat /\ i < b
      BY <1>2, <2>1
    <3> QED BY <3>2
  <2>3. \A i \in S : i <= b - 1
    BY <1>2, <2>1
  <2> QED
    BY <1>2, <1>3, <2>2, <2>3
<1> QED
  BY <1>2, <1>4

\* The mark moves to one of the items, or stays.
LEMMA MarkIsAnItem ==
  ASSUME ReadingTypeOK, Bounded(arrived), NEW items \in SUBSET arrived, RecordSeen(items)
  PROVE  seenThrough' \in Letters \cup {0}
<1> DEFINE reached == items \cup {seenThrough}
<1>1. reached \subseteq Letters \cup {0} /\ reached # {} /\ seenThrough \in reached
  BY DEF ReadingTypeOK
<1>2. reached \subseteq Nat
  <2>1. Letters \cup {0} \subseteq Nat
    BY ReadingAssumption
  <2> HIDE DEF reached
  <2> QED BY <1>1, <2>1
<1>3. Bounded(reached)
  <2>1. PICK b \in Nat : \A m \in arrived : m <= b
    BY DEF Bounded
  <2> DEFINE c == IF b <= seenThrough THEN seenThrough ELSE b
  <2>2. c \in Nat /\ \A m \in reached : m <= c
    BY <1>1, <1>2, <2>1
  <2> QED BY <2>2 DEF Bounded
<1>4. seenThrough' = CHOOSE m \in reached : \A i \in reached : i <= m
  BY DEF RecordSeen
<1> HIDE DEF reached
<1>5. seenThrough' \in reached /\ \A i \in reached : i <= seenThrough'
  BY <1>1, <1>2, <1>3, <1>4, Greatest
<1> QED
  BY <1>1, <1>5

\* What is in flight is typed if what replaces it is.
LEMMA TurnsAreTyped ==
  ASSUME ReadingTypeOK, reading = [k \in Readers |-> reading[k]],
         NEW k \in Readers, NEW to \in Reading \cup {NoReading}, Turns(k, to)
  PROVE  /\ reading' = [j \in Readers |-> reading'[j]]
         /\ \A j \in Readers : reading'[j] = NoReading \/ reading'[j] \in Reading
BY DEF Turns, ReadingTypeOK

\* The rows are bounded, and so the newest of them exists.
ReadingInv == ReadingTypeOK /\ Bounded(arrived) /\ reading = [k \in Readers |-> reading[k]]

\* Every step keeps it.
LEMMA ReadingInvNext == ReadingInv /\ [ReadingNext]_readingVars => ReadingInv'
<1> SUFFICES ASSUME ReadingInv, [ReadingNext]_readingVars
             PROVE  ReadingInv'
  OBVIOUS
<1> USE DEF ReadingInv
<1>1. CASE UNCHANGED readingVars
  BY <1>1 DEF readingVars, ReadingTypeOK, Bounded
<1>2. ASSUME NEW m \in Letters, Arrive(m)
      PROVE  ReadingInv'
  <2>1. Bounded(arrived')
    <3>1. PICK b \in Nat : \A i \in arrived : i <= b
      BY DEF Bounded
    <3> DEFINE c == IF b <= m THEN m ELSE b
    <3>2. c \in Nat /\ \A i \in arrived \cup {m} : i <= c
      BY <3>1, ReadingAssumption DEF ReadingTypeOK
    <3> QED BY <1>2, <3>2 DEF Arrive, Bounded
  <2>2. ReadingTypeOK'
    BY <1>2 DEF Arrive, ReadingTypeOK
  <2> QED BY <1>2, <2>1, <2>2 DEF Arrive
<1>3. ASSUME NEW query, LookInbox(query)
      PROVE  ReadingInv'
  <2>1. seenThrough' \in Letters \cup {0}
    BY <1>3, MarkIsAnItem DEF LookInbox, Pending
  <2> QED BY <1>3, <2>1 DEF LookInbox, Pending, ReadingTypeOK, Bounded
<1>4. CASE WaitForThread
  <2>1. seenThrough' \in Letters \cup {0}
    BY <1>4, MarkIsAnItem DEF WaitForThread, Pending
  <2> QED BY <1>4, <2>1 DEF WaitForThread, Pending, ReadingTypeOK, Bounded
<1>5. ASSUME NEW ids \in SUBSET Letters, Drain(ids)
      PROVE  ReadingInv'
  BY <1>5 DEF Drain, ReadingTypeOK, Bounded
<1>6. CASE ForgetRoom \/ JoinAgain
  BY <1>6 DEF ForgetRoom, JoinAgain, ReadingTypeOK, Bounded
<1>7. ASSUME NEW k \in Readers, OnCall(k)
      PROVE  ReadingInv'
  <2>1. arrived' = arrived /\ seenThrough' = seenThrough /\ inRoom' = inRoom /\ shown' = shown
        /\ late' = late
    BY <1>7 DEF OnCall, PublishReads, PublishWrites, CallEnds, AckBegins, AnswerBegins,
                AnswerSent, AnswerSettles
  <2>2. handled' \subseteq arrived
    BY <1>7 DEF OnCall, PublishReads, PublishWrites, CallEnds, AckBegins, AnswerBegins,
                AnswerSent, AnswerSettles, ReadingTypeOK
  <2>3. PICK to : Turns(k, to) /\ to \in Reading \cup {NoReading}
    <3>1. CASE PublishReads(k)
      BY <3>1 DEF PublishReads, ReadingTypeOK, Reading
    <3>2. CASE PublishWrites(k) \/ CallEnds(k) \/ AnswerSettles(k)
      BY <3>2 DEF PublishWrites, CallEnds, AnswerSettles
    <3>3. ASSUME NEW m \in Letters, AckBegins(k, m)
          PROVE  \E to : Turns(k, to) /\ to \in Reading \cup {NoReading}
      BY <3>3 DEF AckBegins, Reading, Authors
    <3>4. ASSUME NEW m \in Letters, NEW author \in Authors, AnswerBegins(k, m, author)
          PROVE  \E to : Turns(k, to) /\ to \in Reading \cup {NoReading}
      BY <3>4 DEF AnswerBegins, Reading
    <3>5. CASE AnswerSent(k)
      <4>1. reading[k].letter \in Letters /\ reading[k].author \in Authors
        BY <3>5 DEF AnswerSent, Sends, Idles, ReadingTypeOK, Reading
      <4>2. AfterSend(reading[k]) \in Reading
        BY <4>1 DEF AfterSend, Reading
      <4> QED BY <3>5, <4>2 DEF AnswerSent
    <3> QED BY <1>7, <3>1, <3>2, <3>3, <3>4, <3>5 DEF OnCall
  <2>4. /\ reading' = [j \in Readers |-> reading'[j]]
        /\ \A j \in Readers : reading'[j] = NoReading \/ reading'[j] \in Reading
    BY <2>3, TurnsAreTyped
  <2>5. receipt' \in Letters \cup {0}
    <3>1. CASE PublishWrites(k)
      BY <3>1 DEF PublishWrites, Idles, ReadingTypeOK, Reading
    <3>2. CASE ~PublishWrites(k)
      BY <1>7, <3>2 DEF OnCall, PublishReads, CallEnds, AckBegins, AnswerBegins,
                        AnswerSent, AnswerSettles, ReadingTypeOK
    <3> QED BY <3>1, <3>2
  <2>6. relayed' \subseteq Letters \X Authors
    <3>1. CASE AnswerSent(k)
      BY <3>1 DEF AnswerSent, Sends, Idles, ReadingTypeOK, Reading
    <3>2. CASE ~AnswerSent(k)
      BY <1>7, <3>2 DEF OnCall, PublishReads, PublishWrites, CallEnds, AckBegins, AnswerBegins,
                        AnswerSettles, ReadingTypeOK
    <3> QED BY <3>1, <3>2
  <2> QED
    BY <2>1, <2>2, <2>4, <2>5, <2>6 DEF ReadingTypeOK, Bounded
<1> QED
  BY <1>1, <1>2, <1>3, <1>4, <1>5, <1>6, <1>7 DEF ReadingNext, OnInbox

\* Type correctness, for every inbox and any number of calls.
THEOREM ReadingTyped == ReadingSpec => []ReadingTypeOK
<1>1. ReadingInit => ReadingInv
  BY ReadingAssumption DEF ReadingInit, ReadingInv, ReadingTypeOK, Bounded
<1>2. ReadingInv => ReadingTypeOK
  BY DEF ReadingInv
<1> QED
  BY <1>1, <1>2, ReadingInvNext, PTL DEF ReadingSpec

-----------------------------------------------------------------------------
\* What read receipts are worth.

\* A step passes nothing over: a look that moves the mark returns all that is pending, and
\* only what was returned is settled.
PassesNothing ==
  /\ seenThrough' # seenThrough => Pending \subseteq shown'
  /\ handled' \ handled \subseteq shown

\* What is up to the mark was shown or came late, and nothing that is published or about to
\* be is beyond the mark.
MarkIsShown ==
  /\ \A m \in arrived \ late : m <= seenThrough => m \in shown
  /\ handled \subseteq shown
  /\ receipt <= seenThrough
  /\ \A k \in Readers : ~Idles(k) /\ reading[k].does = "publish" => reading[k].through <= seenThrough

\* Looking never moves the mark back.
LEMMA MarkOnlyRises ==
  ASSUME ReadingInv, NEW items \in SUBSET arrived, RecordSeen(items)
  PROVE  seenThrough <= seenThrough'
<1> DEFINE reached == items \cup {seenThrough}
<1>1. reached # {} /\ reached \subseteq Nat
  BY ReadingAssumption DEF ReadingInv, ReadingTypeOK
<1>2. Bounded(reached)
  <2>1. PICK b \in Nat : \A m \in arrived : m <= b
    BY DEF ReadingInv, Bounded
  <2> DEFINE c == IF b <= seenThrough THEN seenThrough ELSE b
  <2>2. c \in Nat /\ \A m \in reached : m <= c
    BY <1>1, <2>1
  <2> QED BY <2>2 DEF Bounded
<1>3. seenThrough' = CHOOSE m \in reached : \A i \in reached : i <= m
  BY DEF RecordSeen
<1>4. seenThrough \in reached
  OBVIOUS
<1> HIDE DEF reached
<1> QED BY <1>1, <1>2, <1>3, <1>4, Greatest

\* A look that passes nothing over keeps it.
LEMMA LooksShow ==
  ASSUME ReadingInv, MarkIsShown, NEW items \in SUBSET Pending, RecordSeen(items), PassesNothing,
         UNCHANGED <<arrived, handled, receipt, reading, late>>, shown \subseteq shown'
  PROVE  MarkIsShown'
<1>1. seenThrough \in Nat /\ seenThrough' \in Nat /\ seenThrough <= seenThrough'
  BY MarkIsAnItem, MarkOnlyRises, ReadingAssumption DEF ReadingInv, ReadingTypeOK, Pending
<1>2. receipt \in Nat /\ arrived \subseteq Nat
  BY ReadingAssumption DEF ReadingInv, ReadingTypeOK
<1>3. ASSUME NEW m \in arrived \ late, m <= seenThrough' PROVE m \in shown'
  BY <1>3 DEF PassesNothing, MarkIsShown, Pending
<1>4. ASSUME NEW k \in Readers, ~Idles(k), reading[k].does = "publish"
      PROVE  reading[k].through <= seenThrough'
  <2>1. reading[k].through \in Nat
    BY <1>4, ReadingAssumption DEF ReadingInv, ReadingTypeOK, Reading, Idles
  <2> QED BY <1>1, <1>4, <2>1 DEF MarkIsShown
<1>5. receipt <= seenThrough' /\ handled \subseteq shown'
  BY <1>1, <1>2 DEF MarkIsShown
<1> QED BY <1>3, <1>4, <1>5 DEF MarkIsShown, Idles

\* If no step passes anything over, a message that the receipt covers and that did not come
\* behind the mark was shown (ReadWasShown): overlapping calls that publish, answer, drain,
\* leave and join cannot break that, only filtered looks and settling the unseen can.
THEOREM ReadsWereShown ==
  ReadingInit /\ [][ReadingNext /\ PassesNothing]_readingVars => []ReadWasShown
<1>1. ReadingInit => ReadingInv /\ MarkIsShown
  BY ReadingAssumption DEF ReadingInit, ReadingInv, ReadingTypeOK, Bounded, MarkIsShown, Idles
<1>2. ASSUME ReadingInv, MarkIsShown, [ReadingNext /\ PassesNothing]_readingVars
      PROVE  ReadingInv' /\ MarkIsShown'
  <2>1. ReadingInv'
    BY <1>2, ReadingInvNext
  <2> SUFFICES MarkIsShown'
    BY <2>1
  <2>2. CASE UNCHANGED readingVars
    BY <1>2, <2>2 DEF readingVars, MarkIsShown, Idles
  <2>3. CASE PassesNothing /\ OnInbox
    <3>1. ASSUME NEW m \in Letters, Arrive(m) PROVE MarkIsShown'
      BY <1>2, <3>1 DEF Arrive, MarkIsShown, Idles
    <3>2. ASSUME NEW query, LookInbox(query) PROVE MarkIsShown'
      BY <1>2, <2>3, <3>2, LooksShow DEF LookInbox
    <3>3. CASE WaitForThread
      BY <1>2, <2>3, <3>3, LooksShow DEF WaitForThread
    <3>4. CASE ForgetRoom \/ JoinAgain
      BY <1>2, <3>4 DEF ForgetRoom, JoinAgain, MarkIsShown, Idles
    <3>5. ASSUME NEW ids \in SUBSET Letters, Drain(ids) PROVE MarkIsShown'
      <4>1. handled' \subseteq shown'
        BY <1>2, <2>3, <3>5 DEF Drain, PassesNothing, MarkIsShown
      <4> QED BY <1>2, <3>5, <4>1 DEF Drain, MarkIsShown, Idles
    <3> QED BY <2>3, <3>1, <3>2, <3>3, <3>4, <3>5 DEF OnInbox
  <2>4. ASSUME PassesNothing, NEW k \in Readers, OnCall(k) PROVE MarkIsShown'
    <3>1. UNCHANGED <<arrived, seenThrough, shown, late>>
      BY <2>4 DEF OnCall, PublishReads, PublishWrites, CallEnds, AckBegins, AnswerBegins,
                  AnswerSent, AnswerSettles
    <3>2. handled' \subseteq shown'
      BY <1>2, <2>4, <3>1 DEF PassesNothing, MarkIsShown
    <3>3. receipt' <= seenThrough
      <4>1. CASE PublishWrites(k)
        BY <1>2, <4>1 DEF PublishWrites, MarkIsShown
      <4>2. CASE ~PublishWrites(k)
        BY <1>2, <2>4, <4>2 DEF OnCall, PublishReads, CallEnds, AckBegins, AnswerBegins,
                                AnswerSent, AnswerSettles, MarkIsShown
      <4> QED BY <4>1, <4>2
    <3>4. PICK to : Turns(k, to) /\ (to # NoReading /\ to.does = "publish"
                                      => to.through <= seenThrough)
      <4>1. CASE PublishReads(k)
        BY <1>2, <4>1, ReadingAssumption DEF PublishReads, ReadingInv, ReadingTypeOK
      <4>2. CASE PublishWrites(k) \/ CallEnds(k) \/ AnswerSettles(k)
        BY <4>2 DEF PublishWrites, CallEnds, AnswerSettles
      <4>3. ASSUME NEW m \in Letters, AckBegins(k, m)
            PROVE  \E to : Turns(k, to) /\ (to # NoReading => to.does # "publish")
        BY <4>3 DEF AckBegins
      <4>4. ASSUME NEW m \in Letters, NEW author \in Authors, AnswerBegins(k, m, author)
            PROVE  \E to : Turns(k, to) /\ (to # NoReading => to.does # "publish")
        BY <4>4 DEF AnswerBegins
      <4>5. CASE AnswerSent(k)
        <5>1. AfterSend(reading[k]).does # "publish"
          BY DEF AfterSend
        <5> QED BY <4>5, <5>1 DEF AnswerSent
      <4> QED BY <2>4, <4>1, <4>2, <4>3, <4>4, <4>5 DEF OnCall
    <3>5. ASSUME NEW j \in Readers, ~Idles(j)', reading'[j].does = "publish"
          PROVE  reading'[j].through <= seenThrough
      <4>1. CASE j = k
        <5>1. reading'[k] = to
          BY <1>2, <3>4 DEF Turns, ReadingInv
        <5> QED BY <3>4, <3>5, <4>1, <5>1 DEF Idles
      <4>2. CASE j # k
        <5>1. reading'[j] = reading[j]
          BY <1>2, <3>4, <4>2 DEF Turns, ReadingInv
        <5> QED BY <1>2, <3>5, <5>1 DEF Idles, MarkIsShown
      <4> QED BY <4>1, <4>2
    <3> QED BY <1>2, <3>1, <3>2, <3>3, <3>5 DEF MarkIsShown, Idles
  <2> QED BY <1>2, <2>2, <2>3, <2>4 DEF ReadingNext
<1>3. ReadingInv /\ MarkIsShown => ReadWasShown
  <2> SUFFICES ASSUME ReadingInv, MarkIsShown, NEW m \in arrived \ late, receipt >= m
               PROVE  m \in shown
    BY DEF ReadWasShown, TracedRead
  <2>1. m \in Nat /\ receipt \in Nat /\ seenThrough \in Nat
    BY ReadingAssumption DEF ReadingInv, ReadingTypeOK
  <2> QED BY <2>1 DEF MarkIsShown
<1> QED BY <1>1, <1>2, <1>3, PTL
-----------------------------------------------------------------------------
\* Watch.

\* What the watcher's way onward changes, and what it keeps.
LEMMA OnwardKeeps ==
  ASSUME WatchTypeOK, NEW w \in Watcher, NEW k \in Nat \ {0}
  PROVE  /\ Onward(w, k) \in Watcher
         /\ Onward(w, k).seen = w.seen /\ Onward(w, k).armed = w.armed
         /\ Onward(w, k).matched = w.matched /\ Onward(w, k).confirmed = w.confirmed
         /\ Onward(w, k).exit = w.exit
         /\ Onward(w, k).step \in {"resting", "pulling", "looking"}
         /\ Onward(w, k).step # "resting" =>
              /\ Onward(w, k).at = k /\ k \in 1..Len(option.scope)
              /\ Onward(w, k).health = "unread" /\ ~Onward(w, k).listed
<1>1. Len(option.scope) \in Nat
  BY WatchAssumption DEF WatchTypeOK, WatchOption
<1>2. CASE k > Len(option.scope)
  BY <1>2 DEF Onward, Watcher
<1>3. CASE ~(k > Len(option.scope))
  <2> DEFINE next == IF option.own THEN "pulling" ELSE "looking"
  <2>1. Onward(w, k) = [w EXCEPT !.step = next, !.at = k, !.health = "unread",
                                 !.listed = FALSE, !.items = {}]
    BY <1>3 DEF Onward
  <2>2. next \in {"pulling", "looking"} /\ k \in 1..Len(option.scope)
    BY <1>1, <1>3
  <2> HIDE DEF next
  <2>3. /\ Onward(w, k).seen = w.seen /\ Onward(w, k).armed = w.armed
        /\ Onward(w, k).matched = w.matched /\ Onward(w, k).confirmed = w.confirmed
        /\ Onward(w, k).exit = w.exit /\ Onward(w, k).step = next
        /\ Onward(w, k).at = k /\ Onward(w, k).health = "unread" /\ ~Onward(w, k).listed
    BY <2>1 DEF Watcher
  <2>4. Onward(w, k) \in Watcher
    BY <2>1, <2>2 DEF Watcher
  <2> QED BY <2>2, <2>3, <2>4
<1> QED
  BY <1>2, <1>3

\* What the catch of a poll changes: what was confirmed is not any more.
LEMMA FailedFields ==
  ASSUME NEW w \in Watcher
  PROVE  /\ Failed(w) \in Watcher /\ ~Failed(w).confirmed
         /\ Failed(w).seen = w.seen /\ Failed(w).armed = w.armed
         /\ Failed(w).matched = w.matched /\ Failed(w).exit = w.exit
BY DEF Failed, Watcher

\* Typing is preserved.
LEMMA WatchStepTyped ==
  ASSUME WatchTypeOK, [WatchNext]_watchVars
  PROVE  WatchTypeOK'
<1> USE DEF WatchTypeOK, mailVars, seenVars
<1>0. /\ watcher \in Watcher /\ watcher.at \in Nat /\ watcher.at + 1 \in Nat \ {0}
      /\ watcher.items \subseteq Posts /\ Hits(watcher) \subseteq Posts
  BY WatchAssumption DEF Watcher, Hits
<1>1. CASE UNCHANGED watchVars
  BY <1>1 DEF watchVars
<1>2. ASSUME NEW w \in Watcher, looked' \subseteq Posts, Looks(w)
      PROVE  due' \subseteq Posts /\ overtaken' \in BOOLEAN
  BY <1>2, WatchAssumption DEF Looks
<1>3. CASE PollBegins
  <2>1. watcher' \in Watcher
    BY <1>0, <1>3, OnwardKeeps DEF PollBegins
  <2> QED BY <1>2, <1>3, <2>1 DEF PollBegins
<1>4. CASE PollFails
  <2>1. watcher' \in Watcher
    BY <1>0, <1>4, OnwardKeeps, FailedFields DEF PollFails
  <2> QED BY <1>2, <1>4, <2>1 DEF PollFails
<1>5. CASE ReadHealth
  <2>1. watcher' \in Watcher
    BY <1>0, <1>5 DEF ReadHealth, Watcher
  <2> QED BY <1>5, <2>1 DEF ReadHealth
<1>6. ASSUME NEW answers \in BOOLEAN, ReadInbox(answers)
      PROVE  WatchTypeOK'
  <2>1. RoomsAround \subseteq Places /\ ThreadsAround \subseteq Posts
    BY DEF RoomsAround, ThreadsAround
  <2>2. watcher' \in Watcher
    BY <1>0, <1>6, <2>1, WatchAssumption DEF ReadInbox, Watcher
  <2> QED BY <1>6, <2>2 DEF ReadInbox
<1>7. CASE PollReports
  <2> DEFINE done == [watcher EXCEPT
                        !.confirmed = (watcher.health = "good"), !.armed = TRUE,
                        !.seen = @ \cup watcher.items,
                        !.matched = @
                        \/ (Hits(watcher) # {} /\ (watcher.armed \/ ~option.newOnly))]
  <2>1. done \in Watcher
    BY <1>0 DEF Watcher
  <2>2. watcher' = Onward(done, watcher.at + 1)
    BY <1>7 DEF PollReports
  <2> HIDE DEF done
  <2>3. watcher' \in Watcher
    BY <1>0, <2>1, <2>2, OnwardKeeps
  <2>4. /\ news' = (IF watcher.armed THEN news \cup Hits(watcher) ELSE news)
        /\ old' = (IF watcher.armed THEN old ELSE watcher.items)
        /\ UNCHANGED <<mailed, followed, heads, waiting, cleared, around, outage, pull, option,
           looked>>
        /\ Looks(watcher')
    BY <1>7 DEF PollReports
  <2> QED BY <1>0, <1>2, <2>3, <2>4
<1>8. CASE WaitEnds \/ TimesOut
  <2>1. watcher' \in Watcher
    <3>1. CASE WaitEnds
      BY <1>0, <3>1 DEF WaitEnds, Watcher
    <3>2. CASE TimesOut
      BY <1>0, <3>2 DEF TimesOut, Watcher
    <3> QED BY <1>8, <3>1, <3>2
  <2> QED BY <1>8, <2>1 DEF WaitEnds, TimesOut
<1>9. ASSUME NEW h \in Hosts, NEW mine \in BOOLEAN, SyncBegins(h, mine)
      PROVE  WatchTypeOK'
  <2>1. [NoPull EXCEPT !.step = "begun", !.mine = mine] \in Pull /\ NoPull \in Pull
    BY DEF NoPull, Pull
  <2> QED BY <1>9, <2>1 DEF SyncBegins
<1>10. NoPull \in Pull
  BY DEF NoPull, Pull
<1>11. ASSUME NEW h \in Hosts, SyncLooks(h)
       PROVE  WatchTypeOK'
  <2>1. pull[h] \in Pull
    OBVIOUS
  <2>2. \A S \in SUBSET Posts, L \in SUBSET Places :
          [[[pull[h] EXCEPT !.step = "delivering"] EXCEPT !.sees = S] EXCEPT !.left = L] \in Pull
    BY <2>1 DEF Pull
  <2>3. pull' \in [Hosts -> Pull]
    <3> DEFINE sees == {i \in mailed \cap PostsOf(h) : PlaceOf[i] \in followed}
               left == {p \in followed : HostOf[p] = h /\ PostsIn(p) \cap sees # heads[p]}
               looking == [[[pull[h] EXCEPT !.step = "delivering"] EXCEPT !.sees = sees] EXCEPT !.left = left]
    <3>1. sees \in SUBSET Posts /\ left \in SUBSET Places
      OBVIOUS
    <3>2. looking \in Pull
      BY <2>2, <3>1
    <3>3. pull' = [pull EXCEPT ![h] = looking]
      BY <1>11 DEF SyncLooks
    <3> HIDE DEF looking
    <3> QED BY <3>2, <3>3
  <2>4. around' \in [rooms: SUBSET Places, threads: SUBSET Posts]
    BY <1>11 DEF SyncLooks
  <2> QED BY <1>11, <2>3, <2>4 DEF SyncLooks
<1>12. ASSUME NEW h \in Hosts, NEW p \in Places, SyncRoom(h, p)
       PROVE  WatchTypeOK'
  <2>1. pull[h] \in Pull
    OBVIOUS
  <2>2. pull' \in [Hosts -> Pull]
    BY <1>12, <2>1 DEF SyncRoom, Pull, PostsIn
  <2>3. waiting' \subseteq ForMe /\ waiting' \cap cleared = {}
    BY <1>12 DEF SyncRoom
  <2> QED BY <1>12, <2>2, <2>3 DEF SyncRoom, PostsIn
<1>13. ASSUME NEW h \in Hosts, SyncSucceeds(h) \/ SyncFails(h)
       PROVE  WatchTypeOK'
  <2>1. /\ pull' \in [Hosts -> Pull] /\ outage' \in [Hosts -> BOOLEAN] /\ looked' \subseteq Posts
        /\ around' \in [rooms: SUBSET Places, threads: SUBSET Posts]
        /\ UNCHANGED <<mailed, followed, heads, waiting, cleared, option, old, news>>
    <3>1. pull[h] \in Pull /\ pull[h].sees \subseteq Posts /\ pull[h].starts \subseteq Posts
      BY DEF Pull
    <3>2. CASE SyncSucceeds(h)
      BY <1>10, <3>1, <3>2 DEF SyncSucceeds
    <3>3. CASE SyncFails(h)
      BY <1>10, <3>1, <3>3 DEF SyncFails
    <3> QED BY <1>13, <3>2, <3>3
  <2>2. CASE ~pull[h].mine
    BY <1>13, <2>1, <2>2 DEF SyncSucceeds, SyncFails, Returns
  <2>3. CASE pull[h].mine
    <3>1. watcher' \in Watcher
      <4>1. [watcher EXCEPT !.step = "looking"] \in Watcher
        BY <1>0 DEF Watcher
      <4> QED BY <1>0, <1>13, <2>3, <4>1, OnwardKeeps, FailedFields
          DEF SyncSucceeds, SyncFails, Returns
    <3>2. Looks(watcher')
      BY <1>13, <2>3 DEF SyncSucceeds, SyncFails, Returns
    <3> QED BY <1>2, <2>1, <3>1, <3>2
  <2> QED BY <2>2, <2>3
<1>14. ASSUME NEW i \in Posts, Mail(i) \/ DrainOne(i)
       PROVE  WatchTypeOK'
  BY <1>14 DEF Mail, DrainOne
<1>15. ASSUME NEW p \in Places, Follow(p) \/ Unfollow(p)
       PROVE  WatchTypeOK'
  BY <1>15 DEF Follow, Unfollow
<1>16. /\ \A k \in DOMAIN option.scope : option.scope[k] \in Hosts
       /\ option.posts \subseteq Posts /\ option.rooms \subseteq Places
  BY WatchAssumption DEF WatchOption
<1> QED
  BY <1>1, <1>3, <1>4, <1>5, <1>6, <1>7, <1>8, <1>9, <1>11, <1>12, <1>13, <1>14, <1>15, <1>16
     DEF WatchNext, Polling, Others, Pulling

-----------------------------------------------------------------------------
\* A pull of the watcher's own is one that it waits for; and it looks at a network of its scope.
PullsAreAwaited ==
  /\ watcher.step \in {"pulling", "looking"} => watcher.at \in 1..Len(option.scope)
  /\ \A h \in Hosts : pull[h].mine => watcher.step = "pulling" /\ Current = h

\* What a sync has seen is in rooms that are followed, and stays there while it runs; a room
\* that it has left behind holds all of it.  What completed syncs have seen, it has seen too.
SyncsSeeAll ==
  /\ \A i \in looked : i \in mailed /\ PlaceOf[i] \in followed
  /\ \A h \in Hosts :
       IF pull[h].step = "delivering"
       THEN /\ \A i \in pull[h].sees :
                 /\ i \in mailed /\ PlaceOf[i] \in followed /\ HostOfPost(i) = h
                 /\ PlaceOf[i] \in pull[h].left \/ i \in heads[PlaceOf[i]]
            /\ \A p \in pull[h].left : HostOf[p] = h
            /\ looked \cap PostsOf(h) \subseteq pull[h].sees
       ELSE pull[h].sees = {}

\* A network in good health has delivered all that completed syncs have seen.
DeliveredIn(S) == S \cap ForMe \subseteq waiting \cup cleared

HeadsAreDelivered == \A p \in Places : heads[p] \subseteq PostsIn(p) /\ DeliveredIn(heads[p])

HealthyHaveDelivered == \A h \in Hosts : ~outage[h] => DeliveredIn(looked \cap PostsOf(h))

SyncInv == PullsAreAwaited /\ SyncsSeeAll /\ HeadsAreDelivered /\ HealthyHaveDelivered

\* What the poll owes is what was looked at; once it has read both, in whichever order, and no
\* sync came between, what it has listed is all of it.
DueIsLookedAt ==
  /\ due \subseteq looked \cap Wanted
  /\ watcher.step = "looking" => due \subseteq PostsOf(Current)

ListedIsDue ==
  /\ watcher.step = "pulling" => watcher.health = "unread" /\ ~watcher.listed
  /\ watcher.step = "looking" =>
       /\ watcher.health = "good" /\ ~watcher.listed => due \subseteq waiting \cup cleared
       /\ watcher.listed /\ ~overtaken /\ (watcher.health = "good" \/ ~outage[Current])
          => due \subseteq watcher.items \cup cleared

\* What it armed on, it has seen; what it has seen since, and not announced, is nothing.
SeenIsTold ==
  /\ ~watcher.armed => news = {} /\ old = {} /\ watcher.seen = {}
  /\ old \subseteq watcher.seen
  /\ ~watcher.matched => watcher.seen \cap Wanted \subseteq old

\* Between polls, what was confirmed is so.
RestIsChecked ==
  /\ watcher.step \in {"resting", "done"} /\ watcher.confirmed /\ ~watcher.matched /\ ~overtaken
     => due \subseteq cleared \cup old
  /\ watcher.exit = 3 => watcher.step = "done" /\ watcher.confirmed /\ ~watcher.matched

PollInv == DueIsLookedAt /\ ListedIsDue /\ SeenIsTold /\ RestIsChecked /\ PendingIsNotNews

\* The watcher's own steps are taken while no pull of its own runs.
LEMMA PollingKeepsSyncs ==
  ASSUME WatchTypeOK, SyncInv, Polling
  PROVE  SyncInv'
<1> USE DEF mailVars, seenVars
<1>1. watcher \in Watcher /\ watcher.at \in Nat /\ watcher.at + 1 \in Nat \ {0}
  BY DEF WatchTypeOK, Watcher
<1>2. UNCHANGED <<mailed, followed, heads, waiting, cleared, outage, pull, looked, option>>
  BY DEF Polling, PollBegins, PollFails, ReadHealth, PollReports, WaitEnds, TimesOut, ReadInbox
<1>3. \A h \in Hosts : ~pull[h].mine
  BY DEF SyncInv, PullsAreAwaited, Polling, PollBegins, PollFails, ReadHealth, PollReports,
     WaitEnds, TimesOut, ReadInbox
<1>4. watcher'.step \in {"pulling", "looking"} => watcher'.at \in 1..Len(option.scope)
  <2>1. ASSUME NEW w \in Watcher, NEW k \in Nat \ {0}, watcher' = Onward(w, k)
        PROVE  watcher'.step \in {"pulling", "looking"} => watcher'.at \in 1..Len(option.scope)
    <3>1. Onward(w, k).step # "resting" => Onward(w, k).at = k /\ k \in 1..Len(option.scope)
      BY OnwardKeeps
    <3> QED BY <2>1, <3>1
  <2>2. CASE PollBegins
    <3>1. 1 \in Nat \ {0} /\ watcher' = Onward(watcher, 1)
      BY <2>2 DEF PollBegins
    <3> QED BY <1>1, <2>1, <3>1
  <2>3. CASE PollFails
    <3>1. watcher' = Onward(Failed(watcher), watcher.at + 1)
      BY <2>3 DEF PollFails
    <3>2. Failed(watcher) \in Watcher
      BY <1>1, FailedFields
    <3> QED BY <1>1, <2>1, <3>1, <3>2
  <2>4. CASE PollReports
    <3> DEFINE done == [watcher EXCEPT
                          !.confirmed = (watcher.health = "good"), !.armed = TRUE,
                          !.seen = @ \cup watcher.items,
                          !.matched = @
                          \/ (Hits(watcher) # {} /\ (watcher.armed \/ ~option.newOnly))]
    <3>1. done \in Watcher
      BY <1>1 DEF Watcher
    <3>2. watcher' = Onward(done, watcher.at + 1)
      BY <2>4 DEF PollReports
    <3> HIDE DEF done
    <3> QED BY <1>1, <2>1, <3>1, <3>2
  <2>5. CASE ReadHealth \/ \E answers \in BOOLEAN : ReadInbox(answers)
    <3>1. watcher'.step = watcher.step /\ watcher'.at = watcher.at
      BY <1>1, <2>5 DEF ReadHealth, ReadInbox, Watcher
    <3> QED BY <3>1 DEF SyncInv, PullsAreAwaited
  <2>6. CASE WaitEnds \/ TimesOut
    BY <1>1, <2>6 DEF WaitEnds, TimesOut, Watcher
  <2> QED BY <2>2, <2>3, <2>4, <2>5, <2>6 DEF Polling
<1> USE DEF WatchTypeOK
<1>5. PullsAreAwaited'
  BY <1>2, <1>3, <1>4 DEF PullsAreAwaited
<1>6. SyncsSeeAll' /\ HeadsAreDelivered' /\ HealthyHaveDelivered'
  BY <1>2 DEF SyncInv, SyncsSeeAll, HeadsAreDelivered, HealthyHaveDelivered, DeliveredIn
<1> QED
  BY <1>5, <1>6 DEF SyncInv

\* Mail arrives unseen; what is drained is cleared; and who leaves a room forgets all of it.
LEMMA OthersKeepSyncs ==
  ASSUME WatchTypeOK, SyncInv,
         NEW i, NEW p,
         (i \in Posts /\ (Mail(i) \/ DrainOne(i))) \/ (p \in Places /\ (Follow(p) \/ Unfollow(p)))
  PROVE  SyncInv'
<1> USE DEF WatchTypeOK, mailVars, seenVars, SyncInv, PostsIn, PostsOf, HostOfPost, DeliveredIn
<1>1. UNCHANGED <<pull, outage, option, watcher>>
  BY DEF Mail, DrainOne, Follow, Unfollow
<1>2. PullsAreAwaited'
  BY <1>1 DEF PullsAreAwaited, Current
<1>3. CASE Mail(i)
  BY <1>1, <1>2, <1>3 DEF Mail, SyncsSeeAll, HeadsAreDelivered, HealthyHaveDelivered
<1>4. CASE DrainOne(i)
  BY <1>1, <1>2, <1>4 DEF DrainOne, SyncsSeeAll, HeadsAreDelivered, HealthyHaveDelivered
<1>5. CASE Follow(p)
  BY <1>1, <1>2, <1>5 DEF Follow, SyncsSeeAll, HeadsAreDelivered, HealthyHaveDelivered
<1>6. CASE Unfollow(p)
  <2>1. /\ \A r \in Places \ {p} : heads'[r] = heads[r]
        /\ heads'[p] = {} /\ looked' = looked \ PostsIn(p) /\ followed' = followed \ {p}
        /\ waiting' = waiting \ PostsIn(p) /\ cleared' = cleared \ PostsIn(p)
        /\ mailed' = mailed /\ pull[HostOf[p]].step = "idle"
    BY <1>6 DEF Unfollow
  <2>2. SyncsSeeAll'
    BY <1>1, <2>1, WatchAssumption DEF SyncsSeeAll
  <2>3. HeadsAreDelivered' /\ HealthyHaveDelivered'
    BY <1>1, <2>1, WatchAssumption DEF HeadsAreDelivered, HealthyHaveDelivered
  <2> QED BY <1>2, <2>2, <2>3
<1> QED
  BY <1>3, <1>4, <1>5, <1>6

\* A sync that completes has delivered what it saw in all rooms, and nobody joins or leaves a
\* room of its network meanwhile; one that fails leaves the network in bad health.
LEMMA PullingKeepsSyncs ==
  ASSUME WatchTypeOK, SyncInv, NEW h \in Hosts, Pulling(h)
  PROVE  SyncInv'
<1> USE DEF WatchTypeOK, mailVars, seenVars, SyncInv, PostsIn, PostsOf, HostOfPost, DeliveredIn
<1>0. /\ watcher \in Watcher /\ watcher.at \in Nat /\ watcher.at + 1 \in Nat \ {0}
      /\ pull[h] \in Pull
  BY DEF Watcher
<1>1. ASSUME NEW mine \in BOOLEAN, SyncBegins(h, mine)
      PROVE  SyncInv'
  <2>1. /\ \A g \in Hosts \ {h} : pull'[g] = pull[g]
        /\ pull'[h].step = "begun" /\ pull'[h].sees = {} /\ pull'[h].mine = mine
        /\ mine => watcher.step = "pulling" /\ Current = h
        /\ UNCHANGED <<mailed, followed, heads, waiting, cleared, outage, looked, option, watcher>>
    BY <1>1 DEF SyncBegins, NoPull
  <2>2. PullsAreAwaited'
    BY <2>1 DEF PullsAreAwaited, Current
  <2>3. SyncsSeeAll' /\ HeadsAreDelivered' /\ HealthyHaveDelivered'
    BY <2>1 DEF SyncsSeeAll, HeadsAreDelivered, HealthyHaveDelivered
  <2> QED BY <2>2, <2>3
<1>2. CASE SyncLooks(h)
  <2> DEFINE sees == {i \in mailed \cap PostsOf(h) : PlaceOf[i] \in followed}
  <2>1. /\ \A g \in Hosts \ {h} : pull'[g] = pull[g]
        /\ pull'[h].step = "delivering" /\ pull'[h].sees = sees /\ pull'[h].mine = pull[h].mine
        /\ pull'[h].left = {p \in followed : HostOf[p] = h /\ PostsIn(p) \cap sees # heads[p]}
        /\ UNCHANGED <<mailed, followed, heads, waiting, cleared, outage, looked, option, watcher>>
    BY <1>0, <1>2 DEF SyncLooks, Pull
  <2>2. PullsAreAwaited'
    BY <2>1 DEF PullsAreAwaited, Current
  <2>3. SyncsSeeAll'
    BY <2>1, WatchAssumption DEF SyncsSeeAll
  <2>4. HeadsAreDelivered' /\ HealthyHaveDelivered'
    BY <2>1 DEF HeadsAreDelivered, HealthyHaveDelivered
  <2> QED BY <2>2, <2>3, <2>4
<1>3. ASSUME NEW p \in Places, SyncRoom(h, p)
      PROVE  SyncInv'
  <2> DEFINE here == pull[h].sees \cap PostsIn(p)
  <2>1. /\ \A g \in Hosts \ {h} : pull'[g] = pull[g]
        /\ pull'[h].step = "delivering" /\ pull'[h].sees = pull[h].sees
           /\ pull'[h].mine = pull[h].mine
        /\ pull'[h].left = pull[h].left \ {p} /\ pull[h].step = "delivering"
        /\ UNCHANGED <<mailed, followed, cleared, outage, looked, option, watcher>>
        /\ \A r \in Places \ {p} : heads'[r] = heads[r]
        /\ heads'[p] = here
        /\ waiting' = waiting \cup (((here \ heads[p]) \cap ForMe) \ cleared)
    BY <1>0, <1>3 DEF SyncRoom, Pull
  <2>2. PullsAreAwaited'
    BY <2>1 DEF PullsAreAwaited, Current
  <2>3. SyncsSeeAll'
    <3>1. /\ HostOf[p] = h
          /\ \A g \in Hosts \ {h} : pull[g].step = "delivering" =>
               \A i \in pull[g].sees : PlaceOf[i] # p
      BY <1>3 DEF SyncsSeeAll, SyncRoom
    <3>2. pull[h].sees \subseteq Posts
      BY <1>0 DEF Pull
    <3>3. \A i \in pull[h].sees : PlaceOf[i] \in pull'[h].left \/ i \in heads'[PlaceOf[i]]
      BY <2>1, <3>2, WatchAssumption DEF SyncsSeeAll
    <3>4. \A g \in Hosts \ {h} : pull[g].step = "delivering" =>
             \A i \in pull[g].sees : heads'[PlaceOf[i]] = heads[PlaceOf[i]]
      <4>1. \A g \in Hosts : pull[g].sees \subseteq Posts
        BY DEF Pull
      <4> QED BY <2>1, <3>1, <4>1, WatchAssumption
    <3> QED BY <2>1, <3>3, <3>4 DEF SyncsSeeAll
  <2>4. HeadsAreDelivered' /\ HealthyHaveDelivered'
    BY <2>1 DEF HeadsAreDelivered, HealthyHaveDelivered
  <2> QED BY <2>2, <2>3, <2>4
<1>4. ASSUME SyncSucceeds(h) \/ SyncFails(h)
      PROVE  SyncInv'
  <2>1. /\ \A g \in Hosts \ {h} : pull'[g] = pull[g] /\ outage'[g] = outage[g]
        /\ pull'[h] = NoPull /\ looked' = looked \cup pull[h].sees
        /\ UNCHANGED <<mailed, followed, heads, waiting, cleared, option>>
    BY <1>4 DEF SyncSucceeds, SyncFails
  <2>2. PullsAreAwaited'
    <3>1. \A g \in Hosts : pull'[g].mine => pull[g].mine /\ g # h
      BY <2>1 DEF NoPull
    <3>2. CASE pull[h].mine
      <4>1. \A g \in Hosts : ~pull'[g].mine
        BY <3>1, <3>2 DEF PullsAreAwaited
      <4>2. watcher'.step \in {"pulling", "looking"} => watcher'.at \in 1..Len(option.scope)
        <5>1. CASE SyncSucceeds(h)
          BY <1>0, <3>2, <5>1 DEF SyncSucceeds, Returns, PullsAreAwaited, Watcher
        <5>2. CASE SyncFails(h)
          BY <1>0, <3>2, <5>2, OnwardKeeps, FailedFields DEF SyncFails, Returns
        <5> QED BY <1>4, <5>1, <5>2
      <4> QED BY <2>1, <4>1, <4>2 DEF PullsAreAwaited
    <3>3. CASE ~pull[h].mine
      <4>1. UNCHANGED watcher
        BY <1>4, <3>3 DEF SyncSucceeds, SyncFails, Returns
      <4> QED BY <2>1, <3>1, <4>1 DEF PullsAreAwaited, Current
    <3> QED BY <3>2, <3>3
  <2>3. pull[h].sees \subseteq Posts /\ \A i \in pull[h].sees : i \in mailed
        /\ PlaceOf[i] \in followed /\ HostOfPost(i) = h
    BY <1>0, WatchAssumption DEF SyncsSeeAll, Pull
  <2>4. SyncsSeeAll'
    <3>1. \A g \in Hosts \ {h} : looked' \cap PostsOf(g) = looked \cap PostsOf(g)
      BY <2>1, <2>3
    <3> QED BY <2>1, <2>3, <3>1 DEF SyncsSeeAll, NoPull
  <2>5. HeadsAreDelivered'
    BY <2>1 DEF HeadsAreDelivered
  <2>6. HealthyHaveDelivered'
    <3>1. \A g \in Hosts \ {h} : looked' \cap PostsOf(g) = looked \cap PostsOf(g)
      BY <2>1, <2>3
    <3>2. CASE SyncFails(h)
      <4>1. outage'[h] = TRUE
        BY <3>2 DEF SyncFails
      <4> QED BY <2>1, <3>1, <4>1 DEF HealthyHaveDelivered
    <3>3. CASE SyncSucceeds(h)
      <4>1. pull[h].step = "delivering" /\ pull[h].left = {}
        BY <3>3 DEF SyncSucceeds
      <4>2. \A i \in pull[h].sees : i \in heads[PlaceOf[i]]
        BY <4>1 DEF SyncsSeeAll
      <4>3. DeliveredIn(pull[h].sees)
        BY <2>3, <4>2, WatchAssumption DEF HeadsAreDelivered
      <4>4. looked' \cap PostsOf(h) \subseteq pull[h].sees
        BY <2>1, <4>1 DEF SyncsSeeAll
      <4> QED BY <2>1, <3>1, <4>3, <4>4 DEF HealthyHaveDelivered
    <3> QED BY <1>4, <3>2, <3>3
  <2> QED BY <2>2, <2>4, <2>5, <2>6
<1> QED
  BY <1>1, <1>2, <1>3, <1>4 DEF Pulling

\* Going on to a network makes due what was looked at there, and nothing has been read of it.
LEMMA GoingOnIsDue ==
  ASSUME WatchTypeOK, DueIsLookedAt, NEW w \in Watcher, NEW k \in Nat \ {0},
         watcher' = Onward(w, k), Looks(watcher'), looked \subseteq looked', option' = option
  PROVE  DueIsLookedAt' /\ ListedIsDue'
<1>1. /\ watcher'.step \in {"resting", "pulling", "looking"}
      /\ watcher'.step # "resting" => watcher'.health = "unread" /\ ~watcher'.listed
  BY OnwardKeeps
<1>2. ListedIsDue'
  BY <1>1 DEF ListedIsDue
<1>3. CASE watcher'.step = "looking"
  BY <1>2, <1>3 DEF Looks, DueIsLookedAt, Current
<1>4. CASE watcher'.step # "looking"
  BY <1>2, <1>4 DEF Looks, DueIsLookedAt
<1> QED
  BY <1>3, <1>4

\* Whichever of health and inbox is answered first, the later answer completes the argument.
LEMMA PollingKeepsPolls ==
  ASSUME WatchTypeOK, SyncInv, PollInv, Polling
  PROVE  PollInv'
<1> USE DEF PollInv
<1>1. /\ watcher \in Watcher /\ watcher.at \in Nat /\ watcher.at + 1 \in Nat \ {0}
      /\ 1 \in Nat \ {0}
      /\ Len(option.scope) >= 1 /\ Wanted \subseteq ForMe
  BY WatchAssumption DEF WatchTypeOK, Watcher, WatchOption
<1>2. watcher.step \in {"pulling", "looking"} => Current \in Hosts
  BY WatchAssumption DEF WatchTypeOK, WatchOption, Current, SyncInv, PullsAreAwaited
<1>3. CASE PollBegins
  <2>1. /\ watcher' = Onward(watcher, 1) /\ Looks(watcher')
        /\ UNCHANGED <<mailVars, outage, pull, looked, option, old, news>>
        /\ watcher.step \in {"arming", "resting"}
    BY <1>3 DEF PollBegins
  <2>2. /\ watcher'.seen = watcher.seen /\ watcher'.armed = watcher.armed
        /\ watcher'.matched = watcher.matched /\ watcher'.exit = watcher.exit
        /\ watcher'.step \in {"pulling", "looking"}
    <3>1. /\ Onward(watcher, 1).step \in {"pulling", "looking"}
      <4>1. ~(1 > Len(option.scope))
        BY <1>1 DEF WatchTypeOK, WatchOption
      <4> QED BY <1>1, <4>1 DEF Onward, Watcher
    <3> QED BY <1>1, <2>1, <3>1, OnwardKeeps
  <2>3. DueIsLookedAt' /\ ListedIsDue'
    BY <1>1, <2>1, GoingOnIsDue
  <2>4. SeenIsTold' /\ PendingIsNotNews' /\ RestIsChecked'
    BY <2>1, <2>2 DEF SeenIsTold, PendingIsNotNews, RestIsChecked
  <2> QED BY <2>3, <2>4
<1>4. CASE PollFails
  <2> DEFINE next == watcher.at + 1
             w == Failed(watcher)
  <2>1. /\ watcher' = Onward(w, next) /\ Looks(watcher')
        /\ UNCHANGED <<mailVars, outage, pull, looked, option, old, news>>
        /\ watcher.step \in {"looking", "pulling"}
    BY <1>4 DEF PollFails
  <2>2. /\ w \in Watcher /\ ~w.confirmed /\ w.seen = watcher.seen /\ w.armed = watcher.armed
        /\ w.matched = watcher.matched /\ w.exit = watcher.exit /\ next \in Nat \ {0}
    BY <1>1, FailedFields
  <2> HIDE DEF w, next
  <2>3. /\ watcher'.seen = watcher.seen /\ watcher'.armed = watcher.armed
        /\ watcher'.matched = watcher.matched /\ watcher'.exit = watcher.exit
        /\ ~watcher'.confirmed
    BY <2>1, <2>2, OnwardKeeps
  <2>4. DueIsLookedAt' /\ ListedIsDue'
    BY <2>1, <2>2, GoingOnIsDue
  <2>5. SeenIsTold' /\ PendingIsNotNews' /\ RestIsChecked'
    BY <2>1, <2>3 DEF SeenIsTold, PendingIsNotNews, RestIsChecked
  <2> QED BY <2>4, <2>5
<1>5. CASE ReadHealth
  <2>1. /\ watcher' = [watcher EXCEPT !.health = IF outage[Current] THEN "degraded" ELSE "good"]
        /\ UNCHANGED <<mailVars, outage, pull, looked, option, seenVars>>
           /\ watcher.step = "looking"
    BY <1>5 DEF ReadHealth
  <2>2. /\ watcher'.step = "looking" /\ watcher'.at = watcher.at /\ watcher'.items = watcher.items
        /\ watcher'.listed = watcher.listed /\ watcher'.health = "good" => ~outage[Current]
        /\ watcher'.seen = watcher.seen /\ watcher'.armed = watcher.armed
        /\ watcher'.matched = watcher.matched /\ watcher'.exit = watcher.exit
    BY <1>1, <2>1 DEF Watcher
  <2>3. ~outage[Current] => due \subseteq waiting \cup cleared
    BY <1>1, <1>2, <2>1 DEF SyncInv, HealthyHaveDelivered, DeliveredIn, DueIsLookedAt
  <2>4. Current' = Current
    BY <2>1, <2>2 DEF Current
  <2>5. DueIsLookedAt' /\ ListedIsDue'
    BY <2>1, <2>2, <2>3, <2>4 DEF DueIsLookedAt, ListedIsDue, mailVars, seenVars
  <2>6. SeenIsTold' /\ PendingIsNotNews' /\ RestIsChecked'
    BY <2>1, <2>2 DEF SeenIsTold, PendingIsNotNews, RestIsChecked, seenVars
  <2> QED BY <2>5, <2>6
<1>6. ASSUME NEW answers \in BOOLEAN, ReadInbox(answers)
      PROVE  PollInv'
  <2>1. /\ watcher' = [watcher EXCEPT
                         !.listed = TRUE, !.items = waiting \cap PostsOf(Current),
                         !.toldRooms = IF answers THEN @ \cup RoomsAround ELSE @,
                         !.toldThreads = IF answers THEN @ \cup ThreadsAround ELSE @]
        /\ UNCHANGED <<mailVars, outage, pull, looked, option, seenVars>>
        /\ watcher.step = "looking" /\ ~watcher.listed
    BY <1>6 DEF ReadInbox
  <2>2. /\ watcher'.step = "looking" /\ watcher'.at = watcher.at
        /\ watcher'.items = waiting \cap PostsOf(Current)
        /\ watcher'.listed /\ watcher'.health = watcher.health
        /\ watcher'.seen = watcher.seen /\ watcher'.armed = watcher.armed
        /\ watcher'.matched = watcher.matched /\ watcher'.exit = watcher.exit
    BY <1>1, <2>1 DEF Watcher
  <2>3. ~outage[Current] => due \subseteq waiting \cup cleared
    BY <1>1, <1>2, <2>1 DEF SyncInv, HealthyHaveDelivered, DeliveredIn, DueIsLookedAt
  <2>4. Current' = Current /\ due \subseteq PostsOf(Current)
    BY <2>1, <2>2 DEF Current, DueIsLookedAt
  <2>5. DueIsLookedAt' /\ ListedIsDue'
    BY <2>1, <2>2, <2>3, <2>4 DEF DueIsLookedAt, ListedIsDue, mailVars, seenVars
  <2>6. SeenIsTold' /\ PendingIsNotNews' /\ RestIsChecked'
    BY <2>1, <2>2 DEF SeenIsTold, PendingIsNotNews, RestIsChecked, seenVars
  <2> QED BY <2>5, <2>6
<1>7. CASE PollReports
  <2> DEFINE next == watcher.at + 1
             done == [watcher EXCEPT
                        !.confirmed = (watcher.health = "good"), !.armed = TRUE,
                        !.seen = @ \cup watcher.items,
                        !.matched = @
                        \/ (Hits(watcher) # {} /\ (watcher.armed \/ ~option.newOnly))]
  <2>1. /\ watcher' = Onward(done, next) /\ Looks(watcher')
        /\ news' = (IF watcher.armed THEN news \cup Hits(watcher) ELSE news)
        /\ old' = (IF watcher.armed THEN old ELSE watcher.items)
        /\ UNCHANGED <<mailVars, outage, pull, looked, option>>
        /\ watcher.step = "looking" /\ watcher.listed
    BY <1>7 DEF PollReports
  <2>2. /\ done \in Watcher /\ next \in Nat \ {0}
        /\ done.confirmed = (watcher.health = "good") /\ done.armed
        /\ done.seen = watcher.seen \cup watcher.items
        /\ done.exit = watcher.exit
        /\ ~done.matched => ~watcher.matched /\ (watcher.armed => Hits(watcher) = {})
    BY <1>1 DEF Watcher
  <2> HIDE DEF next, done
  <2>3. /\ watcher'.confirmed = (watcher.health = "good") /\ watcher'.armed
        /\ watcher'.seen = watcher.seen \cup watcher.items
        /\ watcher'.exit = watcher.exit
        /\ ~watcher'.matched => ~watcher.matched /\ (watcher.armed => Hits(watcher) = {})
        /\ watcher'.step \in {"resting", "pulling", "looking"}
    BY <2>1, <2>2, OnwardKeeps
  <2>4. DueIsLookedAt' /\ ListedIsDue'
    BY <2>1, <2>2, GoingOnIsDue
  <2>5. SeenIsTold' /\ PendingIsNotNews'
    BY <2>1, <2>3 DEF SeenIsTold, PendingIsNotNews, Hits
  <2>6. RestIsChecked'
    <3>1. watcher'.exit # 3
      BY <2>1, <2>3 DEF RestIsChecked
    <3>2. ASSUME watcher'.step = "resting", watcher'.confirmed, ~watcher'.matched, ~overtaken'
          PROVE  due' \subseteq cleared' \cup old'
      <4>1. UNCHANGED <<due, overtaken, cleared>>
        BY <2>1, <3>2 DEF Looks, mailVars
      <4>2. due \subseteq watcher.items \cup cleared /\ due \subseteq Wanted
        BY <2>1, <2>3, <3>2, <4>1 DEF ListedIsDue, DueIsLookedAt
      <4>3. watcher'.seen \cap Wanted \subseteq old'
        BY <2>5, <3>2 DEF SeenIsTold
      <4> QED BY <2>3, <4>1, <4>2, <4>3
    <3> QED BY <2>3, <3>1, <3>2 DEF RestIsChecked
  <2> QED BY <2>4, <2>5, <2>6
<1>8. CASE WaitEnds \/ TimesOut
  <2>1. /\ watcher.step = "resting" /\ UNCHANGED <<mailVars, outage, pull, looked, option,
           seenVars>>
        /\ watcher'.step = "done" /\ watcher'.confirmed = watcher.confirmed
        /\ watcher'.seen = watcher.seen /\ watcher'.armed = watcher.armed
        /\ watcher'.matched = watcher.matched
        /\ watcher'.exit = 3 => watcher'.confirmed /\ ~watcher'.matched
    <3>1. CASE WaitEnds
      BY <1>1, <3>1 DEF WaitEnds, Watcher, RestIsChecked
    <3>2. CASE TimesOut
      BY <1>1, <3>2 DEF TimesOut, Watcher, RestIsChecked
    <3> QED BY <1>8, <3>1, <3>2
  <2> QED
    BY <2>1 DEF DueIsLookedAt, ListedIsDue, SeenIsTold, PendingIsNotNews, RestIsChecked, seenVars,
       mailVars
<1> QED
  BY <1>3, <1>4, <1>5, <1>6, <1>7, <1>8 DEF Polling


\* Commands only move what is due to what was cleared, or leave its room.
LEMMA OthersKeepPolls ==
  ASSUME WatchTypeOK, SyncInv, PollInv,
         NEW i, NEW p,
         (i \in Posts /\ (Mail(i) \/ DrainOne(i))) \/ (p \in Places /\ (Follow(p) \/ Unfollow(p)))
  PROVE  PollInv'
<1> USE DEF PollInv
<1>1. UNCHANGED <<outage, option, watcher, overtaken, old, news>> /\ Current' = Current
  BY DEF Mail, DrainOne, Follow, Unfollow, seenVars, Current
<1>2. \A x \in waiting \cup cleared : x \in waiting' \cup cleared' \/ x \notin due'
  BY DEF Mail, DrainOne, Follow, Unfollow, seenVars
<1>3. /\ due' \subseteq due /\ \A x \in due' : x \in looked => x \in looked'
      /\ \A x \in due' : x \in cleared => x \in cleared'
  BY DEF Mail, DrainOne, Follow, Unfollow, seenVars
<1>4. DueIsLookedAt' /\ ListedIsDue'
  BY <1>1, <1>2, <1>3 DEF DueIsLookedAt, ListedIsDue, PostsOf
<1>5. SeenIsTold' /\ PendingIsNotNews' /\ RestIsChecked'
  BY <1>1, <1>3 DEF SeenIsTold, PendingIsNotNews, RestIsChecked
<1> QED
  BY <1>4, <1>5

\* A sync that restores the health of the network between the two answers is what overtaken
\* stands for.
LEMMA PullingKeepsPolls ==
  ASSUME WatchTypeOK, SyncInv, PollInv, NEW h \in Hosts, Pulling(h)
  PROVE  PollInv'
<1> USE DEF PollInv
<1>1. watcher \in Watcher /\ watcher.at \in Nat /\ watcher.at + 1 \in Nat \ {0}
  BY DEF WatchTypeOK, Watcher
<1>2. watcher.step \in {"pulling", "looking"} => Current \in Hosts
  BY WatchAssumption DEF WatchTypeOK, WatchOption, Current, SyncInv, PullsAreAwaited
<1>3. CASE UNCHANGED <<looked, cleared, outage, option, watcher, seenVars>>
           /\ waiting \subseteq waiting'
  BY <1>3 DEF DueIsLookedAt, ListedIsDue, SeenIsTold, PendingIsNotNews, RestIsChecked, seenVars,
     Current
<1>4. ASSUME SyncSucceeds(h) \/ SyncFails(h), ~pull[h].mine
      PROVE  PollInv'
  <2>1. /\ looked \subseteq looked' /\ \A g \in Hosts \ {h} : outage'[g] = outage[g]
        /\ UNCHANGED <<waiting, cleared, option, watcher, due, old, news>> /\ Current' = Current
    <3>1. CASE SyncSucceeds(h)
      BY <1>4, <3>1 DEF SyncSucceeds, Returns, Current
    <3>2. CASE SyncFails(h)
      BY <1>4, <3>2 DEF SyncFails, Returns, mailVars, Current
    <3> QED BY <1>4, <3>1, <3>2
  <2>2. overtaken => overtaken'
    BY <1>4 DEF SyncSucceeds, SyncFails, WatchTypeOK
  <2>3. watcher.step = "looking" /\ watcher.listed /\ Current = h => overtaken' \/ outage'[h]
    BY <1>4 DEF SyncSucceeds, SyncFails, WatchTypeOK
  <2>4. ListedIsDue'
    BY <1>2, <2>1, <2>2, <2>3 DEF ListedIsDue
  <2> QED BY <2>1, <2>2, <2>4
      DEF DueIsLookedAt, SeenIsTold, PendingIsNotNews, RestIsChecked, PostsOf
<1>5. ASSUME SyncSucceeds(h), pull[h].mine
      PROVE  PollInv'
  <2>1. /\ watcher' = [watcher EXCEPT !.step = "looking"] /\ Looks(watcher')
        /\ looked \subseteq looked' /\ watcher.step = "pulling"
        /\ UNCHANGED <<waiting, cleared, option, old, news>>
    BY <1>5 DEF SyncSucceeds, Returns, SyncInv, PullsAreAwaited
  <2>2. /\ watcher'.step = "looking" /\ watcher'.health = "unread" /\ ~watcher'.listed
        /\ watcher'.seen = watcher.seen /\ watcher'.armed = watcher.armed
        /\ watcher'.matched = watcher.matched /\ watcher'.exit # 3
    BY <1>1, <2>1 DEF Watcher, ListedIsDue, RestIsChecked
  <2>3. due' = looked' \cap Wanted \cap PostsOf(Current')
    BY <2>1, <2>2 DEF Looks, Current
  <2> QED BY <2>1, <2>2, <2>3
     DEF DueIsLookedAt, ListedIsDue, SeenIsTold, PendingIsNotNews, RestIsChecked, PostsOf,
     HostOfPost
<1>6. ASSUME SyncFails(h), pull[h].mine
      PROVE  PollInv'
  <2> DEFINE next == watcher.at + 1
             w == Failed(watcher)
  <2>1. /\ watcher' = Onward(w, next) /\ Looks(watcher')
        /\ looked \subseteq looked' /\ watcher.step = "pulling"
        /\ UNCHANGED <<waiting, cleared, option, old, news>>
    BY <1>6 DEF SyncFails, Returns, SyncInv, PullsAreAwaited, mailVars
  <2>2. /\ w \in Watcher /\ ~w.confirmed /\ w.seen = watcher.seen /\ w.armed = watcher.armed
        /\ w.matched = watcher.matched /\ w.exit = watcher.exit /\ next \in Nat \ {0}
    BY <1>1, FailedFields
  <2> HIDE DEF w, next
  <2>3. /\ watcher'.seen = watcher.seen /\ watcher'.armed = watcher.armed
        /\ watcher'.matched = watcher.matched /\ watcher'.exit = watcher.exit
        /\ ~watcher'.confirmed
    BY <2>1, <2>2, OnwardKeeps
  <2>4. DueIsLookedAt' /\ ListedIsDue'
    BY <2>1, <2>2, GoingOnIsDue
  <2>5. SeenIsTold' /\ PendingIsNotNews' /\ RestIsChecked'
    BY <2>1, <2>3 DEF SeenIsTold, PendingIsNotNews, RestIsChecked
  <2> QED BY <2>4, <2>5
<1>7. (\E mine \in BOOLEAN : SyncBegins(h, mine)) \/ SyncLooks(h)
      \/ (\E p \in Places : SyncRoom(h, p)) =>
        UNCHANGED <<looked, cleared, outage, option, watcher, seenVars>>
        /\ waiting \subseteq waiting'
  BY DEF SyncBegins, SyncLooks, SyncRoom, mailVars
<1> QED
  BY <1>3, <1>4, <1>5, <1>6, <1>7 DEF Pulling

\* The inductive invariant of the watcher.
WatchInv == WatchTypeOK /\ SyncInv /\ PollInv

\* It holds at first, for every command line.
LEMMA WatchInvInit == WatchInit => WatchInv
<1> SUFFICES ASSUME WatchInit
             PROVE  WatchInv
  OBVIOUS
<1> USE DEF WatchInit
<1>1. NoPull \in Pull /\ watcher \in Watcher
  BY DEF NoPull, Pull, Watcher
<1>2. WatchTypeOK
  BY <1>1, WatchAssumption DEF WatchTypeOK
<1>3. SyncInv
  BY DEF SyncInv, PullsAreAwaited, SyncsSeeAll, HeadsAreDelivered, HealthyHaveDelivered,
     DeliveredIn, NoPull
<1>4. PollInv
  BY DEF PollInv, DueIsLookedAt, ListedIsDue, SeenIsTold, RestIsChecked, PendingIsNotNews
<1> QED
  BY <1>2, <1>3, <1>4 DEF WatchInv

\* And in every reachable state.
LEMMA WatchInvHolds == WatchSpec => []WatchInv
<1>1. WatchInv /\ [WatchNext]_watchVars => WatchInv'
  <2> SUFFICES ASSUME WatchInv, [WatchNext]_watchVars
               PROVE  WatchInv'
    OBVIOUS
  <2>1. WatchTypeOK /\ SyncInv /\ PollInv
    BY DEF WatchInv
  <2>2. WatchTypeOK'
    BY <2>1, WatchStepTyped
  <2>3. CASE UNCHANGED watchVars
    <3>1. UNCHANGED <<mailed, followed, heads, waiting, cleared, around, outage, pull, looked,
          option, watcher,
                      due, overtaken, old, news>>
      BY <2>3 DEF watchVars, mailVars, seenVars
    <3>2. SyncInv'
      BY <2>1, <3>1 DEF SyncInv, PullsAreAwaited, Current, SyncsSeeAll, HeadsAreDelivered,
                        HealthyHaveDelivered, DeliveredIn
    <3>3. PollInv'
      BY <2>1, <3>1
         DEF PollInv, DueIsLookedAt, ListedIsDue, SeenIsTold, RestIsChecked, PendingIsNotNews,
                        Current
    <3> QED BY <2>2, <3>2, <3>3 DEF WatchInv
  <2>4. CASE Polling
    BY <2>1, <2>2, <2>4, PollingKeepsSyncs, PollingKeepsPolls DEF WatchInv
  <2>5. ASSUME NEW h \in Hosts, Pulling(h)
        PROVE  WatchInv'
    BY <2>1, <2>2, <2>5, PullingKeepsSyncs, PullingKeepsPolls DEF WatchInv
  <2>6. ASSUME NEW i \in Posts, Mail(i) \/ DrainOne(i)
        PROVE  WatchInv'
    BY <2>1, <2>2, <2>6, OthersKeepSyncs, OthersKeepPolls DEF WatchInv
  <2>7. ASSUME NEW p \in Places, Follow(p) \/ Unfollow(p)
        PROVE  WatchInv'
    BY <2>1, <2>2, <2>7, OthersKeepSyncs, OthersKeepPolls DEF WatchInv
  <2>8. /\ \A k \in DOMAIN option.scope : option.scope[k] \in Hosts
        /\ option.posts \subseteq Posts /\ option.rooms \subseteq Places
    BY <2>1, WatchAssumption DEF WatchTypeOK, WatchOption
  <2> QED BY <2>3, <2>4, <2>5, <2>6, <2>7, <2>8 DEF WatchNext, Others
<1> QED
  BY WatchInvInit, <1>1, PTL DEF WatchSpec

\* Type correctness of the watcher, for any networks, rooms, messages and command lines.
THEOREM WatchTyped == WatchSpec => []WatchTypeOK
<1>1. WatchInv => WatchTypeOK
  BY DEF WatchInv
<1> QED
  BY <1>1, WatchInvHolds, PTL

\* A watcher that says that nothing matched, as confirmed, keeps nothing untold that a sync
\* had seen before it looked, and announces nothing that was pending when it armed: for any
\* number of networks and messages, and any overlap of syncs, drains, joins and leaves.
THEOREM WatchersAreHonest == WatchSpec => []WatchIsHonest
<1>1. WatchInv => WatchIsHonest
  BY DEF WatchInv, PollInv, RestIsChecked, WatchIsHonest, SilenceIsChecked
<1> QED
  BY <1>1, WatchInvHolds, PTL

=============================================================================
