----------------------------- MODULE RecordProofs -----------------------------
(***************************************************************************)
(* The main branch of a network, for any number of agents, rooms, names    *)
(* and sessions: what is on main stays, rooms are configured, and a card   *)
(* says live while a session is attached.                                  *)
(*                                                                         *)
(* Remaining is a recursive function, and what it computes is proved by    *)
(* induction.  The induction theorems of the library take a predicate as   *)
(* a parameter; Induction below takes a set, and follows from the          *)
(* well-foundedness of < on the numbers.                                   *)
(***************************************************************************)
EXTENDS RecordBranch, WellFoundedInduction, TLAPS

\* A set of numbers has a least one.
LEMMA Least ==
  ASSUME NEW T, T \subseteq Nat, T # {}
  PROVE  \E x \in T : \A y \in T : x <= y
<1> DEFINE R == OpToRel(<, Nat)
<1>1. PICK x \in T : \A y \in T : ~ (<<y, x>> \in R)
  BY NatLessThanWellFounded, WFMin
<1>2. \A y \in Nat : <<y, x>> \in R <=> y < x
  BY <1>1 DEF OpToRel
<1>3. \A y \in T : ~ (y < x)
  BY <1>1, <1>2
<1> HIDE DEF R
<1> QED BY <1>1, <1>3

\* Induction, over the numbers in a set.
LEMMA Induction ==
  ASSUME NEW T, 0 \in T, \A n \in Nat : n \in T => n + 1 \in T
  PROVE  Nat \subseteq T
<1> SUFFICES ASSUME Nat \ T # {} PROVE FALSE
  OBVIOUS
<1>1. PICK x \in Nat \ T : \A y \in Nat \ T : x <= y
  BY Least
<1>2. x # 0 /\ x - 1 \in Nat
  BY <1>1
<1>3. x - 1 \in T
  BY <1>1, <1>2
<1> QED BY <1>1, <1>2, <1>3

\* The members of a longer sequence.
LEMMA ToSetAppend ==
  ASSUME NEW S, NEW s \in Seq(S), NEW x \in S
  PROVE  ToSet(Append(s, x)) = ToSet(s) \cup {x}
<1> DEFINE t == Append(s, x)
<1>1. Len(s) \in Nat /\ DOMAIN s = 1..Len(s)
  OBVIOUS
<1>2. t \in Seq(S) /\ Len(t) = Len(s) + 1 /\ t[Len(s) + 1] = x /\ DOMAIN t = 1..(Len(s) + 1)
  OBVIOUS
<1>3. \A i \in 1..Len(s) : t[i] = s[i]
  OBVIOUS
<1> HIDE DEF t
<1>4. 1..(Len(s) + 1) = (1..Len(s)) \cup {Len(s) + 1}
  BY <1>1
<1>5. ToSet(t) = ToSet(s) \cup {x}
  BY <1>1, <1>2, <1>3, <1>4 DEF ToSet
<1> QED BY <1>5 DEF t

\* What Remaining computes.
LEMMA RemainingIs ==
  ASSUME NEW S, NEW s \in Seq(S), NEW V
  PROVE  /\ Remaining(s, V) \in Seq(S)
         /\ ToSet(Remaining(s, V)) = ToSet(s) \ V
         /\ Len(Remaining(s, V)) <= Len(s)
<1> DEFINE Step(f, i) == IF i = 0 THEN <<>>
                         ELSE IF s[i] \in V THEN f[i - 1] ELSE Append(f[i - 1], s[i])
           Good(f, n) == f = [i \in 0..n |-> Step(f, i)]
           T == {n \in Nat : n <= Len(s) => \E f : Good(f, n)}
<1>1. 0 \in T
  <2> DEFINE f == [i \in 0..0 |-> <<>>]
  <2> Good(f, 0) BY DEF f
  <2> QED OBVIOUS
<1>2. ASSUME NEW n \in Nat, n \in T PROVE n + 1 \in T
  <2>0. ASSUME n + 1 <= Len(s) PROVE \E f : Good(f, n + 1)
    <3>1. PICK f : Good(f, n)
      BY <1>2, <2>0
    <3> DEFINE g == [i \in 0..(n + 1) |-> IF i \in 0..n THEN f[i] ELSE Step(f, n + 1)]
    <3>2. \A i \in 0..n : g[i] = f[i]
      OBVIOUS
    <3>3. g[n + 1] = Step(f, n + 1)
      OBVIOUS
    <3>3a. \A i \in 0..n : f[i] = Step(f, i)
      BY <3>1
    <3>3b. g = [i \in 0..(n + 1) |-> g[i]]
      OBVIOUS
    <3>4. \A i \in 0..(n + 1) : g[i] = Step(g, i)
      <4> TAKE i \in 0..(n + 1)
      <4> HIDE DEF g
      <4>1. CASE i \in 0..n
        <5>1. i = 0 \/ i - 1 \in 0..n
          BY <4>1
        <5> QED BY <5>1, <4>1, <3>2, <3>3a
      <4>2. CASE i = n + 1
        <5>1. n + 1 # 0 /\ (n + 1) - 1 = n /\ n \in 0..n
          OBVIOUS
        <5> QED BY <4>2, <5>1, <3>2, <3>3
      <4> QED BY <4>1, <4>2
    <3> HIDE DEF g
    <3>5. Good(g, n + 1)
      BY <3>4, <3>3b, Zenon
    <3> QED BY <3>5
  <2> HIDE DEF Good
  <2> QED
    BY <2>0
<1>3. Nat \subseteq T
  BY <1>1, <1>2, Induction
<1>4. Len(s) \in Nat
  OBVIOUS
<1>5. \E f : Good(f, Len(s))
  BY <1>3, <1>4
<1> DEFINE kept == CHOOSE f : Good(f, Len(s))
<1>6. Good(kept, Len(s))
  BY <1>5
<1>7. Remaining(s, V) = kept[Len(s)]
  BY DEF Remaining
<1>8. \A i \in 0..Len(s) : kept[i] = Step(kept, i)
  <2> HIDE DEF kept
  <2> QED BY <1>6
<1> HIDE DEF kept
<1> DEFINE U == {n \in Nat : n <= Len(s) => /\ kept[n] \in Seq(S) /\ Len(kept[n]) <= n
                      /\ \A x : x \in ToSet(kept[n]) <=> x \notin V /\ \E i \in 1..n : x = s[i]}
<1>9. 0 \in U
  <2>1. kept[0] = <<>>
    BY <1>8, <1>4
  <2>2. ToSet(<<>>) = {}
    BY DEF ToSet
  <2>3. kept[0] \in Seq(S) /\ Len(kept[0]) <= 0
    BY <2>1
  <2>4. ~ \E i \in 1..0 : TRUE
    OBVIOUS
  <2> QED BY <2>1, <2>2, <2>3, <2>4
<1>10. ASSUME NEW n \in Nat, n \in U PROVE n + 1 \in U
  <2> SUFFICES ASSUME n + 1 <= Len(s) PROVE n + 1 \in U
    OBVIOUS
  <2>1. n + 1 # 0 /\ (n + 1) - 1 = n /\ n + 1 \in 0..Len(s) /\ n + 1 \in 1..Len(s)
    OBVIOUS
  <2>2. kept[n + 1] = IF s[n + 1] \in V THEN kept[n] ELSE Append(kept[n], s[n + 1])
    BY <1>8, <2>1
  <2>3. s[n + 1] \in S
    BY <2>1
  <2>4. kept[n] \in Seq(S) /\ Len(kept[n]) <= n
    BY <1>10
  <2>5. \A x : x \in ToSet(kept[n]) <=> x \notin V /\ \E i \in 1..n : x = s[i]
    BY <1>10
  <2>6. ToSet(Append(kept[n], s[n + 1])) = ToSet(kept[n]) \cup {s[n + 1]}
    BY <2>3, <2>4, ToSetAppend
  <2>7. 1..(n + 1) = (1..n) \cup {n + 1}
    OBVIOUS
  <2>8. kept[n + 1] \in Seq(S) /\ Len(kept[n + 1]) <= n + 1
    BY <2>2, <2>3, <2>4
  <2>9. \A x : x \in ToSet(kept[n + 1]) <=> x \notin V /\ \E i \in 1..(n + 1) : x = s[i]
    BY <2>2, <2>5, <2>6, <2>7
  <2> QED BY <2>8, <2>9
<1>11. Nat \subseteq U
  BY <1>9, <1>10, Induction
<1>12. Len(s) \in U
  BY <1>11, <1>4
<1>13. ToSet(s) = {s[i] : i \in 1..Len(s)}
  BY DEF ToSet
<1> QED BY <1>12, <1>13, <1>7, <1>4

-----------------------------------------------------------------------------
\* Typing.  A call that is about a room knows which.
CallsNameRooms ==
  \A a \in Clones :
    call[a].step \in {"opening", "opened", "creating"} => call[a].room \in RecordRooms

\* What a clone sees is a main.
LEMMA ViewTyped ==
  ASSUME RecordTypeOK, NEW a \in Clones
  PROVE  View(a) \in Main
<1>1. base[a] \in Main /\ own[a] \in Own
  BY DEF RecordTypeOK
<1>2. base[a].cards \in [Clones -> Card \cup {NoCard}] /\ own[a].card \in Card \cup {NoCard}
  BY <1>1 DEF Main, Own
<1>3. [base[a].cards EXCEPT ![a] = own[a].card] \in [Clones -> Card \cup {NoCard}]
  BY <1>2
<1>4. /\ base[a].manifest \in NetNames \cup {NoName} /\ own[a].manifest \in NetNames \cup {NoName}
      /\ base[a].rooms \subseteq RecordRooms /\ own[a].rooms \subseteq RecordRooms
  BY <1>1 DEF Main, Own
<1> QED
  BY <1>2, <1>3, <1>4 DEF View, Overlaid, Main

\* What an agent knows of itself is a card.
LEMMA KnownTyped ==
  ASSUME RecordTypeOK, NEW a \in Clones
  PROVE  Known(a) \in Card /\ Within12h(a) \in Seq(Sessions)
<1>1. View(a).cards[a] \in Card \cup {NoCard}
  BY ViewTyped DEF Main
<1>2. FirstCard \in Card
  BY DEF FirstCard, Card
<1>3. Known(a) \in Card
  BY <1>1, <1>2 DEF Known
<1> QED
  BY <1>3, RemainingIs DEF Card, Within12h

\* A declaration makes a list of sessions out of a list of sessions.
LEMMA ReconciledTyped ==
  ASSUME RecordTypeOK, NEW a \in Clones, NEW how, NEW s \in Sessions
  PROVE  /\ Reconciled(a, how, s).status \in {"live", "away"}
         /\ Reconciled(a, how, s).sessions \in Seq(Sessions)
<1> DEFINE kept == Within12h(a)
           left == Remaining(kept, {s})
           all == IF s \in ToSet(kept) THEN kept ELSE Append(kept, s)
           drop == Len(all) - (IF Len(all) > MaxTracked THEN MaxTracked ELSE Len(all)) + 1
           next == IF how = "away" THEN left ELSE SubSeq(all, drop, Len(all))
<1>1. kept \in Seq(Sessions)
  BY KnownTyped
<1>2. left \in Seq(Sessions)
  BY <1>1, RemainingIs
<1>3. all \in Seq(Sessions)
  BY <1>1
<1>4. drop \in 1..(Len(all) + 1)
  <2>1. Len(all) \in Nat /\ MaxTracked \in Nat
    BY <1>3, RecordAssumption
  <2>2. \A n, m \in Nat : n - (IF n > m THEN m ELSE n) + 1 \in 1..(n + 1)
    OBVIOUS
  <2> HIDE DEF all
  <2> QED BY <2>1, <2>2
<1>5. SubSeq(all, drop, Len(all)) \in Seq(Sessions)
  <2> HIDE DEF all, drop
  <2> QED BY <1>3, <1>4
<1>6. next \in Seq(Sessions)
  BY <1>2, <1>5
<1>7. Reconciled(a, how, s)
        = [status |-> IF next = <<>> THEN "away" ELSE "live", sessions |-> next]
  BY DEF Reconciled
<1> HIDE DEF next
<1> QED
  BY <1>6, <1>7

\* What the actions do to the commits on top.
LEMMA OwnTyped ==
  ASSUME RecordTypeOK, NEW a \in Clones, NEW f,
         f = [own EXCEPT ![a] = NothingOwn]
         \/ (\E name \in NetNames \cup {NoName} : f = [own EXCEPT ![a].manifest = name])
         \/ (\E S \in SUBSET RecordRooms : f = [own EXCEPT ![a].rooms = S])
         \/ (\E card \in Card : f = [own EXCEPT ![a].card = card])
  PROVE  f \in [Clones -> Own]
<1>1. own \in [Clones -> Own] /\ own[a] \in Own /\ NothingOwn \in Own
  BY DEF RecordTypeOK, Own, NothingOwn
<1>2. ASSUME NEW o \in Own, f = [own EXCEPT ![a] = o]
      PROVE  f \in [Clones -> Own]
  BY <1>1, <1>2
<1>3. CASE f = [own EXCEPT ![a] = NothingOwn]
  BY <1>1, <1>2, <1>3
<1>4. ASSUME NEW name \in NetNames \cup {NoName}, f = [own EXCEPT ![a].manifest = name]
      PROVE  f \in [Clones -> Own]
  <2>1. [own[a] EXCEPT !.manifest = name] \in Own
    BY <1>1 DEF Own
  <2> QED BY <1>2, <1>4, <2>1
<1>5. ASSUME NEW S \in SUBSET RecordRooms, f = [own EXCEPT ![a].rooms = S]
      PROVE  f \in [Clones -> Own]
  <2>1. [own[a] EXCEPT !.rooms = S] \in Own
    BY <1>1 DEF Own
  <2> QED BY <1>2, <1>5, <2>1
<1>6. ASSUME NEW card \in Card, f = [own EXCEPT ![a].card = card]
      PROVE  f \in [Clones -> Own]
  <2>1. [own[a] EXCEPT !.card = card] \in Own
    BY <1>1 DEF Own
  <2> QED BY <1>2, <1>6, <2>1
<1> QED
  BY <1>3, <1>4, <1>5, <1>6

\* Writing a card disturbs the commits on top and the call, and nobody's room.
LEMMA WriteCardTyped ==
  ASSUME RecordTypeOK, NEW a \in Clones, NEW presence, WriteCard(a, presence),
         presence.status \in {"live", "away"}, presence.sessions \in Seq(Sessions)
  PROVE  /\ own' \in [Clones -> Own] /\ call' \in [Clones -> RecordCall]
         /\ \A c \in Clones : call'[c] = call[c] \/ call'[c].step = "recording"
<1> DEFINE card == [rooms |-> memberships[a], status |-> presence.status,
                    sessions |-> presence.sessions]
<1>1. card \in Card
  BY DEF Card, RecordTypeOK
<1> HIDE DEF card
<1>2. CASE card = View(a).cards[a]
  BY <1>2 DEF card, WriteCard, RecordTypeOK
<1>3. CASE card # View(a).cards[a]
  <2>1. own' = [own EXCEPT ![a].card = card] /\ Does(a, "recording", NoRoom)
    BY <1>3 DEF card, WriteCard
  <2>2. own' \in [Clones -> Own]
    BY <2>1, <1>1, OwnTyped
  <2>3. call' \in [Clones -> RecordCall]
    BY <2>1 DEF Does, RecordCall, RecordTypeOK
  <2> QED BY <2>1, <2>2, <2>3 DEF Does, RecordTypeOK
<1> QED
  BY <1>2, <1>3

\* Typing is inductive with the rooms of the calls.
LEMMA RecordStepTyped ==
  ASSUME RecordTypeOK, CallsNameRooms, [RecordNext]_recordVars
  PROVE  RecordTypeOK' /\ CallsNameRooms'
<1> USE DEF worktreeVars, roomVars, presenceVars, CallsNameRooms
<1>1. CASE UNCHANGED recordVars
  BY <1>1 DEF recordVars, RecordTypeOK
<1>2. ASSUME NEW a \in Clones, Found(a)
      PROVE  RecordTypeOK' /\ CallsNameRooms'
  <2>1. ASSUME NEW name \in NetNames, FoundRecord(a, name)
        PROVE  RecordTypeOK' /\ CallsNameRooms'
    <3>1. own' \in [Clones -> Own]
      BY <2>1, OwnTyped DEF FoundRecord
    <3> QED BY <2>1, <3>1 DEF FoundRecord, RecordTypeOK, Does, RecordCall
  <2>2. CASE CloneRecord(a)
    BY <2>2 DEF CloneRecord, RecordTypeOK
  <2>3. CASE CloneEmpty(a)
    BY <2>3 DEF CloneEmpty, RecordTypeOK
  <2>4. CASE FoundPushed(a)
    <3>1. own' \in [Clones -> Own]
      BY <2>4, OwnTyped DEF FoundPushed
    <3> QED BY <2>4, <3>1, ViewTyped DEF FoundPushed, RecordTypeOK, Done, Idle, RecordCall
  <2>5. CASE FoundRefused(a)
    BY <2>5 DEF FoundRefused, RecordTypeOK, Done, Idle, RecordCall
  <2>6. CASE FoundAgain(a)
    BY <2>6 DEF FoundAgain, RecordTypeOK
  <2>7. \A name \in recordScope.names : name \in NetNames
    BY RecordAssumption DEF RecordTypeOK, RecordScope
  <2> QED
    BY <1>2, <2>1, <2>2, <2>3, <2>4, <2>5, <2>6, <2>7 DEF Found
<1>3. ASSUME NEW a \in Clones, PushMain(a)
      PROVE  RecordTypeOK' /\ CallsNameRooms'
  <2>1. CASE MainAccepted(a)
    <3>1. own' \in [Clones -> Own]
      BY <2>1, OwnTyped DEF MainAccepted
    <3>2. main' \in Main /\ base' \in [Clones -> Main] /\ call' \in [Clones -> RecordCall]
      BY <2>1, ViewTyped DEF MainAccepted, RecordTypeOK, Done, Idle, RecordCall
    <3>3. CASE call[a].step = "creating"
      <4>1. call[a].room \in RecordRooms
        BY <3>3
      <4> QED BY <2>1, <3>1, <3>2, <4>1
          DEF Done, Idle, MainAccepted, RecordTypeOK, RecordCall
    <3>4. CASE call[a].step # "creating"
      BY <2>1, <3>1, <3>2, <3>4 DEF MainAccepted, RecordTypeOK, Done, Idle
    <3> QED BY <3>3, <3>4
  <2>2. CASE MainUnanswered(a)
    BY <2>2, ViewTyped DEF MainUnanswered, RecordTypeOK
  <2>3. CASE MainRejected(a)
    <3>1. own'
            = [own EXCEPT ![a].manifest = IF main.manifest = NoName THEN own[a].manifest
                                          ELSE NoName]
      BY <2>3 DEF MainRejected, Rebased
    <3>2. own[a].manifest \in NetNames \cup {NoName}
      BY DEF RecordTypeOK, Own
    <3>3. own' \in [Clones -> Own]
      BY <3>1, <3>2, OwnTyped
    <3> QED BY <2>3, <3>3 DEF MainRejected, Rebased, RecordTypeOK
  <2>4. CASE MainGivesUp(a)
    BY <2>4 DEF MainGivesUp, RecordTypeOK, Done, Idle, RecordCall
  <2> QED
    BY <1>3, <2>1, <2>2, <2>3, <2>4 DEF PushMain
<1>4. ASSUME NEW a \in Clones, OpenRoom(a)
      PROVE  RecordTypeOK' /\ CallsNameRooms'
  <2>1. call[a].step \in {"opening", "opened"} => call[a].room \in RecordRooms
    OBVIOUS
  <2>2. CASE BranchPushed(a)
    BY <2>1, <2>2 DEF BranchPushed, RecordTypeOK, Does, RecordCall
  <2>3. CASE BranchRefused(a)
    BY <2>3 DEF BranchRefused, RecordTypeOK, Done, Idle, RecordCall
  <2>4. CASE ConfigCommitted(a)
    <3>1. own[a].rooms \cup {call[a].room} \in SUBSET RecordRooms
      BY <2>1, <2>4 DEF RecordTypeOK, Own, ConfigCommitted
    <3>2. own' = [own EXCEPT ![a].rooms = own[a].rooms \cup {call[a].room}]
      BY <2>4 DEF ConfigCommitted
    <3>3. own' \in [Clones -> Own]
      BY <3>1, <3>2, OwnTyped
    <3> QED BY <2>1, <2>4, <3>3 DEF ConfigCommitted, RecordTypeOK, Does, RecordCall
  <2> QED
    BY <1>4, <2>2, <2>3, <2>4 DEF OpenRoom
<1>5. ASSUME NEW a \in Clones, OnCard(a)
      PROVE  RecordTypeOK' /\ CallsNameRooms'
  <2>1. CASE PublishCard(a)
    <3>1. Known(a).status \in {"live", "away"} /\ Known(a).sessions \in Seq(Sessions)
      BY KnownTyped DEF Card
    <3>2. /\ own' \in [Clones -> Own] /\ call' \in [Clones -> RecordCall]
          /\ \A c \in Clones : call'[c] = call[c] \/ call'[c].step = "recording"
      BY <2>1, <3>1, WriteCardTyped DEF PublishCard
    <3> QED BY <2>1, <3>2 DEF PublishCard, RecordTypeOK
  <2>2. CASE PublishFails(a)
    BY <2>2 DEF PublishFails, RecordTypeOK
  <2>3. ASSUME NEW s \in Sessions, NEW how \in {"live", "away"}, AnnounceSession(a, how, s)
        PROVE  RecordTypeOK' /\ CallsNameRooms'
    <3>1. /\ own' \in [Clones -> Own] /\ call' \in [Clones -> RecordCall]
          /\ \A c \in Clones : call'[c] = call[c] \/ call'[c].step = "recording"
      BY <2>3, ReconciledTyped, WriteCardTyped DEF AnnounceSession
    <3>2. attached' \in [Clones -> SUBSET Sessions] /\ crowded' \subseteq Clones
      BY <2>3 DEF AnnounceSession, NowAttached, RecordTypeOK
    <3> QED BY <2>3, <3>1, <3>2 DEF AnnounceSession, RecordTypeOK
  <2>4. ASSUME NEW how \in {"live", "away"}, Announce(a, how)
        PROVE  RecordTypeOK' /\ CallsNameRooms'
    <3> DEFINE listed == IF how = "away" THEN <<>> ELSE Within12h(a)
    <3>0. listed \in Seq(Sessions) /\ WriteCard(a, [status |-> how, sessions |-> listed])
      BY <2>4, KnownTyped DEF Announce
    <3> HIDE DEF listed
    <3>1. /\ own' \in [Clones -> Own] /\ call' \in [Clones -> RecordCall]
          /\ \A c \in Clones : call'[c] = call[c] \/ call'[c].step = "recording"
      BY <3>0, WriteCardTyped
    <3> QED BY <2>4, <3>1 DEF Announce, RecordTypeOK
  <2>5. ASSUME NEW s \in Sessions, Lapse(a, s)
        PROVE  RecordTypeOK' /\ CallsNameRooms'
    BY <2>5 DEF Lapse, RecordTypeOK
  <2>6. \A s \in recordScope.sessions : s \in Sessions
    BY RecordAssumption DEF RecordTypeOK, RecordScope
  <2> QED
    BY <1>5, <2>1, <2>2, <2>3, <2>4, <2>5, <2>6 DEF OnCard
<1>6. ASSUME NEW a \in Clones, SyncRecord(a)
      PROVE  RecordTypeOK' /\ CallsNameRooms'
  <2>1. CASE own[a] # NothingOwn
    <3>1. Does(a, "draining", NoRoom) /\ UNCHANGED <<base, own, main, emptyClones, unannounced>>
      BY <1>6, <2>1 DEF SyncRecord
    <3>2. call' \in [Clones -> RecordCall] /\ CallsNameRooms'
      BY <3>1 DEF Does, RecordCall, RecordTypeOK
    <3> QED BY <1>6, <3>1, <3>2 DEF SyncRecord, RecordTypeOK
  <2>2. CASE own[a] = NothingOwn
    BY <1>6, <2>2 DEF SyncRecord, RecordTypeOK
  <2> QED BY <2>1, <2>2
<1>7. ASSUME NEW a \in Clones, RecordDies(a)
      PROVE  RecordTypeOK' /\ CallsNameRooms'
  BY <1>7 DEF RecordDies, RecordTypeOK, Done, Idle, RecordCall
<1>8. ASSUME NEW a \in Clones, NEW r \in RecordRooms, OnRoom(a, r)
      PROVE  RecordTypeOK' /\ CallsNameRooms'
  <2>1. CASE CreateRoom(a, r)
    BY <2>1 DEF CreateRoom, RecordTypeOK, Does, RecordCall
  <2>2. CASE JoinFails(a, r)
    BY <2>2 DEF JoinFails, RecordTypeOK
  <2>3. CASE Join(a, r)
    BY <2>3 DEF Join, RecordTypeOK
  <2>4. CASE Leave(a, r)
    BY <2>4 DEF Leave, RecordTypeOK
  <2> QED
    BY <1>8, <2>1, <2>2, <2>3, <2>4 DEF OnRoom, MachineRoom
<1>9. recordScope.clones \subseteq Clones /\ recordScope.rooms \subseteq RecordRooms
  BY RecordAssumption DEF RecordTypeOK, RecordScope
<1> QED
  BY <1>1, <1>2, <1>3, <1>4, <1>5, <1>6, <1>7, <1>8, <1>9 DEF RecordNext

-----------------------------------------------------------------------------
\* A network is founded once: main has a manifest or is not there, a clone's main has that manifest
\* or is not there either, a founding that is not pushed began from nothing, and only a clone with a
\* record is in the middle of anything.
FoundedOnce ==
  /\ main = NoMain \/ main.manifest # NoName
  /\ \A a \in Clones :
       /\ base[a] = NoMain \/ (base[a].manifest = main.manifest /\ main.manifest # NoName)
       /\ a \in emptyClones => ~HasRecord(a)
       /\ own[a].manifest # NoName => base[a] = NoMain
       /\ own[a] # NothingOwn \/ call[a] # Idle => HasRecord(a)

\* What a clone sees, part by part.
LEMMA Viewed ==
  ASSUME RecordTypeOK, NEW a \in Clones
  PROVE  /\ View(a).manifest
              = IF own[a].manifest = NoName THEN base[a].manifest ELSE own[a].manifest
         /\ View(a).rooms = base[a].rooms \cup own[a].rooms
         /\ \A b \in Clones : View(a).cards[b] = IF b = a /\ own[a].card # NoCard THEN own[a].card
                                                 ELSE base[a].cards[b]
<1>1. base[a].cards \in [Clones -> Card \cup {NoCard}]
  BY DEF RecordTypeOK, Main
<1> QED
  BY <1>1 DEF View, Overlaid

\* Without commits on top a clone sees what it is based on.
LEMMA NothingOnTop ==
  ASSUME NEW m \in Main, NEW a \in Clones
  PROVE  Overlaid(m, a, NothingOwn) = m
<1>1. NothingOwn.manifest = NoName /\ NothingOwn.rooms = {} /\ NothingOwn.card = NoCard
  BY DEF NothingOwn
<1>2. m = [manifest |-> m.manifest, rooms |-> m.rooms, cards |-> m.cards]
  BY DEF Main
<1> QED
  BY <1>1, <1>2 DEF Overlaid

\* What a step may do to the record worktree of a.
Untouched(a) == UNCHANGED <<base[a], own[a]>>
Landed(a) == base'[a] = View(a) /\ own'[a] = NothingOwn

\* Only a push changes main, and it adds what the clone has on top of main.
LEMMA PushesOverlay ==
  ASSUME RecordTypeOK, FoundedOnce, [RecordNext]_recordVars, main' # main
  PROVE  \E a \in Clones : /\ main' = View(a) /\ HasRecord(a) /\ base[a] = main
                           /\ View(a)' = View(a)
                           /\ View(a).manifest = main.manifest \/ main = NoMain
<1>1. PICK a \in Clones : MainAccepted(a) \/ MainUnanswered(a) \/ FoundPushed(a)
  <2> USE DEF worktreeVars
  <2>1. ~ UNCHANGED recordVars
    BY DEF recordVars
  <2>2. ASSUME NEW a, Found(a), ~ FoundPushed(a)
        PROVE  FALSE
    BY <2>2 DEF Found, FoundRecord, CloneRecord, CloneEmpty, FoundRefused, FoundAgain
  <2>3. ASSUME NEW a, PushMain(a), ~ MainAccepted(a), ~ MainUnanswered(a)
        PROVE  FALSE
    BY <2>3 DEF PushMain, MainRejected, MainGivesUp
  <2>4. ASSUME NEW a, OpenRoom(a)
        PROVE  FALSE
    BY <2>4 DEF OpenRoom, BranchPushed, BranchRefused, ConfigCommitted
  <2>5. ASSUME NEW a, OnCard(a)
        PROVE  FALSE
    BY <2>5 DEF OnCard, PublishCard, PublishFails, Lapse, AnnounceSession, Announce
  <2>6. ASSUME NEW a, NEW r, OnRoom(a, r)
        PROVE  FALSE
    BY <2>6 DEF OnRoom, MachineRoom, CreateRoom, JoinFails, Join, Leave
  <2>7. ASSUME NEW a, SyncRecord(a) \/ RecordDies(a)
        PROVE  FALSE
    BY <2>7 DEF SyncRecord, RecordDies
  <2>8. recordScope.clones \subseteq Clones
    BY RecordAssumption DEF RecordTypeOK, RecordScope
  <2> QED
    BY <2>1, <2>2, <2>3, <2>4, <2>5, <2>6, <2>7, <2>8 DEF RecordNext
<1>2. main' = View(a) /\ (Landed(a) \/ Untouched(a)) /\ call[a] # Idle
      /\ (base[a] = main \/ main = NoMain)
  BY <1>1 DEF MainAccepted, MainUnanswered, FoundPushed, PushesMain, Pushable, Idle, RecordTypeOK,
     Landed, Untouched
<1>3. HasRecord(a) /\ base[a] = main
  BY <1>2 DEF FoundedOnce, NoMain
<1>4. View(a)' = View(a)
  BY <1>2, ViewTyped, NothingOnTop DEF View, Landed, Untouched
<1>5. View(a).manifest = main.manifest \/ main = NoMain
  BY <1>3, Viewed DEF FoundedOnce
<1> QED
  BY <1>2, <1>3, <1>4, <1>5

\* What a step leaves on main.
LEMMA PushesKeepRecords ==
  ASSUME RecordTypeOK, FoundedOnce, [RecordNext]_recordVars
  PROVE  /\ main.manifest \in {NoName, main'.manifest}
         /\ main.rooms \subseteq main'.rooms
         /\ \A a \in Clones : main'.cards[a] \in {main.cards[a], View(a)'.cards[a]}
<1>1. CASE main' = main
  BY <1>1
<1>2. CASE main' # main
  <2>1. PICK a \in Clones : /\ main' = View(a) /\ HasRecord(a) /\ base[a] = main
                            /\ View(a)' = View(a)
                            /\ View(a).manifest = main.manifest \/ main = NoMain
    BY <1>2, PushesOverlay
  <2> QED
    BY <2>1, Viewed DEF NoMain
<1> QED
  BY <1>1, <1>2

\* FoundedOnce, for one clone.
Founded(a) ==
  /\ base[a] = NoMain \/ (base[a].manifest = main.manifest /\ main.manifest # NoName)
  /\ a \in emptyClones => base[a] = NoMain /\ own[a].manifest = NoName
  /\ own[a].manifest # NoName => base[a] = NoMain
  /\ own[a] # NothingOwn \/ call[a] # Idle => base[a].manifest # NoName \/ own[a].manifest # NoName

\* FoundedOnce is about main and about each clone.
LEMMA FoundedByParts ==
  FoundedOnce <=> (main = NoMain \/ main.manifest # NoName) /\ \A a \in Clones : Founded(a)
<1>1. \A a \in Clones : HasRecord(a) <=> base[a].manifest # NoName \/ own[a].manifest # NoName
  BY DEF HasRecord, View, Overlaid
<1>2. NoMain.manifest = NoName
  BY DEF NoMain
<1> QED
  BY <1>1, <1>2 DEF FoundedOnce, Founded

\* It is enough to look at the clone that acts, if main keeps its manifest.
LEMMA OthersStayFounded ==
  ASSUME FoundedOnce, NEW a \in Clones,
         main' = main \/ (main'.manifest # NoName /\ main.manifest \in {NoName, main'.manifest}),
         \A b \in Clones \ {a} : /\ UNCHANGED <<base[b], own[b], call[b]>>
                                  /\ (b \in emptyClones' => b \in emptyClones),
         Founded(a)'
  PROVE  FoundedOnce'
<1>1. main' = NoMain \/ main'.manifest # NoName
  BY FoundedByParts
<1>2. ASSUME NEW b \in Clones \ {a}
      PROVE  Founded(b)'
  BY <1>2, FoundedByParts DEF Founded
<1>3. FoundedOnce' <=> (main' = NoMain \/ main'.manifest # NoName) /\ \A b \in Clones : Founded(b)'
  <2>1. \A b \in Clones : HasRecord(b)' <=> base'[b].manifest # NoName \/ own'[b].manifest # NoName
    BY DEF HasRecord, View, Overlaid
  <2>2. NoMain' = NoMain /\ NoMain.manifest = NoName
    BY DEF NoMain
  <2> QED
    BY <2>1, <2>2 DEF FoundedOnce, Founded
<1> QED
  BY <1>1, <1>2, <1>3

\* FoundedOnce is inductive with typing.
LEMMA FoundingStays ==
  ASSUME RecordTypeOK, FoundedOnce, [RecordNext]_recordVars
  PROVE  FoundedOnce'
<1> USE DEF worktreeVars, roomVars, Idle, Does, Done, RecordCall
<1>1. CASE UNCHANGED recordVars
  BY <1>1 DEF recordVars, FoundedOnce, HasRecord, View
<1>2. \A a \in Clones : HasRecord(a) <=> base[a].manifest # NoName \/ own[a].manifest # NoName
  BY Viewed DEF HasRecord
<1>3. NoMain.manifest = NoName /\ NothingOwn.manifest = NoName
  BY DEF NoMain, NothingOwn
<1>4. ASSUME NEW a \in Clones, Found(a) \/ PushMain(a) \/ OpenRoom(a) \/ OnCard(a) \/ SyncRecord(a)
             \/ RecordDies(a)
               \/ \E r \in RecordRooms : OnRoom(a, r)
      PROVE  FoundedOnce'
  <2>1. /\ base \in [Clones -> Main] /\ own \in [Clones -> Own] /\ call \in [Clones -> RecordCall]
        /\ DOMAIN own = Clones /\ DOMAIN base = Clones /\ DOMAIN call = Clones
        /\ Founded(a) /\ own[a] \in Own
    BY FoundedByParts DEF RecordTypeOK
  <2>2. ASSUME NEW name \in NetNames, FoundRecord(a, name)
        PROVE  FoundedOnce'
    <3>1. base'[a] = NoMain /\ a \notin emptyClones' /\ own'[a].manifest = name
      BY <2>1, <2>2 DEF FoundRecord, Founded, Own
    <3>2. Founded(a)'
      BY <3>1, RecordAssumption DEF Founded
    <3> QED BY <2>1, <2>2, <3>2, OthersStayFounded DEF FoundRecord
  <2>3. CASE CloneRecord(a)
    <3>1. Founded(a)'
      BY <1>2, <2>1, <2>3 DEF CloneRecord, Founded, Unlocked, FoundedOnce
    <3> QED BY <2>1, <2>3, <3>1, OthersStayFounded DEF CloneRecord
  <2>4. CASE CloneEmpty(a)
    <3>1. base[a] = NoMain /\ own[a] = NothingOwn /\ main = NoMain
      BY <1>2, <1>3, <2>1, <2>4 DEF CloneEmpty, Founded
    <3>2. Founded(a)'
      BY <1>3, <2>1, <2>4, <3>1 DEF CloneEmpty, Founded
    <3> QED BY <2>1, <2>4, <3>2, OthersStayFounded DEF CloneEmpty
  <2>5. CASE FoundPushed(a) \/ MainAccepted(a)
    <3>1. /\ main' = View(a) /\ base' = [base EXCEPT ![a] = View(a)]
          /\ own' = [own EXCEPT ![a] = NothingOwn] /\ call' = [call EXCEPT ![a] = Idle]
          /\ emptyClones' = emptyClones
          /\ call[a] # Idle /\ (base[a] = main \/ main = NoMain)
      BY <2>5, <2>1 DEF FoundPushed, MainAccepted, PushesMain, Pushable
    <3>2. HasRecord(a) /\ a \notin emptyClones
      BY <1>2, <1>3, <2>1, <3>1 DEF Founded
    <3>3. base[a] = main
      BY <1>3, <3>1, <2>1 DEF Founded
    <3>4. main'.manifest # NoName /\ main.manifest \in {NoName, main'.manifest}
      BY <3>1, <3>2, <3>3, Viewed, <2>1 DEF HasRecord, Founded, NoMain
    <3>5. base'[a] = main' /\ own'[a] = NothingOwn /\ call'[a] = Idle
      BY <2>1, <3>1
    <3>6. Founded(a)'
      BY <1>3, <3>1, <3>2, <3>4, <3>5 DEF Founded
    <3> QED
      BY <2>1, <3>1, <3>4, <3>6, OthersStayFounded
  <2>6. CASE MainUnanswered(a)
    <3>1. main' = View(a) /\ UNCHANGED <<emptyClones, base, own, call>> /\ call[a] # Idle
          /\ base[a] = main
      BY <2>6, <2>1 DEF MainUnanswered, PushesMain, Pushable
    <3>2. HasRecord(a)
      BY <1>2, <2>1, <3>1 DEF Founded
    <3>3. main'.manifest # NoName /\ main.manifest \in {NoName, main'.manifest}
      BY <3>1, <3>2, Viewed, <2>1 DEF HasRecord, Founded, NoMain
    <3>4. Founded(a)'
      BY <1>3, <2>1, <3>1, <3>3 DEF Founded
    <3> QED
      BY <3>1, <3>3, <3>4, OthersStayFounded
  <2>7. CASE MainRejected(a)
    <3>1. /\ base' = [base EXCEPT ![a] = main] /\ UNCHANGED <<main, emptyClones, call>>
          /\ own'
               = [own EXCEPT ![a].manifest = IF main.manifest = NoName THEN own[a].manifest
                                             ELSE NoName]
          /\ ~Pushable(a) /\ call[a] # Idle
      BY <2>7 DEF MainRejected, Rebased, PushesMain
    <3>2. base'[a] = main /\ own'[a].manifest
            = IF main.manifest = NoName THEN own[a].manifest ELSE NoName
      BY <3>1, <2>1 DEF Own
    <3>3. main # NoMain
      BY <3>1, <2>1, <1>3 DEF Pushable, Founded
    <3>4. main.manifest # NoName
      BY <3>3 DEF FoundedOnce
    <3>5. a \notin emptyClones
      BY <2>1, <3>1, <1>3 DEF Founded
    <3>6. Founded(a)'
      BY <3>1, <3>2, <3>4, <3>5 DEF Founded
    <3> QED
      BY <2>1, <3>1, <3>6, OthersStayFounded
  <2>8. CASE FoundRefused(a) \/ MainGivesUp(a) \/ BranchRefused(a) \/ RecordDies(a)
    <3>1. Founded(a)'
      BY <2>1, <2>8 DEF FoundRefused, MainGivesUp, BranchRefused, RecordDies, Founded
    <3> QED BY <2>1, <2>8, <3>1, OthersStayFounded
        DEF FoundRefused, MainGivesUp, BranchRefused, RecordDies
  <2>9. CASE FoundAgain(a) \/ PublishFails(a) \/ \E s \in recordScope.sessions : Lapse(a, s)
    BY <2>9 DEF FoundAgain, PublishFails, Lapse, FoundedOnce, HasRecord, View
  <2>10. ASSUME NEW r, CreateRoom(a, r) \/ JoinFails(a, r) \/ Join(a, r) \/ Leave(a, r)
         PROVE  FoundedOnce'
    <3>1. Founded(a)'
      BY <1>2, <2>1, <2>10 DEF CreateRoom, JoinFails, Join, Leave, Founded
    <3> QED BY <2>1, <2>10, <3>1, OthersStayFounded DEF CreateRoom, JoinFails, Join, Leave
  <2>11. CASE BranchPushed(a)
    <3>1. Founded(a)'
      BY <2>1, <2>11 DEF BranchPushed, Founded
    <3> QED BY <2>1, <2>11, <3>1, OthersStayFounded DEF BranchPushed
  <2>12. CASE ConfigCommitted(a)
    <3>1. own' = [own EXCEPT ![a].rooms = own[a].rooms \cup {call[a].room}] /\ call[a] # Idle
      BY <2>12 DEF ConfigCommitted
    <3>2. own'[a].manifest = own[a].manifest /\ a \notin emptyClones
      BY <1>3, <2>1, <3>1 DEF Own, Founded
    <3>3. Founded(a)'
      BY <2>1, <2>12, <3>1, <3>2 DEF ConfigCommitted, Founded
    <3> QED BY <2>1, <2>12, <3>1, <3>3, OthersStayFounded DEF ConfigCommitted
  <2>13. ASSUME NEW presence, HasRecord(a), WriteCard(a, presence),
                UNCHANGED <<main, emptyClones, base>>
         PROVE  FoundedOnce'
    <3>1. CASE UNCHANGED <<own, call>>
      BY <2>13, <3>1 DEF FoundedOnce, HasRecord, View
    <3>2. ASSUME NEW card, own' = [own EXCEPT ![a].card = card], Does(a, "recording", NoRoom)
          PROVE  FoundedOnce'
      <4>1. own'[a].manifest = own[a].manifest /\ a \notin emptyClones
        BY <1>2, <1>3, <2>1, <2>13, <3>2 DEF Own, Founded
      <4>2. Founded(a)'
        BY <1>2, <2>1, <2>13, <3>2, <4>1 DEF Founded
      <4> QED BY <2>1, <2>13, <3>2, <4>2, OthersStayFounded
    <3> QED
      BY <2>13, <3>1, <3>2 DEF WriteCard
  <2>14. CASE OnCard(a)
    BY <2>9, <2>13, <2>14 DEF OnCard, PublishCard, AnnounceSession, Announce
  <2>15. CASE SyncRecord(a)
    <3>1. CASE own[a] # NothingOwn
      <4>1. Does(a, "draining", NoRoom) /\ UNCHANGED <<main, emptyClones, base, own>>
            /\ HasRecord(a)
        BY <2>15, <3>1 DEF SyncRecord
      <4>2. Founded(a)'
        BY <1>2, <2>1, <4>1 DEF Founded
      <4> QED BY <2>1, <4>1, <4>2, OthersStayFounded
    <3>2. CASE own[a] = NothingOwn
      <4>1. base' = [base EXCEPT ![a] = main] /\ UNCHANGED <<main, emptyClones, own, call>>
            /\ HasRecord(a)
        BY <2>15, <3>2 DEF SyncRecord
      <4>2. base'[a] = main /\ main # NoMain /\ a \notin emptyClones
        BY <1>2, <1>3, <2>1, <3>2, <4>1 DEF Founded
      <4>3. main.manifest # NoName
        BY <4>2 DEF FoundedOnce
      <4>4. Founded(a)'
        BY <1>3, <2>1, <3>2, <4>1, <4>2, <4>3 DEF Founded
      <4> QED BY <2>1, <4>1, <4>4, OthersStayFounded
    <3> QED BY <3>1, <3>2
  <2>16. recordScope.names \subseteq NetNames
    BY RecordAssumption DEF RecordTypeOK, RecordScope
  <2>17. CASE Found(a)
    BY <2>17, <2>2, <2>3, <2>4, <2>5, <2>8, <2>9, <2>16 DEF Found
  <2>18. CASE PushMain(a)
    BY <2>18, <2>5, <2>6, <2>7, <2>8 DEF PushMain
  <2>19. CASE OpenRoom(a)
    BY <2>19, <2>8, <2>11, <2>12 DEF OpenRoom
  <2>20. CASE \E r \in RecordRooms : OnRoom(a, r)
    BY <2>10, <2>20 DEF OnRoom, MachineRoom
  <2> QED
    BY <1>4, <2>8, <2>14, <2>15, <2>17, <2>18, <2>19, <2>20
<1>5. recordScope.clones \subseteq Clones /\ recordScope.rooms \subseteq RecordRooms
  BY RecordAssumption DEF RecordTypeOK, RecordScope
<1> QED
  BY <1>1, <1>4, <1>5 DEF RecordNext

-----------------------------------------------------------------------------
\* RoomsAreConfigured, for one room.
Configured(r) ==
  \/ r \in main.rooms
  \/ \E a \in Clones : r \in own[a].rooms \/ call[a] = [step |-> "opened", room |-> r]

\* A room stays configured if the clone that acts loses nothing of it that is not on main.
LEMMA OthersStayConfigured ==
  ASSUME RoomsAreConfigured, NEW a \in Clones, main.rooms \subseteq main'.rooms,
         branches' = branches, abandoned \subseteq abandoned',
         \A b \in Clones \ {a} : UNCHANGED <<own[b], call[b]>>,
         own[a].rooms \subseteq own'[a].rooms \cup main'.rooms,
         call[a].step = "opened" => call' = call \/ call[a].room \in own'[a].rooms \cup abandoned'
  PROVE  RoomsAreConfigured'
<1>1. ASSUME NEW r \in branches' \ abandoned'
      PROVE  r \in main'.rooms
             \/ \E b \in Clones : r \in own'[b].rooms \/ call'[b] = [step |-> "opened", room |-> r]
  <2>1. r \in branches \ abandoned
    BY <1>1
  <2>2. CASE r \in main.rooms
    BY <2>2
  <2>3. ASSUME NEW b \in Clones, r \in own[b].rooms
        PROVE r \in main'.rooms \/ \E c \in Clones : r \in own'[c].rooms
    BY <2>3
  <2>4. ASSUME NEW b \in Clones, call[b] = [step |-> "opened", room |-> r]
        PROVE  \/ \E c \in Clones : r \in own'[c].rooms 
               \/ call'[b] = [step |-> "opened", room |-> r]
    BY <2>4, <1>1
  <2> QED BY <2>1, <2>2, <2>3, <2>4 DEF RoomsAreConfigured
<1> QED
  BY <1>1 DEF RoomsAreConfigured

\* RoomsAreConfigured is inductive with typing.
LEMMA ConfigurationStays ==
  ASSUME RecordTypeOK, CallsNameRooms, RoomsAreConfigured, [RecordNext]_recordVars
  PROVE  RoomsAreConfigured'
<1> USE DEF worktreeVars, roomVars, Idle, Does, Done, RecordCall
<1>1. CASE UNCHANGED recordVars
  BY <1>1 DEF recordVars, RoomsAreConfigured
<1>4. ASSUME NEW a \in Clones, Found(a) \/ PushMain(a) \/ OpenRoom(a) \/ OnCard(a) \/ SyncRecord(a)
             \/ RecordDies(a)
               \/ \E r \in RecordRooms : OnRoom(a, r)
      PROVE  RoomsAreConfigured'
  <2>1. /\ own \in [Clones -> Own] /\ call \in [Clones -> RecordCall]
        /\ DOMAIN own = Clones /\ DOMAIN call = Clones
        /\ own[a] \in Own /\ NothingOwn.rooms = {} /\ NoMain.rooms = {}
    BY DEF RecordTypeOK, NothingOwn, NoMain
  <2>2. ASSUME NEW name, FoundRecord(a, name)
        PROVE  RoomsAreConfigured'
    <3>1. own' = [own EXCEPT ![a].manifest = name] /\ call[a].step # "opened"
      BY <2>2 DEF FoundRecord, Unlocked
    <3>2. own'[a].rooms = own[a].rooms
      BY <3>1, <2>1 DEF Own
    <3> QED BY <2>1, <2>2, <3>1, <3>2, OthersStayConfigured DEF FoundRecord
  <2>3. CASE FoundPushed(a) \/ MainAccepted(a)
    <3>1. /\ main' = View(a) /\ own' = [own EXCEPT ![a] = NothingOwn]
          /\ branches' = branches /\ abandoned' = abandoned
          /\ call' = [call EXCEPT ![a] = Idle]
          /\ call[a].step # "opened" /\ (base[a] = main \/ main = NoMain)
      BY <2>3 DEF FoundPushed, MainAccepted, PushesMain, Pushable
    <3>2. main.rooms \subseteq main'.rooms /\ own[a].rooms \subseteq main'.rooms
      BY <2>1, <3>1, Viewed
    <3> QED BY <2>1, <3>1, <3>2, OthersStayConfigured
  <2>4. CASE MainUnanswered(a)
    <3>1. main.rooms \subseteq main'.rooms
      BY <2>4, Viewed DEF MainUnanswered, Pushable
    <3> QED BY <2>4, <3>1, OthersStayConfigured DEF MainUnanswered
  <2>5. CASE MainRejected(a)
    <3>1. own'
            = [own EXCEPT ![a].manifest = IF main.manifest = NoName THEN own[a].manifest
                                          ELSE NoName]
      BY <2>5 DEF MainRejected, Rebased
    <3>2. own'[a].rooms = own[a].rooms
      BY <3>1, <2>1 DEF Own
    <3> QED BY <2>1, <2>5, <3>1, <3>2, OthersStayConfigured DEF MainRejected
  <2>6. CASE BranchPushed(a)
    <3>1. /\ call' = [call EXCEPT ![a] = [step |-> "opened", room |-> call[a].room]]
          /\ branches' = branches \cup {call[a].room} /\ UNCHANGED <<own, main, abandoned>>
          /\ call[a].step # "opened"
      BY <2>6 DEF BranchPushed
    <3>2. call'[a] = [step |-> "opened", room |-> call[a].room]
          /\ \A b \in Clones \ {a} : call'[b] = call[b]
      BY <2>1, <3>1
    <3>3. ASSUME NEW r \in branches \ abandoned
          PROVE  Configured(r)'
      <4>1. Configured(r)
        BY <3>3 DEF RoomsAreConfigured, Configured
      <4> QED BY <3>1, <3>2, <4>1 DEF Configured
    <3>4. Configured(call[a].room)'
      BY <3>2 DEF Configured
    <3> QED BY <3>1, <3>3, <3>4 DEF RoomsAreConfigured, Configured
  <2>7. CASE ConfigCommitted(a)
    <3>1. own' = [own EXCEPT ![a].rooms = own[a].rooms \cup {call[a].room}]
      BY <2>7 DEF ConfigCommitted
    <3>2. own'[a].rooms = own[a].rooms \cup {call[a].room}
      BY <3>1, <2>1 DEF Own
    <3> QED BY <2>1, <2>7, <3>1, <3>2, OthersStayConfigured DEF ConfigCommitted
  <2>8. CASE RecordDies(a)
    BY <2>1, <2>8, OthersStayConfigured DEF RecordDies
  <2>9. CASE \/ CloneRecord(a) \/ CloneEmpty(a) \/ FoundRefused(a) \/ FoundAgain(a)
                \/ MainGivesUp(a)
             \/ BranchRefused(a) \/ PublishFails(a) \/ \E s \in recordScope.sessions : Lapse(a, s)
    BY <2>1, <2>9, OthersStayConfigured
       DEF CloneRecord, CloneEmpty, FoundRefused, FoundAgain, MainGivesUp, BranchRefused,
       PublishFails, Lapse, PushesMain
  <2>10. ASSUME NEW r, CreateRoom(a, r) \/ JoinFails(a, r) \/ Join(a, r) \/ Leave(a, r)
         PROVE  RoomsAreConfigured'
    BY <2>1, <2>10, OthersStayConfigured DEF CreateRoom, JoinFails, Join, Leave, Unlocked
  <2>11. ASSUME NEW presence, Unlocked(a), WriteCard(a, presence),
                UNCHANGED <<main, branches, abandoned>>
         PROVE  RoomsAreConfigured'
    <3>1. CASE UNCHANGED <<own, call>>
      BY <2>11, <3>1, OthersStayConfigured
    <3>2. ASSUME NEW card, own' = [own EXCEPT ![a].card = card], Does(a, "recording", NoRoom)
          PROVE  RoomsAreConfigured'
      <4>1. own'[a].rooms = own[a].rooms /\ call[a].step # "opened"
        BY <2>1, <2>11, <3>2 DEF Own, Unlocked
      <4> QED BY <2>1, <2>11, <3>2, <4>1, OthersStayConfigured
    <3> QED
      BY <2>11, <3>1, <3>2 DEF WriteCard
  <2>12. CASE OnCard(a)
    BY <2>9, <2>11, <2>12 DEF OnCard, PublishCard, AnnounceSession, Announce
  <2>13. CASE SyncRecord(a)
    <3>1. UNCHANGED <<main, own, branches, abandoned>> /\ call[a].step # "opened"
          /\ \A b \in Clones \ {a} : call'[b] = call[b]
      BY <2>1, <2>13 DEF SyncRecord, Unlocked
    <3> QED BY <3>1, OthersStayConfigured
  <2>17. CASE Found(a)
    BY <2>17, <2>2, <2>3, <2>9 DEF Found
  <2>18. CASE PushMain(a)
    BY <2>18, <2>3, <2>4, <2>5, <2>9 DEF PushMain
  <2>19. CASE OpenRoom(a)
    BY <2>19, <2>6, <2>7, <2>9 DEF OpenRoom
  <2>20. CASE \E r \in RecordRooms : OnRoom(a, r)
    BY <2>10, <2>20 DEF OnRoom, MachineRoom
  <2> QED
    BY <1>4, <2>8, <2>12, <2>13, <2>17, <2>18, <2>19, <2>20
<1>5. recordScope.clones \subseteq Clones /\ recordScope.rooms \subseteq RecordRooms
  BY RecordAssumption DEF RecordTypeOK, RecordScope
<1> QED
  BY <1>1, <1>4, <1>5 DEF RecordNext

-----------------------------------------------------------------------------
\* Only a itself writes its card: as long as it has not, main has the card it began with.
CardsFollow == \A a \in Clones : own[a].card = NoCard => main.cards[a] = base[a].cards[a]

\* The card holds the sessions that are attached, and says away only of none.
SessionsKept(a) ==
  /\ Len(Known(a).sessions) <= MaxTracked
  /\ Known(a).status = "away" => Known(a).sessions = <<>>
  /\ a \notin crowded => attached[a] \subseteq ToSet(Known(a).sessions) \ lapsed[a]
SessionsAreKept == \A a \in Clones : SessionsKept(a)

\* What a knows of itself, part by part.
MyCard(a) == IF own[a].card # NoCard THEN own[a].card ELSE base[a].cards[a]

LEMMA KnownByParts ==
  ASSUME RecordTypeOK, NEW a \in Clones
  PROVE  Known(a) = IF MyCard(a) = NoCard THEN FirstCard ELSE MyCard(a)
BY Viewed DEF Known, MyCard

\* It is enough to look at the clone that acts.
LEMMA KeptUnlessKnownChanges ==
  ASSUME SessionsAreKept, NEW a \in Clones,
         \A b \in Clones \ {a} : /\ Known(b)' = Known(b) /\ lapsed'[b] = lapsed[b]
                                  /\ attached'[b] \subseteq attached[b],
         crowded \subseteq crowded', SessionsKept(a)'
  PROVE  SessionsAreKept'
BY DEF SessionsAreKept, SessionsKept

\* A step that writes no card leaves what the clones know of themselves.
LEMMA CardsStay ==
  ASSUME RecordTypeOK, RecordTypeOK', CardsFollow, NEW a \in Clones,
         \A b \in Clones \ {a} : UNCHANGED <<own[b], base[b]>> /\ main'.cards[b] = main.cards[b],
         \/ UNCHANGED <<own[a].card, base[a].cards[a], main.cards[a]>>
         \/ own'[a].card = own[a].card /\ base'[a].cards[a] = main.cards[a]
            /\ main'.cards[a] = main.cards[a]
         \/ own'[a].card = NoCard /\ base'[a].cards[a] = MyCard(a) /\ main'.cards[a] = MyCard(a)
         \/ UNCHANGED <<own[a].card, base[a].cards[a]>> /\ main'.cards[a] = MyCard(a)
  PROVE  CardsFollow' /\ \A b \in Clones : Known(b)' = Known(b)
<1>1. \A b \in Clones : MyCard(b)' = MyCard(b)
  BY DEF CardsFollow, MyCard
<1>2. CardsFollow'
  BY DEF CardsFollow, MyCard
<1>3. \A b \in Clones : Known(b)' = IF MyCard(b)' = NoCard THEN FirstCard ELSE MyCard(b)'
  <2>1. ASSUME NEW b \in Clones
        PROVE  View(b)'.cards[b] = MyCard(b)'
    <3>1. base'[b].cards \in [Clones -> Card \cup {NoCard}]
      BY DEF RecordTypeOK, Main
    <3> QED BY <3>1 DEF View, Overlaid, MyCard
  <2> QED BY <2>1 DEF Known, FirstCard
<1> QED
  BY <1>1, <1>2, <1>3, KnownByParts

\* The writer of a card knows of itself what it wrote, whether that was new or not.
LEMMA CardWritten ==
  ASSUME RecordTypeOK, RecordTypeOK', CardsFollow, NEW a \in Clones, NEW presence,
         WriteCard(a, presence),
         presence.status \in {"live", "away"}, presence.sessions \in Seq(Sessions),
         UNCHANGED <<main, base>>
  PROVE  /\ CardsFollow' /\ \A b \in Clones \ {a} : Known(b)' = Known(b)
         /\ Known(a)'.status = presence.status /\ Known(a)'.sessions = presence.sessions
<1> DEFINE card == [rooms |-> memberships[a], status |-> presence.status,
                    sessions |-> presence.sessions]
<1>1. card \in Card /\ card # NoCard
  BY RecordAssumption DEF RecordTypeOK, Card
<1>2. card.status = presence.status /\ card.sessions = presence.sessions
  OBVIOUS
<1>3. \A b \in Clones : View(b)'.cards[b] = MyCard(b)'
  <2>1. ASSUME NEW b \in Clones
        PROVE  View(b)'.cards[b] = MyCard(b)'
    <3>1. base'[b].cards \in [Clones -> Card \cup {NoCard}]
      BY DEF RecordTypeOK, Main
    <3> QED BY <3>1 DEF View, Overlaid, MyCard
  <2> QED BY <2>1
<1>4. \A b \in Clones : Known(b)' = IF MyCard(b)' = NoCard THEN FirstCard ELSE MyCard(b)'
  BY <1>3 DEF Known, FirstCard
<1>5. \/ card = View(a).cards[a] /\ own' = own
      \/ own' = [own EXCEPT ![a].card = card]
  BY DEF WriteCard
<1>6. View(a).cards[a] = MyCard(a)
  BY Viewed DEF MyCard
<1> HIDE DEF card
<1>7. CASE card = View(a).cards[a] /\ own' = own
  <2>1. CardsFollow' /\ \A b \in Clones : MyCard(b)' = MyCard(b)
    BY <1>7 DEF CardsFollow, MyCard
  <2> QED BY <1>1, <1>2, <1>4, <1>6, <1>7, <2>1, KnownByParts
<1>8. CASE own' = [own EXCEPT ![a].card = card]
  <2>1. own'[a].card = card /\ \A b \in Clones \ {a} : own'[b] = own[b]
    BY <1>8 DEF RecordTypeOK, Own
  <2>2. CardsFollow' /\ MyCard(a)' = card /\ \A b \in Clones \ {a} : MyCard(b)' = MyCard(b)
    BY <1>1, <2>1 DEF CardsFollow, MyCard
  <2> QED BY <1>1, <1>2, <1>4, <2>2, KnownByParts
<1> QED
  BY <1>5, <1>7, <1>8

\* A declaration adds or removes its session and no other, unless the card is full.
LEMMA ReconciledKeeps ==
  ASSUME RecordTypeOK, NEW a \in Clones, NEW how \in {"live", "away"}, NEW s \in Sessions,
         Len(Known(a).sessions) <= MaxTracked
  PROVE  LET left == Reconciled(a, how, s)
         IN  /\ Len(left.sessions) <= MaxTracked
             /\ left.status = "away" => left.sessions = <<>>
             /\ how = "away" => ToSet(left.sessions) = ToSet(Within12h(a)) \ {s}
             /\ how = "live" /\ Len(Within12h(a)) # MaxTracked
                => ToSet(left.sessions) = ToSet(Within12h(a)) \cup {s}
<1> DEFINE kept == Within12h(a)
           left == Remaining(kept, {s})
           all == IF s \in ToSet(kept) THEN kept ELSE Append(kept, s)
           drop == Len(all) - (IF Len(all) > MaxTracked THEN MaxTracked ELSE Len(all)) + 1
           next == IF how = "away" THEN left ELSE SubSeq(all, drop, Len(all))
<1>1. kept \in Seq(Sessions) /\ Known(a).sessions \in Seq(Sessions)
  BY KnownTyped DEF Card
<1>2. Len(kept) <= Len(Known(a).sessions) /\ Len(kept) <= MaxTracked
  BY <1>1, RemainingIs, RecordAssumption DEF Within12h
<1>3. left \in Seq(Sessions) /\ ToSet(left) = ToSet(kept) \ {s} /\ Len(left) <= MaxTracked
  BY <1>1, <1>2, RemainingIs, RecordAssumption
<1>4. all \in Seq(Sessions) /\ ToSet(all) = ToSet(kept) \cup {s}
      /\ Len(all) \in {Len(kept), Len(kept) + 1}
  BY <1>1, ToSetAppend
<1>5. Reconciled(a, how, s)
        = [status |-> IF next = <<>> THEN "away" ELSE "live", sessions |-> next]
  BY DEF Reconciled
<1>6. MaxTracked \in Nat /\ Len(kept) \in Nat /\ Len(all) \in Nat
  BY <1>1, <1>4, RecordAssumption
<1>7. \A n, m \in Nat : LET d == n - (IF n > m THEN m ELSE n) + 1
                        IN  d \in 1..(n + 1) /\ n - d + 1 <= m /\ (n <= m => d = 1)
  OBVIOUS
<1> HIDE DEF all, left
<1>8. drop \in 1..(Len(all) + 1) /\ Len(all) - drop + 1 <= MaxTracked
      /\ (Len(all) <= MaxTracked => drop = 1)
  BY <1>6, <1>7
<1> HIDE DEF drop
<1>9. Len(SubSeq(all, drop, Len(all))) <= MaxTracked
  BY <1>4, <1>6, <1>8
<1>10. Len(all) <= MaxTracked => SubSeq(all, drop, Len(all)) = all
  BY <1>4, <1>6, <1>8
<1>11. Len(next) <= MaxTracked
  BY <1>3, <1>9
<1>12. how = "away" => ToSet(next) = ToSet(kept) \ {s}
  BY <1>3
<1>13. how = "live" /\ Len(kept) # MaxTracked => ToSet(next) = ToSet(kept) \cup {s}
  <2>1. ASSUME how = "live", Len(kept) # MaxTracked
        PROVE  next = all
    <3>1. Len(all) <= MaxTracked
      BY <1>2, <1>4, <1>6, <2>1
    <3> QED BY <1>10, <2>1, <3>1
  <2> HIDE DEF next
  <2> QED BY <1>4, <2>1
<1> HIDE DEF next, kept
<1> QED
  BY <1>5, <1>11, <1>12, <1>13 DEF kept

\* CardsFollow and SessionsAreKept are inductive with typing and FoundedOnce.
LEMMA SessionsStay ==
  ASSUME RecordTypeOK, RecordTypeOK', FoundedOnce, CardsFollow, SessionsAreKept,
         [RecordNext]_recordVars
  PROVE  CardsFollow' /\ SessionsAreKept'
<1> USE DEF worktreeVars, roomVars, presenceVars
<1>1. CASE UNCHANGED recordVars
  BY <1>1 DEF recordVars, CardsFollow, SessionsAreKept, SessionsKept, Known, View
<1>2. ASSUME NEW a \in Clones, CardsFollow', UNCHANGED <<attached, lapsed, crowded>>,
             \A b \in Clones : Known(b)' = Known(b)
      PROVE  CardsFollow' /\ SessionsAreKept'
  BY <1>2 DEF SessionsAreKept, SessionsKept
<1>3. ASSUME NEW a \in Clones, Found(a) \/ PushMain(a) \/ OpenRoom(a) \/ SyncRecord(a)
             \/ RecordDies(a)
               \/ \E r \in RecordRooms : OnRoom(a, r)
      PROVE  CardsFollow' /\ SessionsAreKept'
  <2>1. /\ own \in [Clones -> Own] /\ base \in [Clones -> Main] /\ main \in Main
        /\ DOMAIN own = Clones /\ DOMAIN base = Clones
        /\ own[a] \in Own /\ NothingOwn.card = NoCard /\ NoMain.manifest = NoName
    BY DEF RecordTypeOK, NothingOwn, NoMain
  <2>2. CASE \E name \in recordScope.names : FoundRecord(a, name)
    <3>1. PICK name : FoundRecord(a, name)
      BY <2>2
    <3>2. own' = [own EXCEPT ![a].manifest = name] /\ UNCHANGED <<base, main, attached, lapsed,
          crowded>>
      BY <3>1 DEF FoundRecord
    <3>3. own'[a].card = own[a].card
      BY <2>1, <3>2 DEF Own
    <3> QED BY <1>2, <2>1, <3>2, <3>3, CardsStay
  <2>3. CASE FoundPushed(a) \/ MainAccepted(a)
    <3>1. /\ main' = View(a) /\ own' = [own EXCEPT ![a] = NothingOwn]
          /\ base' = [base EXCEPT ![a] = View(a)]
          /\ UNCHANGED <<attached, lapsed, crowded>>
          /\ call[a] # Idle /\ (base[a] = main \/ main = NoMain)
      BY <2>3 DEF FoundPushed, MainAccepted, PushesMain, Pushable, Idle
    <3>2. base[a] = main
      BY <2>1, <3>1 DEF FoundedOnce
    <3>3. \A b \in Clones \ {a} : main'.cards[b] = main.cards[b]
      BY <3>1, <3>2, Viewed
    <3>4. main'.cards[a] = MyCard(a)
      BY <3>1, Viewed DEF MyCard
    <3> QED BY <1>2, <2>1, <3>1, <3>3, <3>4, CardsStay
  <2>4. CASE MainUnanswered(a)
    <3>1. main' = View(a) /\ base[a] = main /\ UNCHANGED <<own, base, attached, lapsed, crowded>>
      BY <2>4 DEF MainUnanswered, Pushable
    <3>2. main'.cards[a] = MyCard(a) /\ \A b \in Clones \ {a} : main'.cards[b] = main.cards[b]
      BY <3>1, Viewed DEF MyCard
    <3> QED BY <1>2, <3>1, <3>2, CardsStay
  <2>5. CASE MainRejected(a)
    <3>1. /\ own'
               = [own EXCEPT ![a].manifest = IF main.manifest = NoName THEN own[a].manifest
                                             ELSE NoName]
          /\ base' = [base EXCEPT ![a] = main] /\ UNCHANGED <<main, attached, lapsed, crowded>>
      BY <2>5 DEF MainRejected, Rebased
    <3>2. own'[a].card = own[a].card
      BY <3>1, <2>1 DEF Own
    <3> QED BY <1>2, <2>1, <3>1, <3>2, CardsStay
  <2>6. CASE ConfigCommitted(a)
    <3>1. own' = [own EXCEPT ![a].rooms = own[a].rooms \cup {call[a].room}] /\ UNCHANGED <<base,
          main, attached, lapsed, crowded>>
      BY <2>6 DEF ConfigCommitted
    <3>2. own'[a].card = own[a].card
      BY <3>1, <2>1 DEF Own
    <3> QED BY <1>2, <2>1, <3>1, <3>2, CardsStay
  <2>7. CASE CloneRecord(a) \/ SyncRecord(a)
    <3>1. UNCHANGED <<own, main, attached, lapsed, crowded>>
          /\ (base' = base \/ base' = [base EXCEPT ![a] = main])
      BY <2>7 DEF CloneRecord, SyncRecord
    <3> QED BY <1>2, <2>1, <3>1, CardsStay
  <2>8. CASE \/ CloneEmpty(a) \/ FoundRefused(a) \/ FoundAgain(a) \/ MainGivesUp(a)
                \/ BranchPushed(a) \/ BranchRefused(a)
             \/ RecordDies(a) \/ \E r \in RecordRooms : CreateRoom(a, r) \/ JoinFails(a, r)
                \/ Join(a, r) \/ Leave(a, r)
    <3>1. UNCHANGED <<own, main, base, attached, lapsed, crowded>>
      BY <2>8 DEF CloneEmpty, FoundRefused, FoundAgain, MainGivesUp, BranchPushed, BranchRefused,
         RecordDies,
        CreateRoom, JoinFails, Join, Leave
    <3> QED BY <1>2, <3>1, CardsStay
  <2> QED
    BY <1>3, <2>2, <2>3, <2>4, <2>5, <2>6, <2>7, <2>8
       DEF Found, PushMain, OpenRoom, OnRoom, MachineRoom
<1>4. ASSUME NEW a \in Clones, OnCard(a)
      PROVE  CardsFollow' /\ SessionsAreKept'
  <2>1. /\ Known(a) \in Card /\ Within12h(a) \in Seq(Sessions) /\ SessionsKept(a)
        /\ Known(a).status \in {"live", "away"} /\ Known(a).sessions \in Seq(Sessions)
        /\ ToSet(Within12h(a)) = ToSet(Known(a).sessions) \ lapsed[a]
        /\ Len(Within12h(a)) <= MaxTracked
        /\ attached \in [Clones -> SUBSET Sessions] /\ lapsed \in [Clones -> SUBSET Sessions]
    <3>1. Known(a) \in Card /\ Within12h(a) \in Seq(Sessions)
      BY KnownTyped
    <3>2. Known(a).status \in {"live", "away"} /\ Known(a).sessions \in Seq(Sessions)
      BY <3>1 DEF Card
    <3>3. /\ ToSet(Within12h(a)) = ToSet(Known(a).sessions) \ lapsed[a]
          /\ Len(Within12h(a)) <= Len(Known(a).sessions)
      BY <3>2, RemainingIs DEF Within12h
    <3>4. Len(Within12h(a)) <= MaxTracked
      BY <3>1, <3>2, <3>3, RecordAssumption DEF SessionsAreKept, SessionsKept
    <3> QED BY <3>1, <3>2, <3>3, <3>4 DEF SessionsAreKept, RecordTypeOK
  <2>2. CASE PublishCard(a)
    <3>1. CardsFollow' /\ (\A b \in Clones \ {a} : Known(b)' = Known(b))
          /\ Known(a)'.status = Known(a).status /\ Known(a)'.sessions = Known(a).sessions
      BY <2>1, <2>2, CardWritten DEF PublishCard
    <3>2. SessionsKept(a)'
      BY <2>1, <2>2, <3>1 DEF SessionsKept, PublishCard
    <3> QED BY <2>2, <3>1, <3>2, KeptUnlessKnownChanges DEF PublishCard
  <2>3. CASE PublishFails(a)
    BY <1>2, <2>3, CardsStay DEF PublishFails
  <2>4. ASSUME NEW s \in Sessions, NEW how \in {"live", "away"}, AnnounceSession(a, how, s)
        PROVE  CardsFollow' /\ SessionsAreKept'
    <3> DEFINE next == Reconciled(a, how, s)
    <3>1. /\ Len(next.sessions) <= MaxTracked
          /\ next.status = "away" => next.sessions = <<>>
          /\ how = "away" => ToSet(next.sessions) = ToSet(Within12h(a)) \ {s}
          /\ how = "live" /\ Len(Within12h(a)) # MaxTracked
             => ToSet(next.sessions) = ToSet(Within12h(a)) \cup {s}
          /\ next.status \in {"live", "away"} /\ next.sessions \in Seq(Sessions)
      BY <2>1, ReconciledKeeps, ReconciledTyped DEF SessionsKept
    <3> HIDE DEF next
    <3>2. CardsFollow' /\ (\A b \in Clones \ {a} : Known(b)' = Known(b))
          /\ Known(a)'.status = next.status /\ Known(a)'.sessions = next.sessions
      BY <2>4, <3>1, CardWritten DEF AnnounceSession, next
    <3>3. lapsed' = [lapsed EXCEPT ![a] = {}] /\ NowAttached(a, how, s)
      BY <2>4 DEF AnnounceSession
    <3>4. a \notin crowded' => attached'[a] \subseteq ToSet(next.sessions) /\ a \notin crowded
      BY <2>1, <3>1, <3>3 DEF NowAttached, SessionsKept
    <3>5. SessionsKept(a)'
      BY <2>1, <3>1, <3>2, <3>3, <3>4 DEF SessionsKept
    <3>6. crowded \subseteq crowded' /\ \A b \in Clones \ {a} : attached'[b] = attached[b]
          /\ lapsed'[b] = lapsed[b]
      BY <2>1, <3>3 DEF NowAttached
    <3> QED BY <3>2, <3>5, <3>6, KeptUnlessKnownChanges
  <2>5. ASSUME NEW how \in {"live", "away"}, Announce(a, how)
        PROVE  CardsFollow' /\ SessionsAreKept'
    <3> DEFINE listed == IF how = "away" THEN <<>> ELSE Within12h(a)
    <3>1. /\ Len(listed) <= MaxTracked /\ listed \in Seq(Sessions)
          /\ how = "away" => listed = <<>>
          /\ how = "live" => ToSet(listed) = ToSet(Known(a).sessions) \ lapsed[a]
      BY <2>1, RecordAssumption
    <3>1a. WriteCard(a, [status |-> how, sessions |-> listed])
      BY <2>5 DEF Announce
    <3> HIDE DEF listed
    <3>2. CardsFollow' /\ (\A b \in Clones \ {a} : Known(b)' = Known(b))
          /\ Known(a)'.status = how /\ Known(a)'.sessions = listed
      BY <2>5, <3>1, <3>1a, CardWritten DEF Announce
    <3>3. /\ lapsed' = [lapsed EXCEPT ![a] = {}] /\ crowded' = crowded
          /\ attached' = [attached EXCEPT ![a] = IF how = "away" THEN {} ELSE attached[a]]
      BY <2>5 DEF Announce
    <3>4. SessionsKept(a)'
      BY <2>1, <3>1, <3>2, <3>3 DEF SessionsKept
    <3>5. \A b \in Clones \ {a} : attached'[b] = attached[b] /\ lapsed'[b] = lapsed[b]
      BY <2>1, <3>3
    <3> QED BY <3>2, <3>3, <3>4, <3>5, KeptUnlessKnownChanges
  <2>6. ASSUME NEW s \in Sessions, Lapse(a, s)
        PROVE  CardsFollow' /\ SessionsAreKept'
    <3>1. CardsFollow' /\ \A b \in Clones : Known(b)' = Known(b)
      BY <2>6, CardsStay DEF Lapse
    <3>2. /\ lapsed' = [lapsed EXCEPT ![a] = lapsed[a] \cup {s}] /\ crowded' = crowded
          /\ attached' = [attached EXCEPT ![a] = attached[a] \ {s}]
      BY <2>6 DEF Lapse
    <3>3. SessionsKept(a)'
      BY <2>1, <3>1, <3>2 DEF SessionsKept
    <3>4. \A b \in Clones \ {a} : attached'[b] = attached[b] /\ lapsed'[b] = lapsed[b]
      BY <2>1, <3>2
    <3> QED BY <3>1, <3>2, <3>3, <3>4, KeptUnlessKnownChanges
  <2>7. recordScope.sessions \subseteq Sessions
    BY RecordAssumption DEF RecordTypeOK, RecordScope
  <2> QED
    BY <1>4, <2>2, <2>3, <2>4, <2>5, <2>6, <2>7 DEF OnCard
<1>5. recordScope.clones \subseteq Clones /\ recordScope.rooms \subseteq RecordRooms
  BY RecordAssumption DEF RecordTypeOK, RecordScope
<1> QED
  BY <1>1, <1>3, <1>4, <1>5 DEF RecordNext

-----------------------------------------------------------------------------
\* The inductive invariant.
RecordInv ==
  /\ RecordTypeOK /\ CallsNameRooms /\ FoundedOnce /\ RoomsAreConfigured /\ CardsFollow
     /\ SessionsAreKept

\* It holds at first,
LEMMA RecordInvInit == RecordInit => RecordInv
<1> SUFFICES ASSUME RecordInit
             PROVE  RecordInv
  OBVIOUS
<1>1. NoMain \in Main /\ NothingOwn \in Own /\ Idle \in RecordCall /\ <<>> \in Seq(Sessions)
  BY DEF NoMain, Main, NothingOwn, Own, Idle, RecordCall
<1>2. RecordTypeOK
  BY <1>1 DEF RecordInit, RecordTypeOK
<1>3. CallsNameRooms
  BY DEF RecordInit, CallsNameRooms, Idle
<1>4. \A a \in Clones : base[a] = NoMain /\ own[a] = NothingOwn /\ call[a] = Idle
      /\ attached[a] = {}
  BY DEF RecordInit
<1>5. NothingOwn.manifest = NoName /\ NothingOwn.card = NoCard
  BY DEF NothingOwn
<1>6. FoundedOnce
  BY <1>4, <1>5 DEF RecordInit, FoundedOnce
<1>7. RoomsAreConfigured
  BY DEF RecordInit, RoomsAreConfigured
<1>8. CardsFollow
  BY <1>4 DEF RecordInit, CardsFollow
<1>9. \A a \in Clones : Known(a) = FirstCard
  BY <1>2, <1>4, <1>5, KnownByParts DEF MyCard, NoMain
<1>10. FirstCard.sessions = <<>> /\ Len(<<>>) <= MaxTracked
  BY RecordAssumption DEF FirstCard
<1>11. SessionsAreKept
  BY <1>4, <1>9, <1>10 DEF SessionsAreKept, SessionsKept
<1> QED
  BY <1>2, <1>3, <1>6, <1>7, <1>8, <1>11 DEF RecordInv

\* every step keeps it,
LEMMA RecordInvNext == RecordInv /\ [RecordNext]_recordVars => RecordInv'
<1> SUFFICES ASSUME RecordInv, [RecordNext]_recordVars
             PROVE  RecordInv'
  OBVIOUS
<1>1. RecordTypeOK' /\ CallsNameRooms'
  BY RecordStepTyped DEF RecordInv
<1>2. FoundedOnce'
  BY FoundingStays DEF RecordInv
<1>3. RoomsAreConfigured'
  BY ConfigurationStays DEF RecordInv
<1>4. CardsFollow' /\ SessionsAreKept'
  BY <1>1, SessionsStay DEF RecordInv
<1> QED
  BY <1>1, <1>2, <1>3, <1>4 DEF RecordInv

\* and so it always holds.
LEMMA RecordInvHolds == RecordSpec => []RecordInv
BY RecordInvInit, RecordInvNext, PTL DEF RecordSpec

\* Every value stays what the code takes it for.
THEOREM RecordTyped == RecordSpec => []RecordTypeOK
<1>1. RecordInv => RecordTypeOK
  BY DEF RecordInv
<1> QED
  BY <1>1, RecordInvHolds, PTL

\* Nobody's push takes back what is on main: not by a rebase, not after an answer that was lost,
\* and not by a second founding.
THEOREM MainStays == RecordSpec => MainKeepsRecords
<1> DEFINE A == /\ main.manifest \in {NoName, main'.manifest}
                /\ main.rooms \subseteq main'.rooms
                /\ \A a \in Clones : main'.cards[a] \in {main.cards[a], View(a)'.cards[a]}
<1>1. RecordInv /\ [RecordNext]_recordVars => [A]_recordVars
  BY PushesKeepRecords DEF RecordInv
<1> QED
  BY <1>1, RecordInvHolds, PTL DEF RecordSpec, MainKeepsRecords

\* Whoever dies in the middle of whatever, a room on the remote is configured or somebody's clone
\* has its configuration and will push it, except where its creator failed right between the two.
THEOREM RoomsStayConfigured == RecordSpec => []RoomsAreConfigured
<1>1. RecordInv => RoomsAreConfigured
  BY DEF RecordInv
<1> QED
  BY <1>1, RecordInvHolds, PTL

\* While a session is attached the card says live, for as many sessions as a card can hold and
\* whatever else the agent's processes do to the card.
THEOREM SessionsStayLive == RecordSpec => []SessionsKeepLive
<1>1. RecordInv => SessionsKeepLive
  <2> SUFFICES ASSUME RecordInv, NEW a \in Clones \ crowded, attached[a] # {}
               PROVE  Known(a).status = "live"
    BY DEF SessionsKeepLive
  <2>1. SessionsKept(a) /\ Known(a) \in Card
    BY KnownTyped DEF RecordInv, SessionsAreKept
  <2>2. ToSet(<<>>) = {}
    BY DEF ToSet
  <2>3. Known(a).sessions # <<>>
    BY <2>1, <2>2 DEF SessionsKept
  <2>4. Known(a).status \in {"live", "away"}
    BY <2>1 DEF Card
  <2> QED
    BY <2>1, <2>3, <2>4 DEF SessionsKept
<1> QED
  BY <1>1, RecordInvHolds, PTL

=============================================================================
