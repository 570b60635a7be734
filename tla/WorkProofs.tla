----------------------------- MODULE WorkProofs -----------------------------
(***************************************************************************)
(* Proofs about the work that agents share through a room: a task          *)
(* (TaskRace), a review with its discussion (ReviewChain), the claims on a *)
(* resource (ResourceClaims).                                              *)
(*                                                                         *)
(* Each of the three is reduced from the events that a clone has, by a     *)
(* recursion over their ids.  What such a recursion computes is proved in  *)
(* the same three parts every time: the function exists (Recursion, by     *)
(* induction over the numbers up to a bound), so its equation may be used, *)
(* and an induction along the ids says what it yields.                     *)
(***************************************************************************)
EXTENDS TaskRace, ReviewChain, ResourceClaims, FiniteSetTheorems, WellFoundedInduction, TLAPS

\* A set of numbers has a least one.
LEMMA Least ==
  ASSUME NEW T, T \subseteq Nat, T # {}
  PROVE  \E x \in T : \A y \in T : x <= y
<1> DEFINE R == OpToRel(<, Nat)
<1>1. PICK x \in T : \A y \in T : ~ (<<y, x>> \in R)
  BY NatLessThanWellFounded, WFMin
<1>2. \A y \in Nat : <<y, x>> \in R <=> y < x
  BY <1>1 DEF OpToRel
<1>3. \A y \in T : ~ (y < x)
  BY <1>1, <1>2
<1> HIDE DEF R
<1> QED BY <1>1, <1>3

\* Induction, over the numbers in a set.
LEMMA Induction ==
  ASSUME NEW T, 0 \in T, \A n \in Nat : n \in T => n + 1 \in T
  PROVE  Nat \subseteq T
<1> SUFFICES ASSUME Nat \ T # {} PROVE FALSE
  OBVIOUS
<1>1. PICK x \in Nat \ T : \A y \in Nat \ T : x <= y
  BY Least
<1>2. x # 0 /\ x - 1 \in Nat
  BY <1>1
<1>3. x - 1 \in T
  BY <1>1, <1>2
<1> QED BY <1>1, <1>2, <1>3

\* And up to a bound.
LEMMA InductionUpTo ==
  ASSUME NEW N \in Nat, NEW T, 0 \in T, \A n \in 1..N : n - 1 \in T => n \in T
  PROVE  0..N \subseteq T
<1> DEFINE U == {n \in Nat : n <= N => n \in T}
<1>1. 0 \in U
  OBVIOUS
<1>2. ASSUME NEW n \in Nat, n \in U PROVE n + 1 \in U
  <2>1. n + 1 <= N => n + 1 \in 1..N /\ (n + 1) - 1 = n /\ n <= N
    OBVIOUS
  <2> QED BY <1>2, <2>1
<1>3. Nat \subseteq U
  <2> HIDE DEF U
  <2> QED BY <1>1, <1>2, Induction
<1> QED BY <1>3

\* There is a function of the numbers up to N that begins with init and goes on with Step.
Recurs(N, V, init, Step) ==
  \E f \in [0..N -> V] : f[0] = init /\ \A i \in 1..N : f[i] = Step[<<i, f[i - 1]>>]

\* A function that is defined by recursion on the number before exists, if its steps stay in V.
LEMMA Recursion ==
  ASSUME NEW N \in Nat, NEW V, NEW init \in V, NEW Step \in [(1..N) \X V -> V]
  PROVE  Recurs(N, V, init, Step)
<1> DEFINE Fits(f, n) == f \in [0..n -> V] /\ f[0] = init
    /\ \A i \in 1..n : f[i] = Step[<<i, f[i - 1]>>]
           T == {n \in 0..N : \E f : Fits(f, n)}
<1>1. 0 \in T
  <2> DEFINE f == [i \in 0..0 |-> init]
  <2>0. 0 \in 0..0 /\ \A i \in 1..0 : FALSE
    OBVIOUS
  <2>1. f \in [0..0 -> V] /\ f[0] = init
    BY <2>0
  <2> HIDE DEF f
  <2>2. Fits(f, 0)
    BY <2>0, <2>1
  <2> QED BY <2>2
<1>2. ASSUME NEW n \in 1..N, n - 1 \in T PROVE n \in T
  <2>1. PICK f : Fits(f, n - 1)
    BY <1>2
  <2> DEFINE g == [i \in 0..n |-> IF i = n THEN Step[<<n, f[n - 1]>>] ELSE f[i]]
  <2>2. /\ n - 1 \in Nat /\ n \in Nat /\ n # 0 /\ 0 \in 0..n /\ n - 1 \in 0..(n - 1)
        /\ \A i \in 0..n : i = n \/ i \in 0..(n - 1)
        /\ \A i \in 1..n : i \in 0..n /\ i - 1 \in 0..n /\ i - 1 # n /\ (i # n => i \in 1..(n - 1))
    OBVIOUS
  <2>3. Step[<<n, f[n - 1]>>] \in V
    BY <2>1, <2>2
  <2>4. g \in [0..n -> V]
    BY <2>1, <2>2, <2>3
  <2>5. g[n] = Step[<<n, f[n - 1]>>] /\ \A i \in 0..n : i # n => g[i] = f[i]
    BY <2>2
  <2> HIDE DEF g
  <2>6. Fits(g, n)
    BY <2>1, <2>2, <2>4, <2>5
  <2> QED BY <2>6
<1>3. 0..N \subseteq T
  <2> HIDE DEF T
  <2> QED BY <1>1, <1>2, InductionUpTo
<1>4. \E f : Fits(f, N)
  BY <1>3
<1> QED BY <1>4 DEF Recurs

\* A sequence that is one longer.
LEMMA OneLonger ==
  ASSUME NEW S, NEW s \in Seq(S), NEW x \in S
  PROVE  /\ s \o <<x>> \in Seq(S) /\ Len(s \o <<x>>) = Len(s) + 1 /\ Len(s) \in Nat
         /\ (s \o <<x>>)[Len(s) + 1] = x /\ \A i \in 1..Len(s) : (s \o <<x>>)[i] = s[i]
OBVIOUS

-----------------------------------------------------------------------------
\* The reduction after one more id.
AfterId(S, before, i) ==
  LET next == {e \in S : e.id = i /\ Accepted(before, e)}
  IN  IF next = {} THEN before
      ELSE [history |-> before.history \o <<CHOOSE e \in next : TRUE>>,
      ids |-> before.ids \cup {i}]

\* What Reduced computes, step by step.
LEMMA ReducedSteps ==
  ASSUME NEW S
  PROVE  \E r \in [0..MaxId -> [history: Seq(S), ids: SUBSET Ids]] :
           /\ Reduced(S) = r[MaxId] /\ r[0] = Nothing
           /\ \A i \in 1..MaxId : r[i] = AfterId(S, r[i - 1], i)
<1> DEFINE V == [history: Seq(S), ids: SUBSET Ids]
           Step == [p \in (1..MaxId) \X V |-> AfterId(S, p[2], p[1])]
           Is(f) == f = [i \in 0..MaxId |->
                           IF i = 0 THEN Nothing
                           ELSE LET before == f[i - 1]
                                    next   == {e \in S : e.id = i /\ Accepted(before, e)}
                                IN  IF next = {} THEN before
                                    ELSE [history |-> before.history \o <<CHOOSE e \in next : TRUE>>,
                                          ids     |-> before.ids \cup {i}]]
<1>0. MaxId \in Nat
  BY TaskAssumption
<1>1. Nothing \in V
  BY DEF Nothing
<1>2. ASSUME NEW i \in 1..MaxId, NEW b \in V PROVE AfterId(S, b, i) \in V
  <2> DEFINE next == {e \in S : e.id = i /\ Accepted(b, e)}
  <2>1. CASE next = {}
    BY <1>2, <2>1 DEF AfterId
  <2>2. CASE next # {}
    <3> DEFINE x == CHOOSE e \in next : TRUE
    <3>1. x \in S
      BY <2>2
    <3>2. AfterId(S, b, i) = [history |-> b.history \o <<x>>, ids |-> b.ids \cup {i}]
      BY <2>2 DEF AfterId
    <3> HIDE DEF x, next
    <3>3. b.history \o <<x>> \in Seq(S) /\ b.ids \cup {i} \subseteq Ids
      BY <3>1, OneLonger DEF Ids
    <3> QED BY <3>2, <3>3
  <2> QED BY <2>1, <2>2
<1>3. Step \in [(1..MaxId) \X V -> V]
  BY <1>2
<1>4. PICK f \in [0..MaxId -> V] : f[0] = Nothing
      /\ \A i \in 1..MaxId : f[i] = Step[<<i, f[i - 1]>>]
  <2> HIDE DEF V, Step
  <2>1. Recurs(MaxId, V, Nothing, Step)
    BY <1>0, <1>1, <1>3, Recursion, Zenon
  <2> QED BY <2>1 DEF Recurs
<1>5. \A i \in 1..MaxId : f[i - 1] \in V /\ f[i] = AfterId(S, f[i - 1], i)
  <2> TAKE i \in 1..MaxId
  <2>1. i - 1 \in 0..MaxId
    BY <1>0
  <2> QED BY <1>4, <2>1
<1>6. Is(f)
  <2>1. \A i \in 0..MaxId : f[i] = IF i = 0 THEN Nothing ELSE AfterId(S, f[i - 1], i)
    <3> TAKE i \in 0..MaxId
    <3>1. i = 0 \/ i \in 1..MaxId
      BY <1>0
    <3> QED BY <1>4, <1>5, <3>1
  <2>2. f = [i \in 0..MaxId |-> f[i]]
    OBVIOUS
  <2> HIDE DEF V
  <2> QED BY <2>1, <2>2, Zenon DEF AfterId
<1> HIDE DEF Is
<1> DEFINE r == CHOOSE g : Is(g)
<1>7. Is(r) /\ Reduced(S) = r[MaxId]
  BY <1>6 DEF Reduced, Is
<1>8. \A i \in 0..MaxId : r[i] = IF i = 0 THEN Nothing ELSE AfterId(S, r[i - 1], i)
  <2> HIDE DEF r
  <2> QED BY <1>7 DEF Is, AfterId
<1>9. r = [i \in 0..MaxId |-> r[i]]
  <2> HIDE DEF r
  <2> QED BY <1>7 DEF Is
<1> HIDE DEF r
<1>10. r[0] = Nothing /\ \A i \in 1..MaxId : r[i] = AfterId(S, r[i - 1], i)
  BY <1>0, <1>8
<1>11. \A i \in 0..MaxId : r[i] \in V
  <2> DEFINE T == {i \in 0..MaxId : r[i] \in V}
  <2>1. 0 \in T
    BY <1>0, <1>1, <1>10
  <2>2. ASSUME NEW i \in 1..MaxId, i - 1 \in T PROVE i \in T
    <3> HIDE DEF V
    <3> QED BY <1>2, <1>10, <2>2
  <2>3. 0..MaxId \subseteq T
    <3> HIDE DEF T
    <3> QED BY <1>0, <2>1, <2>2, InductionUpTo
  <2> QED BY <2>3
<1>12. r \in [0..MaxId -> V]
  <2> HIDE DEF V
  <2> QED BY <1>9, <1>11
<1> QED BY <1>7, <1>10, <1>12

\* What is accepted stays, in its order; each event of a history is a transition from the one
\* before.
LEMMA ReducedHistory ==
  ASSUME NEW S
  PROVE  /\ Reduced(S) \in [history: Seq(S), ids: SUBSET Ids]
         /\ LET h == Reduced(S).history
            IN  \A i \in 2..Len(h) : Transition(h[i - 1].task, h[i].task, h[i].action, h[i].from)
<1> DEFINE V == [history: Seq(S), ids: SUBSET Ids]
           Chained(h) == \A i \in 2..Len(h) : Transition(h[i - 1].task, h[i].task, h[i].action,
           h[i].from)
<1>1. PICK r \in [0..MaxId -> V] : /\ Reduced(S) = r[MaxId] /\ r[0] = Nothing
                                 /\ \A i \in 1..MaxId : r[i] = AfterId(S, r[i - 1], i)
  BY ReducedSteps
<1>2. MaxId \in Nat
  BY TaskAssumption
<1> DEFINE T == {i \in 0..MaxId : Chained(r[i].history)}
<1>3. 0 \in T
  BY <1>1, <1>2 DEF Nothing
<1>4. ASSUME NEW n \in 1..MaxId, n - 1 \in T PROVE n \in T
  <2> DEFINE b == r[n - 1]
             next == {e \in S : e.id = n /\ Accepted(b, e)}
             h == b.history
  <2>0. n - 1 \in 0..MaxId /\ n \in 0..MaxId
    BY <1>2
  <2>1. b \in V /\ h \in Seq(S) /\ Chained(h)
    BY <1>4, <2>0
  <2>2. CASE next = {}
    <3>1. r[n] = b
      BY <1>1, <2>2 DEF AfterId
    <3> QED BY <2>0, <2>1, <3>1
  <2>3. CASE next # {}
    <3> DEFINE x == CHOOSE e \in next : TRUE
    <3>1. x \in next
      BY <2>3
    <3>2. x \in S /\ Accepted(b, x)
      BY <3>1
    <3>0. r[n] = AfterId(S, b, n)
      BY <1>1
    <3>3. r[n].history = h \o <<x>>
      <4>1. AfterId(S, b, n) =
              IF next = {} THEN b ELSE [history |-> b.history \o <<x>>, ids |-> b.ids \cup {n}]
        BY DEF AfterId
      <4> HIDE DEF b, next, x, h
      <4>2. r[n] = [history |-> b.history \o <<x>>, ids |-> b.ids \cup {n}]
        BY <2>3, <3>0, <4>1
      <4>3. r[n].history = b.history \o <<x>>
        BY <4>2
      <4> QED BY <4>3 DEF h
    <3> HIDE DEF x, next
    <3> DEFINE g == h \o <<x>>
    <3>4. /\ Len(g) = Len(h) + 1 /\ Len(h) \in Nat /\ g[Len(h) + 1] = x
          /\ \A i \in 1..Len(h) : g[i] = h[i]
      BY <2>1, <3>2, OneLonger
    <3> HIDE DEF g
    <3>5. Len(h) >= 1 => Transition(h[Len(h)].task, x.task, x.action, x.from)
      <4>1. Len(h) >= 1 => h # <<>>
        OBVIOUS
      <4> QED BY <3>2, <4>1 DEF Accepted, Known, Task, Current
    <3>6. ASSUME NEW i \in 2..Len(g)
                 PROVE Transition(g[i - 1].task, g[i].task, g[i].action, g[i].from)
      <4> HIDE DEF h
      <4>1. CASE i \in 2..Len(h)
        <5>1. i - 1 \in 1..Len(h) /\ i \in 1..Len(h)
          BY <4>1
        <5> QED BY <2>1, <3>4, <4>1, <5>1
      <4>2. CASE i = Len(h) + 1
        <5>1. i - 1 = Len(h) /\ Len(h) \in 1..Len(h) /\ Len(h) >= 1
          BY <3>4, <4>2
        <5> QED BY <3>4, <3>5, <4>2, <5>1
      <4> QED BY <3>4, <4>1, <4>2
    <3>7. Chained(g)
      BY <3>6
    <3> QED BY <2>0, <3>3, <3>7 DEF g
  <2> QED BY <2>2, <2>3
<1>5. 0..MaxId \subseteq T
  <2> HIDE DEF T
  <2> QED BY <1>2, <1>3, <1>4, InductionUpTo
<1> QED BY <1>1, <1>2, <1>5

\* If each of two sets has what the other one accepts, they reduce to the same.
LEMMA ReducedAgree ==
  ASSUME NEW S1, NEW S2,
         \A e \in S1 : e.id \in Reduced(S1).ids => e \in S2,
         \A e \in S2 : e.id \in Reduced(S2).ids => e \in S1
  PROVE  Reduced(S1) = Reduced(S2)
<1> DEFINE Steps(r, S) == /\ r \in [0..MaxId -> [history: Seq(S), ids: SUBSET Ids]]
                          /\ Reduced(S) = r[MaxId] /\ r[0] = Nothing
                          /\ \A i \in 1..MaxId : r[i] = AfterId(S, r[i - 1], i)
<1>1. MaxId \in Nat
  BY TaskAssumption
<1>2. ASSUME NEW S, NEW r, Steps(r, S)
      PROVE  \A i \in 0..MaxId : r[i].ids \subseteq Reduced(S).ids
  <2> DEFINE T == {n \in 0..MaxId : \A i \in 0..n : r[i].ids \subseteq r[n].ids}
  <2>1. 0 \in T
    BY <1>1
  <2>2. ASSUME NEW n \in 1..MaxId, n - 1 \in T PROVE n \in T
    <3>1. r[n - 1].ids \subseteq r[n].ids
      <4> DEFINE b == r[n - 1]
                 next == {e \in S : e.id = n /\ Accepted(b, e)}
                 more == [history |-> b.history \o <<CHOOSE e \in next : TRUE>>,
                          ids |-> b.ids \cup {n}]
      <4>1. r[n] = AfterId(S, b, n)
        BY <1>2
      <4>2. AfterId(S, b, n) = IF next = {} THEN b ELSE more
        BY DEF AfterId
      <4>3. b.ids \subseteq more.ids
        OBVIOUS
      <4> HIDE DEF b, next, more
      <4>4. b.ids \subseteq r[n].ids
        BY <4>1, <4>2, <4>3
      <4> QED BY <4>4 DEF b
    <3>2. \A i \in 0..n : i = n \/ i \in 0..(n - 1)
      OBVIOUS
    <3> QED BY <2>2, <3>1, <3>2, <1>1
  <2>3. 0..MaxId \subseteq T
    <3> HIDE DEF T
    <3> QED BY <1>1, <2>1, <2>2, InductionUpTo
  <2> QED BY <1>1, <1>2, <2>3
<1>3. PICK r : Steps(r, S1)
  BY ReducedSteps
<1>4. PICK q : Steps(q, S2)
  BY ReducedSteps
<1> DEFINE T == {n \in 0..MaxId : r[n] = q[n]}
<1>5. 0 \in T
  BY <1>1, <1>3, <1>4
<1>6. ASSUME NEW n \in 1..MaxId, n - 1 \in T PROVE n \in T
  <2> DEFINE b == r[n - 1]
             next1 == {e \in S1 : e.id = n /\ Accepted(b, e)}
             next2 == {e \in S2 : e.id = n /\ Accepted(b, e)}
  <2>0. r[n] = AfterId(S1, b, n) /\ q[n] = AfterId(S2, b, n) /\ n \in 0..MaxId
    BY <1>3, <1>4, <1>6, <1>1
  <2>1. next1 # {} => n \in Reduced(S1).ids
    <3>1. next1 # {} => n \in r[n].ids
      BY <2>0 DEF AfterId
    <3> HIDE DEF Steps, next1
    <3> QED BY <1>2, <1>3, <2>0, <3>1
  <2>2. next2 # {} => n \in Reduced(S2).ids
    <3>1. next2 # {} => n \in q[n].ids
      BY <2>0 DEF AfterId
    <3> HIDE DEF Steps, next2
    <3> QED BY <1>2, <1>4, <2>0, <3>1
  <2>3. next1 = next2
    BY <2>1, <2>2
  <2>4. AfterId(S1, b, n) = AfterId(S2, b, n)
    <3>1. AfterId(S1, b, n) = IF next1 = {} THEN b
          ELSE [history |-> b.history \o <<CHOOSE e \in next1 : TRUE>>, ids |-> b.ids \cup {n}]
      BY DEF AfterId
    <3>2. AfterId(S2, b, n) = IF next2 = {} THEN b
          ELSE [history |-> b.history \o <<CHOOSE e \in next2 : TRUE>>, ids |-> b.ids \cup {n}]
      BY DEF AfterId
    <3> HIDE DEF next1, next2, b
    <3> QED BY <2>3, <3>1, <3>2
  <2> QED BY <2>0, <2>4
<1>7. 0..MaxId \subseteq T
  <2> HIDE DEF T
  <2> QED BY <1>1, <1>5, <1>6, InductionUpTo
<1> QED BY <1>1, <1>3, <1>4, <1>7

-----------------------------------------------------------------------------
\* An open task has no assignee, in what is written and in what is going to be.
OpenIsNobodys ==
  /\ \A e \in Committed : e.task.state = "open" => e.task.assignee = Nobody
  /\ \A a \in Agents : draft[a] # NoDraft /\ draft[a].task.state = "open"
       => draft[a].task.assignee = Nobody

\* A ULID is of one event.
IdsAreUnique == \A e, f \in Committed : e.id = f.id => e = f

\* The inductive invariant of a task.
TaskInv == TaskTypeOK /\ OpenIsNobodys /\ IdsAreUnique

\* What a commit does to the clones, and to what there is.
LEMMA PostAdds ==
  ASSUME TaskTypeOK, NEW a \in Agents, NEW e \in Event, Adds(a, e), UNCHANGED origin
  PROVE  /\ DOMAIN clone' = Agents
         /\ \A b \in Agents : /\ DOMAIN clone'[b] = {"posted", "pruned"}
                              /\ clone'[b].pruned = clone[b].pruned
                              /\ clone[b].posted \subseteq clone'[b].posted
                              /\ clone'[b].posted \subseteq clone[b].posted \cup {e}
         /\ Committed' \subseteq Committed \cup {e}
<1>1. DOMAIN clone = Agents /\ \A b \in Agents : DOMAIN clone[b] = {"posted", "pruned"}
  BY DEF TaskTypeOK
<1>2. DOMAIN clone' = Agents
  BY <1>1 DEF Adds
<1>3. /\ DOMAIN clone'[a] = {"posted", "pruned"}
      /\ clone'[a].posted = clone[a].posted \cup {e} /\ clone'[a].pruned = clone[a].pruned
  BY <1>1 DEF Adds
<1>4. \A b \in Agents \ {a} : clone'[b] = clone[b]
  BY <1>1 DEF Adds
<1>5. \A b \in Agents : /\ DOMAIN clone'[b] = {"posted", "pruned"}
                        /\ clone'[b].pruned = clone[b].pruned
                        /\ clone[b].posted \subseteq clone'[b].posted
                        /\ clone'[b].posted \subseteq clone[b].posted \cup {e}
  BY <1>1, <1>3, <1>4
<1>6. Committed' \subseteq Committed \cup {e}
  BY <1>5 DEF Committed
<1> QED BY <1>2, <1>5, <1>6

\* A merge has what one of the two sides has.
LEMMA UnionJoins ==
  ASSUME NEW h, NEW g
  PROVE  /\ DOMAIN Union(h, g) = {"posted", "pruned"}
         /\ Union(h, g).posted = h.posted \cup g.posted
         /\ Union(h, g).pruned = h.pruned \cup g.pruned
BY DEF Union

\* The task that an agent reads is a snapshot of an event in its clone.
LEMMA StatusIsCommitted ==
  ASSUME TaskTypeOK, NEW a \in Agents, Known(Status(a))
  PROVE  Current(Status(a)) \in clone[a].posted /\ Current(Status(a)) \in Event
<1> DEFINE S == LiveEvents(clone[a])
           h == Reduced(S).history
<1>1. h \in Seq(S)
  BY ReducedHistory
<1>2. S \subseteq clone[a].posted /\ S \subseteq Event
  BY DEF TaskTypeOK, LiveEvents
<1>3. Status(a).history = h
  BY DEF Status
<1>4. h # <<>>
  BY <1>3 DEF Known
<1> HIDE DEF S, h
<1>5. h[Len(h)] \in S
  BY <1>1, <1>4
<1> QED BY <1>2, <1>3, <1>5 DEF Current

\* What an update makes of a task.
LEMMA ActionMakesSnapshot ==
  ASSUME NEW task \in Snapshot, NEW action \in UpdateActions, NEW a \in Agents,
         NEW title \in Titles,
         NEW target \in Targets,
         task.state = "open" => task.assignee = Nobody,
         NEW next, next = TaskForAction(task, action, a, title, target)
  PROVE  next \in Snapshot /\ (next.state = "open" => next.assignee = Nobody)
<1>0. DOMAIN WorkTo = {"started", "progressed", "blocked", "stuck", "completed"}
  BY DEF WorkTo
<1>1. CASE action = "refined"
  <2>1. next = [task EXCEPT !.title = title]
    BY <1>0, <1>1 DEF TaskForAction
  <2> QED BY <2>1 DEF Snapshot
<1>2. CASE action = "retargeted"
  <2>1. next = [task EXCEPT !.target = target]
    BY <1>0, <1>2 DEF TaskForAction
  <2> QED BY <2>1 DEF Snapshot
<1>3. CASE action = "claimed"
  <2>1. next = [task EXCEPT !.state = "claimed", !.assignee = a]
    BY <1>0, <1>3 DEF TaskForAction
  <2> QED BY <2>1 DEF Snapshot, Active
<1>4. CASE action \in {"released", "reopened"}
  <2>1. next = [task EXCEPT !.state = "open", !.assignee = Nobody]
    BY <1>0, <1>4 DEF TaskForAction
  <2> QED BY <2>1 DEF Snapshot
<1>5. CASE action = "cancelled"
  <2>1. next = [task EXCEPT !.state = "cancelled"]
    BY <1>0, <1>5 DEF TaskForAction
  <2> QED BY <2>1 DEF Snapshot, Terminal
<1>6. CASE action \in DOMAIN WorkTo
  <2>1. next = [task EXCEPT !.state = WorkTo[action]]
    BY <1>0, <1>6 DEF TaskForAction
  <2>2. WorkTo[action] \in Active \cup Terminal /\ WorkTo[action] # "open"
    BY <1>0, <1>6 DEF WorkTo, Active, Terminal
  <2> QED BY <2>1, <2>2 DEF Snapshot
<1>7. action \in DOMAIN WorkTo \cup {"refined", "retargeted", "claimed", "released", "cancelled",
      "reopened"}
  BY DEF UpdateActions, WorkFrom, WorkTo
<1> QED BY <1>1, <1>2, <1>3, <1>4, <1>5, <1>6, <1>7

\* Every reachable state satisfies the invariant.
THEOREM TaskInvariant == TaskSpec => []TaskInv
<1>1. TaskInit => TaskInv
  BY TaskAssumption
     DEF TaskInit, TaskInv, TaskTypeOK, OpenIsNobodys, IdsAreUnique, Committed, Empty, NoDraft
<1>2. ASSUME TaskInv, [TaskNext]_taskVars PROVE TaskInv'
  <2>1. TaskTypeOK /\ OpenIsNobodys /\ IdsAreUnique
    BY <1>2 DEF TaskInv
  <2>2. scope \in Scope
    BY <2>1, TaskAssumption DEF TaskTypeOK
  <2>3. ASSUME NEW a \in Agents, NEW e \in Event, Adds(a, e), UNCHANGED <<scope, origin>>,
               e.task.state = "open" => e.task.assignee = Nobody,
               \A f \in Committed : f.id # e.id,
               \A b \in Agents : draft'[b] \in {draft[b], NoDraft},
               draft' \in [Agents -> Draft \cup {NoDraft}]
        PROVE  TaskInv'
    <3>1. TaskTypeOK'
      <4>1. scope' \in Scopes /\ DOMAIN clone' = Agents /\ origin' = origin
        BY <2>1, <2>3, PostAdds DEF TaskTypeOK
      <4>2. \A b \in Agents : /\ DOMAIN clone'[b] = {"posted", "pruned"}
                             /\ clone'[b].pruned \subseteq clone'[b].posted
                             /\ clone'[b].posted \subseteq Event
        BY <2>1, <2>3, PostAdds DEF TaskTypeOK
      <4>3. DOMAIN origin = {"posted", "pruned"} /\ origin.pruned \subseteq origin.posted
            /\ origin.posted \subseteq Event
        BY <2>1 DEF TaskTypeOK
      <4> QED BY <2>3, <4>1, <4>2, <4>3 DEF TaskTypeOK
    <3>2. OpenIsNobodys'
      BY <2>1, <2>3, PostAdds DEF OpenIsNobodys
    <3>3. IdsAreUnique'
      BY <2>1, <2>3, PostAdds DEF IdsAreUnique
    <3> QED BY <3>1, <3>2, <3>3 DEF TaskInv
  <2>4. ASSUME NEW id \in Ids, NEW title \in Titles, NEW target \in scope.targets,
               Create(id, title, target)
        PROVE  TaskInv'
    <3> DEFINE e == [id |-> id, from |-> Creator, action |-> "created", replyTo |-> 0,
                     task |-> [state |-> "open", title |-> title, target |-> target,
                               assignee |-> Nobody]]
    <3>1. target \in Targets
      BY <2>2 DEF Scope
    <3>2. e \in Event /\ Creator \in Agents
      BY <3>1, TaskAssumption DEF Event, Snapshot, Ids
    <3>3. \A f \in Committed : f.id # e.id
      BY <2>4 DEF Create, NewIds
    <3>4. Adds(Creator, e) /\ UNCHANGED <<scope, origin, draft>>
      BY <2>4 DEF Create
    <3>5. e.task.state = "open" => e.task.assignee = Nobody
      OBVIOUS
    <3> HIDE DEF e
    <3>6. draft' \in [Agents -> Draft \cup {NoDraft}]
      BY <2>1, <3>4 DEF TaskTypeOK
    <3> QED BY <2>3, <3>2, <3>3, <3>4, <3>5, <3>6
  <2>5. ASSUME NEW a \in Agents, NEW id \in Ids, Commit(a, id) PROVE TaskInv'
    <3> DEFINE e == [id |-> id, from |-> a, action |-> draft[a].action, task |-> draft[a].task,
                     replyTo |-> draft[a].replyTo]
    <3>1. draft[a] \in Draft
      BY <2>1, <2>5 DEF TaskTypeOK, Commit
    <3>2. e \in Event
      BY <3>1 DEF Draft, Event, Ids
    <3>3. \A f \in Committed : f.id # e.id
      BY <2>5 DEF Commit, NewIds
    <3>4. Adds(a, e) /\ UNCHANGED <<scope, origin>> /\ draft' = [draft EXCEPT ![a] = NoDraft]
      BY <2>5 DEF Commit
    <3>5. e.task.state = "open" => e.task.assignee = Nobody
      BY <2>1, <2>5 DEF OpenIsNobodys, Commit
    <3> HIDE DEF e
    <3>6. draft' \in [Agents -> Draft \cup {NoDraft}]
          /\ \A b \in Agents : draft'[b] \in {draft[b], NoDraft}
      BY <2>1, <3>4 DEF TaskTypeOK
    <3> QED BY <2>3, <3>2, <3>3, <3>4, <3>5, <3>6
  <2>6. ASSUME NEW a \in Agents, Decide(a) PROVE TaskInv'
    <3> DEFINE task == Task(Status(a))
    <3>1. Known(Status(a)) /\ draft[a] = NoDraft /\ UNCHANGED <<scope, origin, clone>>
      BY <2>6 DEF Decide
    <3>2. Current(Status(a)) \in clone[a].posted /\ Current(Status(a)) \in Event
      BY <2>1, <3>1, StatusIsCommitted
    <3>3. task \in Snapshot /\ Current(Status(a)).id \in Ids
      BY <3>2 DEF Task, Event
    <3>4. Current(Status(a)) \in Committed
      BY <3>2 DEF Committed
    <3>5. task.state = "open" => task.assignee = Nobody
      BY <2>1, <3>4 DEF OpenIsNobodys, Task
    <3>6. PICK action \in scope.updates[a], title \in Titles, target \in scope.targets :
            draft' = [draft EXCEPT ![a] = [action  |-> action,
                                           task    |-> TaskForAction(task, action, a, title,
                                           target),
                                           replyTo |-> Current(Status(a)).id]]
      BY <2>6 DEF Decide
    <3>7. action \in UpdateActions /\ target \in Targets
      BY <2>2 DEF Scope
    <3> DEFINE next == TaskForAction(task, action, a, title, target)
    <3> HIDE DEF task
    <3>8. next \in Snapshot /\ (next.state = "open" => next.assignee = Nobody)
      BY <3>3, <3>5, <3>7, ActionMakesSnapshot
    <3> DEFINE d == [action |-> action, task |-> next, replyTo |-> Current(Status(a)).id]
    <3> HIDE DEF next
    <3>9. d \in Draft /\ d.task = next
      BY <3>3, <3>7, <3>8 DEF Draft
    <3>10. draft' = [draft EXCEPT ![a] = d]
      BY <3>6 DEF next
    <3> HIDE DEF d
    <3>11. TaskTypeOK'
      BY <2>1, <3>1, <3>9, <3>10 DEF TaskTypeOK
    <3>12. OpenIsNobodys'
      BY <2>1, <3>1, <3>8, <3>9, <3>10 DEF TaskTypeOK, OpenIsNobodys, Committed
    <3>13. IdsAreUnique'
      BY <2>1, <3>1 DEF IdsAreUnique, Committed
    <3> QED BY <3>11, <3>12, <3>13 DEF TaskInv
  <2>7. ASSUME NEW a \in Agents, GiveUp(a) PROVE TaskInv'
    BY <2>1, <2>7 DEF TaskInv, GiveUp, TaskTypeOK, OpenIsNobodys, IdsAreUnique, Committed
  <2>8. ASSUME UNCHANGED <<scope, draft>>, DOMAIN clone' = Agents,
               \A h \in {origin'} \cup {clone'[b] : b \in Agents} :
                 /\ DOMAIN h = {"posted", "pruned"} /\ h.pruned \subseteq h.posted
                 /\ h.posted \subseteq Committed
        PROVE  TaskInv'
    <3>1. Committed' \subseteq Committed
      BY <2>8 DEF Committed
    <3>2. Committed \subseteq Event
      BY <2>1 DEF TaskTypeOK, Committed
    <3>3. TaskTypeOK'
      BY <2>1, <2>8, <3>2 DEF TaskTypeOK
    <3>4. OpenIsNobodys' /\ IdsAreUnique'
      BY <2>1, <2>8, <3>1 DEF OpenIsNobodys, IdsAreUnique
    <3> QED BY <3>3, <3>4 DEF TaskInv
  <2>9. \A h \in {origin} \cup {clone[b] : b \in Agents} :
          DOMAIN h = {"posted", "pruned"} /\ h.pruned \subseteq h.posted
          /\ h.posted \subseteq Committed
    BY <2>1 DEF TaskTypeOK, Committed
  <2>10. ASSUME NEW a \in Agents, Publish(a) PROVE TaskInv'
    <3>1. DOMAIN clone = Agents
      BY <2>1 DEF TaskTypeOK
    <3>2. /\ origin' = Union(origin, clone[a]) /\ UNCHANGED <<scope, draft>> /\ DOMAIN clone' = Agents
          /\ clone'[a] = Union(origin, clone[a]) /\ \A b \in Agents \ {a} : clone'[b] = clone[b]
      BY <2>10, <3>1 DEF Publish
    <3> QED BY <2>8, <2>9, <3>2, UnionJoins
  <2>11. ASSUME NEW a \in Agents, FetchEvents(a) PROVE TaskInv'
    <3>1. DOMAIN clone = Agents
      BY <2>1 DEF TaskTypeOK
    <3>2. /\ UNCHANGED <<scope, draft, origin>> /\ DOMAIN clone' = Agents
          /\ clone'[a] = Union(clone[a], origin) /\ \A b \in Agents \ {a} : clone'[b] = clone[b]
      BY <2>11, <3>1 DEF FetchEvents, Brought
    <3> QED BY <2>8, <2>9, <3>2, UnionJoins
  <2>12. ASSUME NEW a \in Agents, Seal(a) PROVE TaskInv'
    <3>1. DOMAIN clone = Agents
      BY <2>1 DEF TaskTypeOK
    <3>2. PICK old \in Sealable(LiveEvents(clone[a])) :
            LET new == [Union(origin, clone[a]) EXCEPT !.pruned = @ \cup old]
            IN  origin' = new /\ clone' = [clone EXCEPT ![a] = new]
      BY <2>12 DEF Seal
    <3>3. old \subseteq clone[a].posted
      BY DEF Sealable, LiveEvents
    <3> DEFINE new == [Union(origin, clone[a]) EXCEPT !.pruned = @ \cup old]
    <3>4. /\ DOMAIN new = {"posted", "pruned"} /\ new.posted = origin.posted \cup clone[a].posted
          /\ new.pruned = origin.pruned \cup clone[a].pruned \cup old
      BY UnionJoins
    <3>5. origin' = new /\ clone' = [clone EXCEPT ![a] = new]
      BY <3>2
    <3> HIDE DEF new
    <3>6. /\ origin' = new /\ DOMAIN clone' = Agents /\ clone'[a] = new
          /\ \A b \in Agents \ {a} : clone'[b] = clone[b]
      BY <3>1, <3>5
    <3>7. UNCHANGED <<scope, draft>>
      BY <2>12 DEF Seal
    <3>8. new.pruned \subseteq new.posted /\ new.posted \subseteq Committed
      BY <2>9, <3>3, <3>4
    <3> QED BY <2>8, <2>9, <3>4, <3>6, <3>7, <3>8
  <2>13. CASE UNCHANGED taskVars
    BY <2>1, <2>13 DEF taskVars, TaskInv, TaskTypeOK, OpenIsNobodys, IdsAreUnique, Committed
  <2> QED BY <1>2, <2>4, <2>5, <2>6, <2>7, <2>10, <2>11, <2>12, <2>13 DEF TaskNext, TaskCommand
<1> QED BY <1>1, <1>2, PTL DEF TaskSpec

\* The type invariant.
THEOREM TaskTyped == TaskSpec => []TaskTypeOK
<1>1. TaskInv => TaskTypeOK
  BY DEF TaskInv
<1> QED BY <1>1, TaskInvariant, PTL

\* An owner keeps the task until it is released or reopened (OwnerKeepsTask), for any number of
\* agents and events.
THEOREM OwnersKeepTheirTasks == TaskSpec => []OwnerKeepsTask
<1>1. ASSUME TaskInv PROVE OwnerKeepsTask
  <2>1. ASSUME NEW S, S \subseteq Committed, NEW i \in 2..Len(Reduced(S).history)
        PROVE  LET h == Reduced(S).history
               IN  h[i - 1].task.assignee # Nobody /\ h[i].task.assignee # h[i - 1].task.assignee
                     => h[i].action \in {"released", "reopened"}
    <3> DEFINE h == Reduced(S).history
    <3>1. h \in Seq(S) /\ Transition(h[i - 1].task, h[i].task, h[i].action, h[i].from)
      BY <2>1, ReducedHistory
    <3> HIDE DEF h
    <3>2. i \in 1..Len(h) /\ i - 1 \in 1..Len(h)
      BY <2>1, <3>1 DEF h
    <3>3. h[i - 1] \in Committed /\ h[i] \in Committed
      BY <2>1, <3>1, <3>2
    <3>4. /\ h[i - 1].task.state = "open" => h[i - 1].task.assignee = Nobody
          /\ h[i].task.state = "open" => h[i].task.assignee = Nobody
      BY <1>1, <3>3 DEF TaskInv, OpenIsNobodys
    <3>5. h[i - 1].task.assignee # Nobody /\ h[i].task.assignee # h[i - 1].task.assignee
            => h[i].action \in {"released", "reopened"}
      BY <3>1, <3>4 DEF Transition, Refines
    <3> QED BY <3>5 DEF h
  <2>2. LiveEvents(origin) \subseteq Committed /\ \A a \in Agents : LiveEvents(clone[a]) \subseteq Committed
    BY DEF LiveEvents, Committed
  <2> QED BY <2>1, <2>2 DEF OwnerKeepsTask, Histories, Status
<1> QED BY <1>1, TaskInvariant, PTL

\* Agents who have what the other accepts accept the same (MetHistoriesAgree).
THEOREM AgentsWhoMetAgree == TaskSpec => []MetHistoriesAgree
<1>1. ASSUME TaskInv PROVE MetHistoriesAgree
  <2>1. ASSUME NEW a \in Agents, NEW b \in Agents, clone[a].pruned = clone[b].pruned,
               Status(a).ids \subseteq {e.id : e \in clone[b].posted}
        PROVE  \A e \in LiveEvents(clone[a]) :
                  e.id \in Reduced(LiveEvents(clone[a])).ids => e \in LiveEvents(clone[b])
    <3> SUFFICES ASSUME NEW e \in LiveEvents(clone[a]), e.id \in Reduced(LiveEvents(clone[a])).ids
                 PROVE  e \in LiveEvents(clone[b])
      OBVIOUS
    <3>1. PICK f \in clone[b].posted : f.id = e.id
      BY <2>1 DEF Status
    <3>2. e \in clone[a].posted /\ e \notin clone[a].pruned
      BY DEF LiveEvents
    <3>3. e = f
      BY <1>1, <3>1, <3>2 DEF TaskInv, IdsAreUnique, Committed
    <3> QED BY <2>1, <3>1, <3>2, <3>3 DEF LiveEvents
  <2>2. ASSUME NEW a \in Agents, NEW b \in Agents, clone[a].pruned = clone[b].pruned,
               Status(a).ids \subseteq {e.id : e \in clone[b].posted},
               Status(b).ids \subseteq {e.id : e \in clone[a].posted}
        PROVE  Status(a).history = Status(b).history
    <3>1. \A e \in LiveEvents(clone[a]) :
             e.id \in Reduced(LiveEvents(clone[a])).ids => e \in LiveEvents(clone[b])
      BY <2>1, <2>2
    <3>2. \A e \in LiveEvents(clone[b]) :
             e.id \in Reduced(LiveEvents(clone[b])).ids => e \in LiveEvents(clone[a])
      BY <2>1, <2>2
    <3>3. Reduced(LiveEvents(clone[a])) = Reduced(LiveEvents(clone[b]))
      BY <3>1, <3>2, ReducedAgree
    <3> QED BY <3>3 DEF Status
  <2> QED BY <2>2 DEF MetHistoriesAgree
<1> QED BY <1>1, TaskInvariant, PTL

-----------------------------------------------------------------------------
\* What a seal leaves of a task.

\* One more id adds an event that is accepted, or nothing.
AddsAccepted(S, before, i) ==
  \/ AfterId(S, before, i) = before
  \/ \E e \in S : /\ e.id = i
                  /\ AfterId(S, before, i) = [history |-> before.history \o <<e>>,
                                              ids     |-> before.ids \cup {i}]

\* That is so, of any reduction.
LEMMA AfterIdAdds ==
  ASSUME NEW S, NEW before, NEW i
  PROVE  AddsAccepted(S, before, i)
<1> DEFINE next == {e \in S : e.id = i /\ Accepted(before, e)}
           x == CHOOSE e \in next : TRUE
<1>1. AfterId(S, before, i) =
        IF next = {} THEN before ELSE [history |-> before.history \o <<x>>, ids |-> before.ids \cup {i}]
  BY DEF AfterId
<1>2. next # {} => x \in next
  OBVIOUS
<1>3. next # {} => x \in S /\ x.id = i
  BY <1>2
<1> HIDE DEF next, x
<1> QED BY <1>1, <1>3 DEF AddsAccepted

\* The history lists the accepted events, and is no longer than there are ids.
LEMMA ReducedLists ==
  ASSUME NEW S, \A e, f \in S : e.id = f.id => e = f
  PROVE  LET r == Reduced(S)
         IN  /\ Len(r.history) <= MaxId
             /\ \A e \in S : e.id \in r.ids => \E i \in 1..Len(r.history) : r.history[i] = e
<1> DEFINE V == [history: Seq(S), ids: SUBSET Ids]
           Lists(b) == \A e \in S : e.id \in b.ids => \E i \in 1..Len(b.history) : b.history[i] = e
<1>1. PICK r \in [0..MaxId -> V] : /\ Reduced(S) = r[MaxId] /\ r[0] = Nothing
                                 /\ \A i \in 1..MaxId : r[i] = AfterId(S, r[i - 1], i)
  BY ReducedSteps
<1>2. MaxId \in Nat
  BY TaskAssumption
<1> DEFINE T == {n \in 0..MaxId : Len(r[n].history) <= n /\ Lists(r[n])}
<1>3. 0 \in T
  BY <1>1, <1>2 DEF Nothing
<1>4. ASSUME NEW n \in 1..MaxId, n - 1 \in T PROVE n \in T
  <2> DEFINE b == r[n - 1]
             h == b.history
  <2>1. n - 1 \in 0..MaxId /\ n \in 0..MaxId /\ b \in V /\ h \in Seq(S)
    BY <1>2
  <2>2. Len(h) <= n - 1 /\ Lists(b)
    BY <1>4
  <2>3. CASE r[n] = b
    BY <2>1, <2>2, <2>3
  <2>4. ASSUME NEW e \in S, e.id = n, r[n] = [history |-> h \o <<e>>, ids |-> b.ids \cup {n}]
        PROVE  n \in T
    <3> DEFINE g == h \o <<e>>
    <3>1. /\ Len(g) = Len(h) + 1 /\ Len(h) \in Nat /\ g[Len(h) + 1] = e
          /\ \A i \in 1..Len(h) : g[i] = h[i]
      BY <2>1, OneLonger
    <3>2. r[n].history = g /\ r[n].ids = b.ids \cup {n}
      BY <2>4
    <3> HIDE DEF g
    <3>3. Len(r[n].history) <= n
      BY <2>2, <3>1, <3>2
    <3>4. ASSUME NEW f \in S, f.id \in r[n].ids
          PROVE  \E i \in 1..Len(r[n].history) : r[n].history[i] = f
      <4>1. CASE f.id = n
        <5>1. f = e
          BY <2>4, <4>1
        <5>2. Len(h) + 1 \in 1..Len(g)
          BY <3>1
        <5> QED BY <3>1, <3>2, <5>1, <5>2
      <4>2. CASE f.id \in b.ids
        <5>1. PICK i \in 1..Len(h) : h[i] = f
          BY <2>2, <4>2
        <5>2. i \in 1..Len(g)
          BY <3>1
        <5> QED BY <3>1, <3>2, <5>1, <5>2
      <4> QED BY <3>2, <3>4, <4>1, <4>2
    <3> QED BY <2>1, <3>3, <3>4
  <2>5. AddsAccepted(S, b, n) /\ r[n] = AfterId(S, b, n)
    <3>1. AddsAccepted(S, b, n)
      BY AfterIdAdds, Zenon
    <3> QED BY <1>1, <3>1
  <2>6. r[n] = b \/ \E e \in S : /\ e.id = n
                                 /\ r[n] = [history |-> h \o <<e>>, ids |-> b.ids \cup {n}]
    <3> HIDE DEF b
    <3> QED BY <2>5 DEF AddsAccepted
  <2> HIDE DEF T, b
  <2> QED BY <2>3, <2>4, <2>6
<1>5. 0..MaxId \subseteq T
  <2> HIDE DEF T
  <2> QED BY <1>2, <1>3, <1>4, InductionUpTo
<1>6. Len(r[MaxId].history) <= MaxId /\ Lists(r[MaxId])
  <2>1. MaxId \in 0..MaxId
    BY <1>2
  <2> QED BY <1>5, <2>1
<1>7. Len(Reduced(S).history) <= MaxId /\ Lists(Reduced(S))
  <2> HIDE DEF Lists
  <2> QED BY <1>1, <1>6
<1> QED BY <1>7

\* p[k] is what is protected: the unresolved events and what they reply to, k times.
KeptUpTo(S, p) ==
  /\ p \in [0..MaxId -> SUBSET S] /\ Protected(S) = p[MaxId] /\ p[0] = Unresolved(S)
  /\ \A k \in 1..MaxId : p[k] = p[k - 1] \cup {e \in S : \E f \in p[k - 1] : f.replyTo = e.id}

\* What Protected computes, step by step.
LEMMA KeptSteps ==
  ASSUME NEW S, Unresolved(S) \subseteq S
  PROVE  \E p : KeptUpTo(S, p)
<1> DEFINE More(later) == later \cup {e \in S : \E f \in later : f.replyTo = e.id}
           Step == [q \in (1..MaxId) \X SUBSET S |-> More(q[2])]
           Is(g) == g = [k \in 0..MaxId |->
                           IF k = 0 THEN Unresolved(S)
                           ELSE LET later == g[k - 1]
                                IN  later \cup {e \in S : \E f \in later : f.replyTo = e.id}]
<1>0. MaxId \in Nat
  BY TaskAssumption
<1>1. Unresolved(S) \in SUBSET S
  OBVIOUS
<1>2. \A later \in SUBSET S : More(later) \in SUBSET S
  OBVIOUS
<1>3. Step \in [(1..MaxId) \X SUBSET S -> SUBSET S]
  BY <1>2
<1>4. PICK f \in [0..MaxId -> SUBSET S] :
        f[0] = Unresolved(S) /\ \A k \in 1..MaxId : f[k] = Step[<<k, f[k - 1]>>]
  <2> HIDE DEF Step
  <2>1. Recurs(MaxId, SUBSET S, Unresolved(S), Step)
    BY <1>0, <1>1, <1>3, Recursion, Zenon
  <2> QED BY <2>1 DEF Recurs
<1>5. \A k \in 1..MaxId : f[k - 1] \in SUBSET S /\ f[k] = More(f[k - 1])
  <2> TAKE k \in 1..MaxId
  <2>1. k - 1 \in 0..MaxId
    BY <1>0
  <2>2. f[k - 1] \in SUBSET S
    BY <1>4, <2>1
  <2>3. Step[<<k, f[k - 1]>>] = More(f[k - 1])
    BY <2>2
  <2> QED BY <1>4, <2>2, <2>3
<1>6. Is(f)
  <2>1. \A k \in 0..MaxId : f[k] = IF k = 0 THEN Unresolved(S) ELSE More(f[k - 1])
    <3> TAKE k \in 0..MaxId
    <3>1. k = 0 \/ k \in 1..MaxId
      BY <1>0
    <3> HIDE DEF More
    <3> QED BY <1>4, <1>5, <3>1
  <2>2. f = [k \in 0..MaxId |-> f[k]]
    OBVIOUS
  <2> QED BY <2>1, <2>2, Zenon
<1> HIDE DEF Is
<1> DEFINE r == CHOOSE g : Is(g)
<1>7. Is(r) /\ Protected(S) = r[MaxId]
  <2>1. Is(r)
    BY <1>6
  <2>2. Protected(S) = r[MaxId]
    BY Zenon DEF Protected, Is
  <2> QED BY <2>1, <2>2
<1>8. \A k \in 0..MaxId : r[k] = IF k = 0 THEN Unresolved(S) ELSE More(r[k - 1])
  <2> HIDE DEF r
  <2> QED BY <1>7 DEF Is
<1>9. r = [k \in 0..MaxId |-> r[k]]
  <2> HIDE DEF r
  <2> QED BY <1>7 DEF Is
<1> HIDE DEF r
<1>10. r[0] = Unresolved(S) /\ \A k \in 1..MaxId : r[k] = More(r[k - 1])
  <2> HIDE DEF More
  <2> QED BY <1>0, <1>8
<1>11. \A k \in 0..MaxId : r[k] \in SUBSET S
  <2> DEFINE T == {k \in 0..MaxId : r[k] \in SUBSET S}
  <2>1. 0 \in T
    BY <1>0, <1>1, <1>10
  <2>2. ASSUME NEW k \in 1..MaxId, k - 1 \in T PROVE k \in T
    <3> HIDE DEF More
    <3> QED BY <1>2, <1>10, <2>2
  <2>3. 0..MaxId \subseteq T
    <3> HIDE DEF T
    <3> QED BY <1>0, <2>1, <2>2, InductionUpTo
  <2> QED BY <2>3
<1>12. r \in [0..MaxId -> SUBSET S]
  BY <1>9, <1>11
<1>13. KeptUpTo(S, r)
  BY <1>7, <1>10, <1>12 DEF KeptUpTo
<1> QED BY <1>13

\* Of a task that is not finished and was not contested, every accepted event is protected.
LEMMA UncontestedIsProtected ==
  ASSUME NEW S, Unfinished(Reduced(S)), Uncontested(Reduced(S)),
         \A e, f \in S : e.id = f.id => e = f,
         NEW i \in 1..Len(Reduced(S).history)
  PROVE  Reduced(S).history[i] \in Protected(S)
<1> DEFINE r == Reduced(S)
           h == r.history
           n == Len(h)
<1>0. MaxId \in Nat
  BY TaskAssumption
<1>1. h \in Seq(S) /\ n \in Nat
  BY ReducedHistory
<1>2. n <= MaxId
  BY ReducedLists
<1>3. \A k \in 2..n : h[k].replyTo = h[k - 1].id
  BY DEF Uncontested
<1>4. Unresolved(S) = {h[n]}
  <2>1. Unresolved(S) = IF ~Known(r) THEN Generic(S) ELSE IF Unfinished(r) THEN {Current(r)} ELSE {}
    BY DEF Unresolved
  <2>2. Known(r) /\ Unfinished(r)
    BY DEF Unfinished
  <2> HIDE DEF r
  <2> QED BY <2>1, <2>2 DEF Current
<1>5. n \in 1..n /\ h[n] \in S
  BY <1>1
<1>6. PICK p : KeptUpTo(S, p)
  <2>1. Unresolved(S) \subseteq S
    BY <1>4, <1>5
  <2> QED BY <2>1, KeptSteps
<1>7. p[0] = {h[n]}
  BY <1>4, <1>6 DEF KeptUpTo
<1>8. i \in 1..n
  OBVIOUS
<1> HIDE DEF h, n, r
<1> DEFINE T == {k \in 0..MaxId : \A j \in 0..k : j < n => h[n - j] \in p[k]}
<1>9. 0 \in T
  BY <1>0, <1>1, <1>7
<1>10. ASSUME NEW k \in 1..MaxId, k - 1 \in T PROVE k \in T
  <2>1. p[k] = p[k - 1] \cup {e \in S : \E f \in p[k - 1] : f.replyTo = e.id}
    BY <1>6 DEF KeptUpTo
  <2>2. ASSUME NEW j \in 0..k, j < n PROVE h[n - j] \in p[k]
    <3>1. CASE j \in 0..(k - 1)
      BY <1>10, <2>1, <2>2, <3>1
    <3>2. CASE j = k
      <4>1. /\ k - 1 \in 0..(k - 1) /\ k - 1 < n /\ n - (k - 1) \in 2..n /\ n - (k - 1) - 1 = n - k
            /\ n - k \in 1..n
        BY <1>1, <2>2, <3>2
      <4>2. h[n - (k - 1)] \in p[k - 1]
        BY <1>10, <4>1
      <4>3. h[n - (k - 1)].replyTo = h[n - k].id
        BY <1>3, <4>1
      <4>4. h[n - k] \in S
        BY <1>1, <4>1 DEF n
      <4> QED BY <2>1, <3>2, <4>2, <4>3, <4>4
    <3> QED BY <3>1, <3>2
  <2> QED BY <1>0, <2>2
<1>11. 0..MaxId \subseteq T
  <2> HIDE DEF T
  <2> QED BY <1>0, <1>9, <1>10, InductionUpTo
<1>12. n - i \in 0..MaxId /\ n - i < n /\ n - (n - i) = i
  BY <1>0, <1>1, <1>2, <1>8
<1>13. h[i] \in p[MaxId]
  BY <1>0, <1>11, <1>12
<1> QED BY <1>6, <1>13 DEF KeptUpTo, h, r

\* A seal does not change a task that was not contested (SealKeepsUncontestedTasks), for any
\* number of agents and events: what is pruned was never accepted.
THEOREM SealsKeepUncontestedTasks == TaskSpec => SealKeepsUncontestedTasks
<1> DEFINE Keeps == \A a \in Agents :
                      /\ origin'.pruned # origin.pruned /\ clone'[a].pruned # clone[a].pruned
                      /\ Brought(a) = clone[a] /\ Unfinished(Status(a)) /\ Uncontested(Status(a))
                      => Status(a)' = Status(a)
<1>1. ASSUME TaskInv, NEW a \in Agents, Seal(a), Brought(a) = clone[a], Unfinished(Status(a)),
             Uncontested(Status(a))
      PROVE  Status(a)' = Status(a)
  <2> DEFINE S == LiveEvents(clone[a])
  <2>1. PICK old \in Sealable(S) :
          LET new == [Union(origin, clone[a]) EXCEPT !.pruned = @ \cup old]
          IN  origin' = new /\ clone' = [clone EXCEPT ![a] = new]
    BY <1>1 DEF Seal
  <2> DEFINE new == [Union(origin, clone[a]) EXCEPT !.pruned = @ \cup old]
  <2>2. DOMAIN clone = Agents
    BY <1>1 DEF TaskInv, TaskTypeOK
  <2>3. origin' = new /\ clone'[a] = new
    BY <2>1, <2>2
  <2>4. new.posted = clone[a].posted /\ new.pruned = clone[a].pruned \cup old
    <3>1. /\ clone[a].posted = clone[a].posted \cup origin.posted
          /\ clone[a].pruned = clone[a].pruned \cup origin.pruned
      BY <1>1, UnionJoins DEF Brought
    <3>2. /\ Union(origin, clone[a]).posted = origin.posted \cup clone[a].posted
          /\ Union(origin, clone[a]).pruned = origin.pruned \cup clone[a].pruned
          /\ DOMAIN Union(origin, clone[a]) = {"posted", "pruned"}
      BY UnionJoins
    <3>3. new.posted = Union(origin, clone[a]).posted
          /\ new.pruned = Union(origin, clone[a]).pruned \cup old
      BY <3>2
    <3> QED BY <3>1, <3>2, <3>3
  <2> HIDE DEF new
  <2>5. LiveEvents(clone'[a]) = S \ old /\ LiveEvents(origin') = S \ old
    BY <2>3, <2>4 DEF LiveEvents
  <2>6. old \cap Protected(S) = {}
    BY DEF Sealable
  <2>7. \A e, f \in S : e.id = f.id => e = f
    BY <1>1 DEF TaskInv, IdsAreUnique, Committed, LiveEvents
  <2>8. Status(a) = Reduced(S)
    BY DEF Status
  <2> HIDE DEF S
  <2>9. \A e \in S : e.id \in Reduced(S).ids => e \in S \ old
    <3> TAKE e \in S
    <3> HAVE e.id \in Reduced(S).ids
    <3>1. PICK i \in 1..Len(Reduced(S).history) : Reduced(S).history[i] = e
      BY <2>7, ReducedLists
    <3>2. e \in Protected(S)
      BY <1>1, <2>7, <2>8, <3>1, UncontestedIsProtected
    <3> QED BY <2>6, <3>2
  <2>10. Reduced(S \ old) = Reduced(S)
    BY <2>9, ReducedAgree
  <2> QED BY <2>5, <2>8, <2>10 DEF Status
<1>2. ASSUME TaskInv, [TaskNext]_taskVars PROVE [Keeps]_taskVars
  <2> SUFFICES ASSUME NEW a \in Agents, origin'.pruned # origin.pruned,
                      clone'[a].pruned # clone[a].pruned, Brought(a) = clone[a],
                      Unfinished(Status(a)), Uncontested(Status(a))
               PROVE  Seal(a)
    BY <1>1, <1>2
  <2>1. DOMAIN clone = Agents
    BY <1>2 DEF TaskInv, TaskTypeOK
  <2>2. origin' # origin
    OBVIOUS
  <2>3. CASE UNCHANGED taskVars \/ TaskCommand
    BY <2>2, <2>3 DEF taskVars, TaskCommand, Create, Decide
  <2>4. ASSUME NEW b \in Agents, NEW id \in Ids, Commit(b, id) PROVE FALSE
    BY <2>2, <2>4 DEF Commit
  <2>5. ASSUME NEW b \in Agents, GiveUp(b) \/ FetchEvents(b) PROVE FALSE
    BY <2>2, <2>5 DEF GiveUp, FetchEvents
  <2>6. ASSUME NEW b \in Agents, Publish(b) PROVE FALSE
    <3>1. CASE b # a
      BY <2>1, <2>6, <3>1 DEF Publish
    <3>2. CASE b = a
      <4>1. clone'[a] = Union(origin, clone[a])
        BY <2>1, <2>6, <3>2 DEF Publish
      <4>2. clone'[a].pruned = clone[a].pruned
        BY <4>1, UnionJoins DEF Brought
      <4> QED BY <4>2
    <3> QED BY <3>1, <3>2
  <2>7. ASSUME NEW b \in Agents, Seal(b) PROVE b = a
    BY <2>1, <2>7 DEF Seal
  <2> QED BY <1>2, <2>3, <2>4, <2>5, <2>6, <2>7 DEF TaskNext
<1> QED BY <1>1, <1>2, TaskInvariant, PTL DEF TaskSpec, SealKeepsUncontestedTasks

-----------------------------------------------------------------------------
\* The chain after one more id.
AfterPost(S, before, i) ==
  LET next == {e \in S : e.id = i /\ e.state # "human" /\ NextEvent(before, e)}
  IN  before \o (IF next = {} THEN <<>> ELSE <<CHOOSE e \in next : TRUE>>)

\* r[i] is the chain of the messages S with ids up to i.
ChainsOf(S, r) ==
  /\ r \in [0..MaxPost -> Seq(S)] /\ Chain(S) = r[MaxPost] /\ r[0] = NoReview
  /\ \A i \in 1..MaxPost : r[i] = AfterPost(S, r[i - 1], i)

\* One more id adds an event that comes next, or nothing if there is none.
AddsOne(S, before, i) ==
  \/ /\ AfterPost(S, before, i) = before
     /\ \A e \in S : e.id = i /\ e.state # "human" => ~NextEvent(before, e)
  \/ \E e \in S : /\ e.id = i /\ e.state # "human" /\ NextEvent(before, e)
                  /\ AfterPost(S, before, i) = before \o <<e>>

\* That is so, of any chain.
LEMMA AfterPostAdds ==
  ASSUME NEW S, NEW before \in Seq(S), NEW i
  PROVE  AddsOne(S, before, i) /\ AfterPost(S, before, i) \in Seq(S)
<1> DEFINE next == {e \in S : e.id = i /\ e.state # "human" /\ NextEvent(before, e)}
<1>1. AfterPost(S, before, i) = before \o (IF next = {} THEN <<>>
      ELSE <<CHOOSE e \in next : TRUE>>)
  BY DEF AfterPost
<1>2. CASE next = {}
  <2>1. AfterPost(S, before, i) = before \o <<>>
    BY <1>1, <1>2
  <2>2. before \o <<>> = before
    OBVIOUS
  <2>3. \A e \in S : e.id = i /\ e.state # "human" => ~NextEvent(before, e)
    BY <1>2
  <2> QED BY <2>1, <2>2, <2>3 DEF AddsOne
<1>3. CASE next # {}
  <2> DEFINE e == CHOOSE e \in next : TRUE
  <2>1. e \in next
    BY <1>3
  <2>2. e \in S /\ e.id = i /\ e.state # "human" /\ NextEvent(before, e)
    BY <2>1
  <2>3. AfterPost(S, before, i) = before \o <<e>>
    BY <1>1, <1>3
  <2> HIDE DEF e
  <2>4. before \o <<e>> \in Seq(S)
    BY <2>2, OneLonger
  <2> QED BY <2>2, <2>3, <2>4 DEF AddsOne
<1> QED BY <1>2, <1>3

\* What Chain computes, step by step.
LEMMA ChainSteps ==
  ASSUME NEW S
  PROVE  \E r : ChainsOf(S, r)
<1> DEFINE Step == [p \in (1..MaxPost) \X Seq(S) |-> AfterPost(S, p[2], p[1])]
           Is(f) == f = [i \in 0..MaxPost |->
                           IF i = 0 THEN NoReview
                           ELSE LET before == f[i - 1]
                                    next == {e \in S : e.id = i /\ e.state # "human"
                                    /\ NextEvent(before, e)}
                                IN  before \o (IF next = {} THEN <<>>
                                ELSE <<CHOOSE e \in next : TRUE>>)]
<1>0. MaxPost \in Nat
  BY ReviewAssumption
<1>1. NoReview \in Seq(S)
  BY DEF NoReview
<1>2. ASSUME NEW i \in 1..MaxPost, NEW b \in Seq(S) PROVE AfterPost(S, b, i) \in Seq(S)
  BY AfterPostAdds
<1>3. Step \in [(1..MaxPost) \X Seq(S) -> Seq(S)]
  BY <1>2
<1>4. PICK f \in [0..MaxPost -> Seq(S)] : f[0] = NoReview
      /\ \A i \in 1..MaxPost : f[i] = Step[<<i, f[i - 1]>>]
  <2> HIDE DEF Step
  <2>1. Recurs(MaxPost, Seq(S), NoReview, Step)
    BY <1>0, <1>1, <1>3, Recursion, Zenon
  <2> QED BY <2>1 DEF Recurs
<1>5. \A i \in 1..MaxPost : f[i - 1] \in Seq(S) /\ f[i] = AfterPost(S, f[i - 1], i)
  <2> TAKE i \in 1..MaxPost
  <2>1. i - 1 \in 0..MaxPost
    BY <1>0
  <2> QED BY <1>4, <2>1
<1>6. Is(f)
  <2>1. \A i \in 0..MaxPost : f[i] = IF i = 0 THEN NoReview ELSE AfterPost(S, f[i - 1], i)
    <3> TAKE i \in 0..MaxPost
    <3>1. i = 0 \/ i \in 1..MaxPost
      BY <1>0
    <3> QED BY <1>4, <1>5, <3>1
  <2>2. f = [i \in 0..MaxPost |-> f[i]]
    OBVIOUS
  <2> QED BY <2>1, <2>2, Zenon DEF AfterPost
<1> HIDE DEF Is
<1> DEFINE r == CHOOSE g : Is(g)
<1>7. Is(r) /\ Chain(S) = r[MaxPost]
  <2>1. Is(r)
    BY <1>6
  <2>2. Chain(S) = r[MaxPost]
    BY Zenon DEF Chain, Is
  <2> QED BY <2>1, <2>2
<1>8. \A i \in 0..MaxPost : r[i] = IF i = 0 THEN NoReview ELSE AfterPost(S, r[i - 1], i)
  <2> HIDE DEF r
  <2> QED BY <1>7 DEF Is, AfterPost
<1>9. r = [i \in 0..MaxPost |-> r[i]]
  <2> HIDE DEF r
  <2> QED BY <1>7 DEF Is
<1> HIDE DEF r
<1>10. r[0] = NoReview /\ \A i \in 1..MaxPost : r[i] = AfterPost(S, r[i - 1], i)
  BY <1>0, <1>8
<1>11. \A i \in 0..MaxPost : r[i] \in Seq(S)
  <2> DEFINE T == {i \in 0..MaxPost : r[i] \in Seq(S)}
  <2>1. 0 \in T
    BY <1>0, <1>1, <1>10
  <2>2. ASSUME NEW i \in 1..MaxPost, i - 1 \in T PROVE i \in T
    BY <1>2, <1>10, <2>2
  <2>3. 0..MaxPost \subseteq T
    <3> HIDE DEF T
    <3> QED BY <1>0, <2>1, <2>2, InductionUpTo
  <2> QED BY <2>3
<1>12. r \in [0..MaxPost -> Seq(S)]
  BY <1>9, <1>11
<1>13. ChainsOf(S, r)
  BY <1>7, <1>10, <1>12 DEF ChainsOf
<1> QED BY <1>13

\* Chains grow: what is in one stays.  Their events are updates; the first one is a request that
\* replies to nothing.
LEMMA ChainsGrow ==
  ASSUME NEW S, NEW r, ChainsOf(S, r), NEW n \in 0..MaxPost
  PROVE  /\ \A k \in 1..Len(r[n]) : r[n][k] \in S /\ r[n][k].state # "human"
         /\ r[n] # NoReview => r[n][1].replyTo = 0
         /\ \A i \in 0..n : Len(r[i]) <= Len(r[n]) /\ \A k \in 1..Len(r[i]) : r[n][k] = r[i][k]
<1>0. MaxPost \in Nat /\ \A i \in 0..MaxPost : r[i] \in Seq(S)
  BY ReviewAssumption DEF ChainsOf
<1> DEFINE Updates(m) == \A k \in 1..Len(r[m]) : r[m][k] \in S /\ r[m][k].state # "human"
           Rooted(m) == r[m] # NoReview => r[m][1].replyTo = 0
           Grown(m) == \A i \in 0..m : Len(r[i]) <= Len(r[m])
           /\ \A k \in 1..Len(r[i]) : r[m][k] = r[i][k]
           T == {m \in 0..MaxPost : Updates(m) /\ Rooted(m) /\ Grown(m)}
<1>1. 0 \in T
  BY <1>0 DEF ChainsOf, NoReview
<1>2. ASSUME NEW m \in 1..MaxPost, m - 1 \in T PROVE m \in T
  <2>1. r[m] = AfterPost(S, r[m - 1], m) /\ m - 1 \in 0..MaxPost /\ r[m - 1] \in Seq(S)
        /\ r[m] \in Seq(S)
    BY <1>0 DEF ChainsOf
  <2>2. \A i \in 0..m : i = m \/ i \in 0..(m - 1)
    OBVIOUS
  <2>3. CASE r[m] = r[m - 1]
    <3>1. Updates(m) /\ Rooted(m)
      BY <1>2, <2>3
    <3>2. Grown(m)
      <4> SUFFICES ASSUME NEW i \in 0..m
                   PROVE  /\ Len(r[i]) <= Len(r[m])
                          /\ \A k \in 1..Len(r[i]) : r[m][k] = r[i][k]
        OBVIOUS
      <4>1. CASE i = m
        <5>1. Len(r[m]) \in Nat
          BY <2>1
        <5> QED BY <4>1, <5>1
      <4>2. CASE i \in 0..(m - 1)
        BY <1>2, <2>3, <4>2
      <4> QED BY <2>2, <4>1, <4>2
    <3> QED BY <3>1, <3>2
  <2>4. ASSUME NEW e \in S, e.state # "human", NextEvent(r[m - 1], e), r[m] = r[m - 1] \o <<e>>
        PROVE  m \in T
    <3> DEFINE s == r[m - 1]
               t == r[m]
    <3>1. /\ Len(t) = Len(s) + 1 /\ Len(s) \in Nat /\ t[Len(s) + 1] = e
          /\ \A k \in 1..Len(s) : t[k] = s[k]
      BY <2>1, <2>4, OneLonger
    <3>2. \A k \in 1..Len(t) : k = Len(s) + 1 \/ k \in 1..Len(s)
      BY <3>1
    <3>3. Updates(m)
      BY <1>2, <2>4, <3>1, <3>2
    <3>4. Rooted(m)
      <4>1. CASE s = NoReview
        <5>1. e.replyTo = 0 /\ Len(s) = 0
          BY <2>4, <4>1 DEF NextEvent, NoReview
        <5> QED BY <3>1, <5>1
      <4>2. CASE s # NoReview
        <5>1. Len(s) # 0
          BY <2>1, <4>2 DEF NoReview
        <5>2. t[1] = s[1]
          BY <3>1, <5>1
        <5> QED BY <1>2, <4>2, <5>2
      <4> QED BY <4>1, <4>2
    <3>5. Grown(m)
      <4> SUFFICES ASSUME NEW i \in 0..m
                   PROVE  Len(r[i]) <= Len(t) /\ \A k \in 1..Len(r[i]) : t[k] = r[i][k]
        OBVIOUS
      <4>1. CASE i = m
        BY <3>1, <4>1
      <4>2. CASE i \in 0..(m - 1)
        <5>1. Len(r[i]) <= Len(s) /\ (\A k \in 1..Len(r[i]) : s[k] = r[i][k]) /\ Len(r[i]) \in Nat
          BY <1>0, <1>2, <4>2
        <5> HIDE DEF s, t
        <5>2. \A k \in 1..Len(r[i]) : k \in 1..Len(s)
          BY <3>1, <5>1
        <5> QED BY <3>1, <5>1, <5>2
      <4> QED BY <2>2, <4>1, <4>2
    <3> QED BY <3>3, <3>4, <3>5
  <2>5. AddsOne(S, r[m - 1], m)
    BY <2>1, AfterPostAdds, Zenon
  <2>6. \/ r[m] = r[m - 1]
        \/ \E e \in S : e.state # "human" /\ NextEvent(r[m - 1], e) /\ r[m] = r[m - 1] \o <<e>>
    BY <2>1, <2>5 DEF AddsOne
  <2> HIDE DEF T
  <2> QED BY <2>3, <2>4, <2>6
<1>3. 0..MaxPost \subseteq T
  <2> HIDE DEF T
  <2> QED BY <1>0, <1>1, <1>2, InductionUpTo
<1> QED BY <1>3

\* The chain of the messages up to an id has no later one.
LEMMA ChainsAreOld ==
  ASSUME NEW S \in SUBSET ReviewPost, NEW r, ChainsOf(S, r), NEW n \in 0..MaxPost,
         NEW k \in 1..Len(r[n])
  PROVE  r[n][k].id <= n
<1>0. MaxPost \in Nat /\ \A i \in 0..MaxPost : r[i] \in Seq(S)
  BY ReviewAssumption DEF ChainsOf
<1> DEFINE Old(m) == \A j \in 1..Len(r[m]) : r[m][j].id <= m
           T == {m \in 0..MaxPost : Old(m)}
<1>1. 0 \in T
  BY <1>0 DEF ChainsOf, NoReview
<1>2. ASSUME NEW m \in 1..MaxPost, m - 1 \in T PROVE m \in T
  <2>1. r[m] = AfterPost(S, r[m - 1], m) /\ m - 1 \in 0..MaxPost /\ r[m - 1] \in Seq(S)
    BY <1>0 DEF ChainsOf
  <2>2. ASSUME NEW j \in 1..Len(r[m - 1]) PROVE r[m - 1][j].id <= m
    <3>1. r[m - 1][j] \in S
      BY <2>1
    <3>2. r[m - 1][j].id \in Nat
      BY <3>1 DEF ReviewPost, Posts
    <3>3. r[m - 1][j].id <= m - 1
      BY <1>2
    <3> QED BY <3>2, <3>3
  <2>3. CASE r[m] = r[m - 1]
    BY <2>2, <2>3
  <2>4. ASSUME NEW e \in S, e.id = m, r[m] = r[m - 1] \o <<e>> PROVE m \in T
    <3> DEFINE s == r[m - 1]
               t == r[m]
    <3>1. /\ Len(t) = Len(s) + 1 /\ Len(s) \in Nat /\ t[Len(s) + 1] = e
          /\ \A j \in 1..Len(s) : t[j] = s[j]
      BY <2>1, <2>4, OneLonger
    <3>2. \A j \in 1..Len(t) : j = Len(s) + 1 \/ j \in 1..Len(s)
      BY <3>1
    <3>3. \A j \in 1..Len(s) : s[j].id <= m
      BY <2>2
    <3> HIDE DEF s, t
    <3>4. \A j \in 1..Len(t) : t[j].id <= m
      <4> TAKE j \in 1..Len(t)
      <4>1. CASE j = Len(s) + 1
        BY <2>4, <3>1, <4>1
      <4>2. CASE j \in 1..Len(s)
        BY <3>1, <3>3, <4>2
      <4> QED BY <3>2, <4>1, <4>2
    <3> QED BY <3>4 DEF t
  <2>5. AddsOne(S, r[m - 1], m)
    BY <2>1, AfterPostAdds, Zenon
  <2>6. r[m] = r[m - 1] \/ \E e \in S : e.id = m /\ r[m] = r[m - 1] \o <<e>>
    BY <2>1, <2>5 DEF AddsOne
  <2> HIDE DEF T
  <2> QED BY <2>3, <2>4, <2>6
<1>3. 0..MaxPost \subseteq T
  <2> HIDE DEF T
  <2> QED BY <1>0, <1>1, <1>2, InductionUpTo
<1> QED BY <1>3

\* The current event of a review is an update that its clone has.
LEMMA CurrentIsUpdate ==
  ASSUME NEW S, Chain(S) # NoReview
  PROVE  CurrentEvent(Chain(S)) \in S /\ CurrentEvent(Chain(S)).state # "human"
<1>1. PICK r : ChainsOf(S, r)
  BY ChainSteps
<1>2. MaxPost \in 0..MaxPost /\ Chain(S) = r[MaxPost] /\ r[MaxPost] \in Seq(S)
  BY <1>1, ReviewAssumption DEF ChainsOf
<1>3. Len(Chain(S)) \in 1..Len(Chain(S))
  BY <1>2 DEF NoReview
<1> QED BY <1>1, <1>2, <1>3, ChainsGrow DEF CurrentEvent

-----------------------------------------------------------------------------
\* What the updates among the messages P answer: the request nothing, every other one an update
\* that it may follow.
Answers(P, e) ==
  e.state # "human" =>
    IF e.replyTo = 0 THEN e.state = "requested"
    ELSE \E f \in P : f.id = e.replyTo /\ f.state # "human" /\ Follows(f, e.state, e.from)

\* The request is the only update that answers nothing.
OneRequest(P) ==
  \A e, f \in P : e.state # "human" /\ f.state # "human" /\ e.replyTo = 0 /\ f.replyTo = 0 => e = f

\* An update that lost no race is in the chain, and was its current event when it came.
LEMMA UnracedInChain ==
  ASSUME NEW S \in SUBSET ReviewPost, \A e, f \in S : e.id = f.id => e = f, OneRequest(S),
         \A e \in S : Answers(S, e), \A e \in S : e.replyTo < e.id, NEW e \in Unraced(S)
  PROVE  \E i \in 1..Len(Chain(S)) : Chain(S)[i] = e
<1>0. MaxPost \in Nat
  BY ReviewAssumption
<1> DEFINE Updates == {f \in S : f.state # "human"}
           First(f) == \A g \in Updates : g.replyTo = f.replyTo => g.id >= f.id
<1>1. PICK P \in SUBSET Updates : /\ e \in P
                                  /\ \A f \in P : First(f) /\ \A g \in Updates : g.id = f.replyTo
                                     => g \in P
  BY DEF Unraced
<1>2. PICK r : ChainsOf(S, r)
  BY ChainSteps
<1>3. \A i \in 0..MaxPost : r[i] \in Seq(S) /\ Len(r[i]) \in Nat
  BY <1>2 DEF ChainsOf
<1>4. \A f \in S : f.id \in 1..MaxPost /\ f.replyTo \in 0..MaxPost
  BY DEF ReviewPost, Posts
<1>5. \A f \in P : f \in S /\ f.state # "human"
  OBVIOUS
<1> DEFINE Came(f) == r[f.id] # NoReview /\ CurrentEvent(r[f.id]) = f
           T == {n \in 0..MaxPost : \A f \in P : f.id <= n => Came(f)}
<1>6. 0 \in T
  BY <1>0, <1>4
<1>7. ASSUME NEW n \in 1..MaxPost, n - 1 \in T PROVE n \in T
  <2> SUFFICES ASSUME NEW f \in P, f.id = n PROVE Came(f)
    <3>1. \A f \in P : f.id <= n => f.id <= n - 1 \/ f.id = n
      BY <1>4, <1>5
    <3> QED BY <1>7, <3>1
  <2>1. n - 1 \in 0..MaxPost /\ r[n] = AfterPost(S, r[n - 1], n) /\ r[n - 1] \in Seq(S)
    BY <1>0, <1>2, <1>3 DEF ChainsOf
  <2>2. ASSUME NextEvent(r[n - 1], f) PROVE Came(f)
    <3>0. AddsOne(S, r[n - 1], n)
      BY <2>1, AfterPostAdds, Zenon
    <3>1. PICK g \in S : g.id = n /\ r[n] = r[n - 1] \o <<g>>
      BY <1>5, <2>1, <2>2, <3>0 DEF AddsOne
    <3>2. g = f
      BY <1>5, <3>1
    <3>3. Len(r[n]) = Len(r[n - 1]) + 1 /\ r[n][Len(r[n - 1]) + 1] = f /\ Len(r[n - 1]) \in Nat
      BY <1>5, <2>1, <3>1, <3>2, OneLonger
    <3>4. r[n] # NoReview
      BY <3>3 DEF NoReview
    <3> QED BY <3>3, <3>4 DEF CurrentEvent
  <2>3. CASE f.replyTo = 0
    <3>1. f.state = "requested"
      BY <1>5, <2>3 DEF Answers
    <3>2. r[n - 1] = NoReview
      <4> SUFFICES ASSUME r[n - 1] # NoReview PROVE FALSE
        OBVIOUS
      <4>1. 1 \in 1..Len(r[n - 1])
        BY <2>1 DEF NoReview
      <4> DEFINE g == r[n - 1][1]
      <4>2. g \in S /\ g.state # "human" /\ g.replyTo = 0
        BY <1>2, <2>1, <4>1, ChainsGrow
      <4>3. g = f
        BY <1>5, <2>3, <4>2 DEF OneRequest
      <4>4. g.id <= n - 1
        BY <1>2, <2>1, <4>1, ChainsAreOld
      <4> QED BY <4>3, <4>4
    <3> QED BY <2>2, <2>3, <3>1, <3>2 DEF NextEvent
  <2>4. CASE f.replyTo # 0
    <3>1. PICK g \in S : g.id = f.replyTo /\ g.state # "human" /\ Follows(g, f.state, f.from)
      BY <1>5, <2>4 DEF Answers
    <3>2. g \in P /\ g.id < n /\ g.id \in 1..MaxPost
      BY <1>1, <1>4, <1>5, <3>1
    <3>3. Came(g)
      BY <1>7, <1>4, <3>2
    <3> DEFINE Waits(i) == r[i] # NoReview /\ CurrentEvent(r[i]) = g
               W == {i \in 0..(n - 1) : i >= g.id => Waits(i)}
    <3>4. 0 \in W
      BY <3>2
    <3>5. ASSUME NEW i \in 1..(n - 1), i - 1 \in W PROVE i \in W
      <4>0. i \in 1..MaxPost /\ i - 1 \in 0..MaxPost
        BY <1>0
      <4>1. CASE i < g.id
        BY <4>1, <3>2
      <4>2. CASE i = g.id
        BY <3>3, <4>2
      <4>3. CASE i > g.id
        <5>1. Waits(i - 1)
          BY <3>2, <3>5, <4>3
        <5>2. r[i] = AfterPost(S, r[i - 1], i) /\ r[i - 1] \in Seq(S)
          BY <1>2, <1>3, <4>0 DEF ChainsOf
        <5>3. ASSUME NEW x \in S, x.id = i, x.state # "human", NextEvent(r[i - 1], x) PROVE FALSE
          <6>1. x.replyTo = f.replyTo
            BY <3>1, <5>1, <5>3 DEF NextEvent
          <6>2. x.id >= f.id
            BY <1>1, <5>3, <6>1
          <6> QED BY <5>3, <6>2
        <5>4. AddsOne(S, r[i - 1], i)
          BY <5>2, AfterPostAdds, Zenon
        <5>5. r[i] = r[i - 1]
          BY <5>2, <5>3, <5>4 DEF AddsOne
        <5> QED BY <5>1, <5>5
      <4> QED BY <3>2, <4>1, <4>2, <4>3
    <3>6. 0..(n - 1) \subseteq W
      <4> HIDE DEF W
      <4>1. n - 1 \in Nat
        OBVIOUS
      <4> QED BY <3>4, <3>5, <4>1, InductionUpTo
    <3>7. Waits(n - 1)
      BY <3>2, <3>6
    <3> QED BY <2>2, <2>4, <3>1, <3>7 DEF NextEvent
  <2> QED BY <2>3, <2>4
<1>8. 0..MaxPost \subseteq T
  <2> HIDE DEF T
  <2> QED BY <1>0, <1>6, <1>7, InductionUpTo
<1>9. Came(e) /\ e.id \in 0..MaxPost
  BY <1>0, <1>1, <1>4, <1>5, <1>8
<1>10. r[MaxPost] = Chain(S) /\ MaxPost \in 0..MaxPost /\ e.id \in 0..MaxPost
  BY <1>0, <1>2, <1>9 DEF ChainsOf
<1> DEFINE k == Len(r[e.id])
<1>11. k \in 1..k /\ r[e.id][k] = e
  BY <1>3, <1>9 DEF NoReview, CurrentEvent
<1>12. Len(r[e.id]) <= Len(Chain(S)) /\ Chain(S)[k] = r[e.id][k]
  BY <1>2, <1>10, <1>11, ChainsGrow
<1> QED BY <1>3, <1>10, <1>11, <1>12

-----------------------------------------------------------------------------
\* The clones and the room.
Threads == {thread} \cup {copy[a] : a \in Participants}

\* Every message has an id of its own, one update is the request, and what a participant wrote is
\* in its own clone; updates answer updates that they may follow, in every clone that has them.
ThreadsInv ==
  /\ reviewScope \in ReviewScopes /\ DOMAIN copy = Participants
  /\ \A h \in Threads :
       /\ DOMAIN h = {"posted", "sealed"} /\ h.sealed \subseteq h.posted
          /\ h.posted \subseteq ReviewPost
       /\ h.posted \subseteq AllPosts /\ IsFiniteSet(h.posted)
       /\ \A e \in h.posted : Answers(h.posted, e)
  /\ \A e, f \in AllPosts : e.id = f.id => e = f
  /\ OneRequest(AllPosts)
  /\ \A e \in AllPosts : e \in copy[e.from].posted

\* What a participant has decided on may follow an update in its clone.
IntentsFollow ==
  /\ intent \in [Participants -> Intent \cup {NoIntent}]
  /\ \A a \in Participants : intent[a] # NoIntent =>
       \E f \in copy[a].posted : /\ f.id = intent[a].replyTo /\ f.state # "human"
                                 /\ Follows(f, intent[a].state, a)

\* What a itself put into the discussion.
OwnTalk(a) == {e \in LivePosts(copy[a]) : e.from = a /\ e.state = "discussing"}
TalkIsBounded ==
  \A a \in Participants :
    (\A e \in copy[a].posted : e.state # "human") => Cardinality(OwnTalk(a)) < ReplyBudget

\* The inductive invariant of a review.
ReviewInv == ThreadsInv /\ IntentsFollow /\ TalkIsBounded

\* Where no person takes part, all of the discussion counts.
LEMMA AllTalkCounts ==
  ASSUME NEW S, \A e \in S : e.state # "human"
  PROVE  Consecutive(S) = Cardinality({e \in S : e.state = "discussing"})
<1>1. {e \in S : e.state = "discussing" /\ \A h \in S : h.state = "human" => Precedes(S, h, e)}
        = {e \in S : e.state = "discussing"}
  OBVIOUS
<1> QED BY <1>1 DEF Consecutive

\* A step that spreads messages, and seals, and writes none.
SpreadsThread ==
  /\ UNCHANGED reviewScope
  /\ DOMAIN copy' = Participants
  /\ \A h \in {thread'} \cup {copy'[a] : a \in Participants} :
       /\ DOMAIN h = {"posted", "sealed"} /\ h.sealed \subseteq h.posted
       /\ \E f, g \in Threads : h.posted = f.posted \cup g.posted
  /\ \A a \in Participants :
       copy[a].posted \subseteq copy'[a].posted /\ copy[a].sealed \subseteq copy'[a].sealed

\* Such a step keeps the invariant.
LEMMA SpreadsKeep ==
  ASSUME ReviewInv, SpreadsThread, intent' \in [Participants -> Intent \cup {NoIntent}],
         \A a \in Participants : intent'[a] \in {intent[a], NoIntent}
  PROVE  ReviewInv'
<1>1. ThreadsInv /\ IntentsFollow /\ TalkIsBounded
  BY DEF ReviewInv
<1>2. AllPosts' = AllPosts
  <2>1. AllPosts' \subseteq AllPosts
    BY <1>1 DEF ThreadsInv, SpreadsThread, AllPosts, Threads
  <2>2. AllPosts \subseteq AllPosts'
    <3>1. ASSUME NEW e \in AllPosts PROVE e \in AllPosts'
      <4>1. e \in copy[e.from].posted /\ e.from \in Participants
        BY <1>1 DEF ThreadsInv, AllPosts, Threads, ReviewPost
      <4>2. e \in copy'[e.from].posted
        BY <4>1 DEF SpreadsThread
      <4> QED BY <4>1, <4>2 DEF AllPosts
    <3> QED BY <3>1
  <2> QED BY <2>1, <2>2
<1>3. ASSUME NEW h \in {thread'} \cup {copy'[a] : a \in Participants}
      PROVE  /\ DOMAIN h = {"posted", "sealed"} /\ h.sealed \subseteq h.posted
                /\ h.posted \subseteq ReviewPost
             /\ h.posted \subseteq AllPosts' /\ IsFiniteSet(h.posted)
             /\ \A e \in h.posted : Answers(h.posted, e)
  <2>1. PICK f \in Threads, g \in Threads : h.posted = f.posted \cup g.posted
    BY <1>3 DEF SpreadsThread
  <2>2. h.posted \subseteq ReviewPost /\ h.posted \subseteq AllPosts'
    BY <1>1, <1>2, <2>1 DEF ThreadsInv
  <2>3. IsFiniteSet(h.posted)
    <3>1. IsFiniteSet(f.posted) /\ IsFiniteSet(g.posted)
      BY <1>1, <2>1 DEF ThreadsInv
    <3>2. IsFiniteSet(f.posted \cup g.posted)
      BY <3>1, FS_Union
    <3> QED BY <2>1, <3>2
  <2>4. \A e \in h.posted : Answers(h.posted, e)
    BY <1>1, <2>1 DEF ThreadsInv, Answers
  <2> QED BY <1>3, <2>2, <2>3, <2>4 DEF SpreadsThread
<1>4. ThreadsInv'
  <2>1. \A e \in AllPosts' : e \in copy'[e.from].posted
    <3> TAKE e \in AllPosts'
    <3>1. e \in copy[e.from].posted /\ e.from \in Participants
      BY <1>1, <1>2 DEF ThreadsInv, AllPosts, Threads, ReviewPost
    <3> QED BY <3>1 DEF SpreadsThread
  <2>2. reviewScope' \in ReviewScopes /\ DOMAIN copy' = Participants
    BY <1>1 DEF ThreadsInv, SpreadsThread
  <2>3. OneRequest(AllPosts') /\ \A e, f \in AllPosts' : e.id = f.id => e = f
    BY <1>1, <1>2 DEF ThreadsInv
  <2>4. Threads' = {thread'} \cup {copy'[a] : a \in Participants}
    BY DEF Threads
  <2> QED BY <1>3, <2>1, <2>2, <2>3, <2>4 DEF ThreadsInv, OneRequest
<1>5. IntentsFollow'
  BY <1>1 DEF IntentsFollow, SpreadsThread
<1>6. TalkIsBounded'
  <2> SUFFICES ASSUME NEW a \in Participants, \A e \in copy'[a].posted : e.state # "human"
               PROVE  Cardinality(OwnTalk(a)') < ReplyBudget
    BY DEF TalkIsBounded
  <2>1. OwnTalk(a)' \in SUBSET OwnTalk(a)
    <3> SUFFICES ASSUME NEW e \in OwnTalk(a)' PROVE e \in OwnTalk(a)
      OBVIOUS
    <3>1. e \in copy'[a].posted /\ e \notin copy'[a].sealed /\ e.from = a /\ e.state = "discussing"
      BY DEF OwnTalk, LivePosts
    <3>2. e \in AllPosts
      BY <1>2, <3>1 DEF AllPosts
    <3>3. e \in copy[a].posted /\ e \notin copy[a].sealed
      BY <1>1, <3>1, <3>2 DEF ThreadsInv, SpreadsThread
    <3> QED BY <3>1, <3>3 DEF OwnTalk, LivePosts
  <2>2. IsFiniteSet(copy[a].posted) /\ OwnTalk(a) \in SUBSET copy[a].posted
    BY <1>1 DEF ThreadsInv, Threads, OwnTalk, LivePosts
  <2>3. IsFiniteSet(OwnTalk(a))
    BY <2>2, FS_Subset
  <2>4. /\ Cardinality(OwnTalk(a)') <= Cardinality(OwnTalk(a))
        /\ Cardinality(OwnTalk(a)') \in Nat /\ Cardinality(OwnTalk(a)) \in Nat
    BY <2>1, <2>3, FS_Subset, FS_CardinalityType
  <2>5. Cardinality(OwnTalk(a)) < ReplyBudget
    BY <1>1 DEF TalkIsBounded, SpreadsThread
  <2> QED BY <2>4, <2>5, ReviewAssumption
<1> QED BY <1>4, <1>5, <1>6 DEF ReviewInv

\* A message that is written keeps the invariant, if it answers something and is within the budget.
LEMMA WritingKeeps ==
  ASSUME ReviewInv, NEW a \in Participants, NEW e \in ReviewPost, e.from = a,
         UNCHANGED <<reviewScope, thread>>,
         copy' = [copy EXCEPT ![a].posted = @ \cup {e}],
         \A f \in AllPosts : f.id # e.id,
         Answers(copy[a].posted, e),
         e.state # "human" /\ e.replyTo = 0 => AllPosts = {},
         e.state = "discussing" => ~ShouldPark(LivePosts(copy[a])),
         intent' \in [Participants -> Intent \cup {NoIntent}],
         \A b \in Participants : intent'[b] \in {intent[b], NoIntent}
  PROVE  ReviewInv'
<1>1. ThreadsInv /\ IntentsFollow /\ TalkIsBounded
  BY DEF ReviewInv
<1>2. /\ DOMAIN copy' = Participants
      /\ \A b \in Participants \ {a} : copy'[b] = copy[b]
      /\ DOMAIN copy'[a] = {"posted", "sealed"}
      /\ copy'[a].posted = copy[a].posted \cup {e}
      /\ copy'[a].sealed = copy[a].sealed
  BY <1>1 DEF ThreadsInv, Threads
<1>3. AllPosts' = AllPosts \cup {e}
  BY <1>2 DEF AllPosts
<1>4. copy[a] \in Threads
  BY DEF Threads
<1>5. ThreadsInv'
  <2>1. Threads' = {thread'} \cup {copy'[b] : b \in Participants}
    BY DEF Threads
  <2>2. ASSUME NEW h \in Threads'
        PROVE  /\ DOMAIN h = {"posted", "sealed"} /\ h.sealed \subseteq h.posted
                  /\ h.posted \subseteq ReviewPost
               /\ h.posted \subseteq AllPosts' /\ IsFiniteSet(h.posted)
               /\ \A f \in h.posted : Answers(h.posted, f)
    <3>1. CASE h \in Threads
      BY <1>1, <1>3, <3>1 DEF ThreadsInv
    <3>2. CASE h = copy'[a]
      <4>1. IsFiniteSet(h.posted)
        BY <1>1, <1>2, <1>4, <3>2, FS_AddElement DEF ThreadsInv
      <4>2. \A f \in h.posted : Answers(h.posted, f)
        BY <1>1, <1>2, <1>4, <3>2 DEF ThreadsInv, Answers
      <4>3. h.posted \subseteq ReviewPost /\ h.posted \subseteq AllPosts'
            /\ h.sealed \subseteq h.posted
        BY <1>1, <1>2, <1>3, <1>4, <3>2 DEF ThreadsInv
      <4> QED BY <1>2, <3>2, <4>1, <4>2, <4>3
    <3> QED BY <1>2, <2>1, <2>2, <3>1, <3>2 DEF Threads
  <2>3. \A f, g \in AllPosts' : f.id = g.id => f = g
    BY <1>1, <1>3 DEF ThreadsInv
  <2>4. OneRequest(AllPosts')
    BY <1>1, <1>3 DEF ThreadsInv, OneRequest
  <2>5. \A f \in AllPosts' : f \in copy'[f.from].posted
    <3> TAKE f \in AllPosts'
    <3>1. CASE f = e
      BY <1>2, <3>1
    <3>2. CASE f \in AllPosts
      <4>1. f.from \in Participants /\ f \in copy[f.from].posted
        BY <1>1, <3>2 DEF ThreadsInv, AllPosts, Threads, ReviewPost
      <4> QED BY <1>2, <4>1
    <3> QED BY <1>3, <3>1, <3>2
  <2> QED BY <1>1, <1>2, <2>2, <2>3, <2>4, <2>5 DEF ThreadsInv, OneRequest
<1>6. IntentsFollow'
  BY <1>1, <1>2 DEF IntentsFollow
<1>7. TalkIsBounded'
  <2> SUFFICES ASSUME NEW b \in Participants, \A f \in copy'[b].posted : f.state # "human"
               PROVE  Cardinality(OwnTalk(b)') < ReplyBudget
    BY DEF TalkIsBounded
  <2>1. CASE b # a
    <3>1. OwnTalk(b)' = OwnTalk(b) /\ copy'[b] = copy[b]
      BY <1>2, <2>1 DEF OwnTalk, LivePosts
    <3> QED BY <1>1, <3>1 DEF TalkIsBounded
  <2>2. CASE b = a /\ e.state # "discussing"
    <3>1. OwnTalk(a)' = OwnTalk(a)
      BY <1>2, <2>2 DEF OwnTalk, LivePosts
    <3> QED BY <1>1, <1>2, <2>2, <3>1 DEF TalkIsBounded
  <2>3. CASE b = a /\ e.state = "discussing"
    <3> DEFINE S == LivePosts(copy[a])
               talk == {f \in S : f.state = "discussing"}
    <3>1. S \in SUBSET copy[a].posted /\ IsFiniteSet(copy[a].posted)
      BY <1>1, <1>4 DEF LivePosts, ThreadsInv
    <3>2. IsFiniteSet(talk) /\ OwnTalk(a) \in SUBSET talk
      <4>1. IsFiniteSet(S)
        BY <3>1, FS_Subset
      <4>2. talk \in SUBSET S /\ OwnTalk(a) \in SUBSET talk
        BY DEF OwnTalk
      <4> QED BY <4>1, <4>2, FS_Subset
    <3>3. Consecutive(S) = Cardinality(talk)
      <4>1. \A f \in S : f.state # "human"
        BY <1>2, <2>3, <3>1
      <4> QED BY <4>1, AllTalkCounts
    <3>4. Cardinality(talk) \in Nat
      BY <3>2, FS_CardinalityType
    <3>5. Cardinality(talk) + 1 < ReplyBudget
      BY <2>3, <3>3, <3>4, ReviewAssumption DEF ShouldPark
    <3>6. OwnTalk(a)' \in SUBSET (talk \cup {e})
      BY <1>2 DEF OwnTalk, LivePosts
    <3> HIDE DEF talk
    <3>7. IsFiniteSet(talk \cup {e}) /\ Cardinality(talk \cup {e}) <= Cardinality(talk) + 1
      <4>1. /\ IsFiniteSet(talk \cup {e})
            /\ Cardinality(talk \cup {e})
                 = (IF e \in talk THEN Cardinality(talk) ELSE Cardinality(talk) + 1)
        BY <3>2, FS_AddElement
      <4> QED BY <3>4, <4>1
    <3>8. Cardinality(talk \cup {e}) \in Nat
      BY <3>7, FS_CardinalityType
    <3>9. Cardinality(OwnTalk(a)') <= Cardinality(talk \cup {e})
          /\ Cardinality(OwnTalk(a)') \in Nat
      BY <3>6, <3>7, FS_Subset, FS_CardinalityType
    <3> QED BY <2>3, <3>4, <3>5, <3>7, <3>8, <3>9, ReviewAssumption
  <2> QED BY <2>1, <2>2, <2>3
<1> QED BY <1>5, <1>6, <1>7 DEF ReviewInv

\* A merge has what one of the two sides has.
LEMMA JoinedJoins ==
  ASSUME NEW h, NEW g
  PROVE  /\ DOMAIN Joined(h, g) = {"posted", "sealed"}
         /\ Joined(h, g).posted = h.posted \cup g.posted
         /\ Joined(h, g).sealed = h.sealed \cup g.sealed
BY DEF Joined

\* The states of a review are not a person's.
LEMMA HumansAreNoState == "human" \notin ReviewStates /\ "requested" \in ReviewStates
BY DEF ReviewStates, AllowedTransitions, TerminalReview, Closing

\* Every reachable state satisfies the invariant.
THEOREM ReviewInvariant == ReviewSpec => []ReviewInv
<1>0. ReviewScopes \subseteq ReviewScope /\ ReplyBudget \in Nat \ {0} /\ MaxPost \in Nat
  BY ReviewAssumption
<1>1. ReviewInit => ReviewInv
  <2> SUFFICES ASSUME ReviewInit PROVE ReviewInv
    OBVIOUS
  <2>1. AllPosts = {} /\ Threads = {NoPosts}
    BY DEF ReviewInit, AllPosts, Threads, NoPosts
  <2>2. ThreadsInv
    BY <2>1, FS_EmptySet DEF ReviewInit, ThreadsInv, NoPosts, OneRequest
  <2>3. IntentsFollow
    BY DEF ReviewInit, IntentsFollow
  <2>4. TalkIsBounded
    <3>1. \A a \in Participants : OwnTalk(a) = {}
      BY DEF ReviewInit, OwnTalk, LivePosts, NoPosts
    <3> QED BY <1>0, <3>1, FS_EmptySet DEF TalkIsBounded
  <2> QED BY <2>2, <2>3, <2>4 DEF ReviewInv
<1>2. ASSUME ReviewInv, [ReviewNext]_reviewVars PROVE ReviewInv'
  <2>1. ThreadsInv /\ IntentsFollow /\ TalkIsBounded
    BY <1>2 DEF ReviewInv
  <2>2. reviewScope \in ReviewScope /\ DOMAIN copy = Participants
    BY <1>0, <2>1 DEF ThreadsInv
  <2>3. ASSUME NEW id \in Posts, RequestReview(id) PROVE ReviewInv'
    <3> DEFINE e == [id |-> id, from |-> Requester, state |-> "requested", replyTo |-> 0]
    <3>1. e \in ReviewPost /\ Requester \in Participants
      BY <1>0, HumansAreNoState DEF ReviewPost, Participants
    <3>2. /\ e.from = Requester /\ e.id = id /\ e.state = "requested" /\ e.replyTo = 0
          /\ e.state # "human" /\ e.state # "discussing"
      BY HumansAreNoState
    <3>3. copy' = [copy EXCEPT ![Requester].posted = @ \cup {e}] /\ UNCHANGED <<reviewScope,
          thread, intent>>
      BY <2>3 DEF RequestReview, Write
    <3>4. AllPosts = {}
      BY <2>3 DEF RequestReview
    <3> HIDE DEF e
    <3>5. Answers(copy[Requester].posted, e)
      BY <3>2 DEF Answers
    <3>6. intent' \in [Participants -> Intent \cup {NoIntent}]
          /\ \A b \in Participants : intent'[b] = intent[b]
      BY <2>1, <3>3 DEF IntentsFollow
    <3> QED BY <1>2, <3>1, <3>2, <3>3, <3>4, <3>5, <3>6, WritingKeeps
  <2>4. ASSUME NEW a \in Participants, NEW state \in reviewScope.states, UpdateReview(a, state)
        PROVE  ReviewInv'
    <3> DEFINE f == CurrentEvent(ReviewOf(a))
    <3>1. /\ ReviewOf(a) # NoReview /\ Follows(f, state, a) /\ UNCHANGED <<reviewScope, thread,
             copy>>
          /\ intent' = [intent EXCEPT ![a] = [state |-> state, replyTo |-> f.id]]
      BY <2>4 DEF UpdateReview
    <3>2. f \in LivePosts(copy[a]) /\ f.state # "human"
      BY <3>1, CurrentIsUpdate DEF ReviewOf
    <3> HIDE DEF f
    <3>3. f \in copy[a].posted /\ f.id \in Posts /\ state \in ReviewStates
      BY <2>1, <2>2, <3>2 DEF LivePosts, ThreadsInv, Threads, ReviewPost, ReviewScope
    <3> DEFINE i == [state |-> state, replyTo |-> f.id]
    <3>4. i \in Intent /\ i.state = state /\ i.replyTo = f.id
      BY <3>3 DEF Intent
    <3> HIDE DEF i
    <3>5. intent' = [intent EXCEPT ![a] = i]
      BY <3>1 DEF i
    <3>6. /\ intent' \in [Participants -> Intent \cup {NoIntent}] /\ intent'[a] = i
          /\ \A b \in Participants \ {a} : intent'[b] = intent[b]
      BY <2>1, <3>4, <3>5 DEF IntentsFollow
    <3>7. IntentsFollow'
      BY <2>1, <3>1, <3>2, <3>3, <3>4, <3>6 DEF IntentsFollow
    <3>8. ThreadsInv'
      BY <2>1, <3>1 DEF ThreadsInv, Threads, AllPosts, OneRequest
    <3>9. TalkIsBounded'
      BY <2>1, <3>1 DEF TalkIsBounded, OwnTalk
    <3> QED BY <3>7, <3>8, <3>9 DEF ReviewInv
  <2>5. ASSUME NEW a \in Participants, NEW id \in Posts, SendUpdate(a, id) PROVE ReviewInv'
    <3> DEFINE e == [id |-> id, from |-> a, state |-> intent[a].state,
               replyTo |-> intent[a].replyTo]
    <3>1. intent[a] \in Intent
      BY <2>1, <2>5 DEF SendUpdate, IntentsFollow
    <3>2. intent[a].state \in ReviewStates /\ intent[a].replyTo \in Posts
      BY <3>1 DEF Intent
    <3>3. /\ e \in ReviewPost /\ e.from = a /\ e.id = id /\ e.state = intent[a].state
          /\ e.replyTo = intent[a].replyTo /\ e.replyTo # 0 /\ e.state # "human"
      BY <1>0, <3>2, HumansAreNoState DEF ReviewPost, Posts
    <3>4. copy' = [copy EXCEPT ![a].posted = @ \cup {e}] /\ UNCHANGED <<reviewScope, thread>>
      BY <2>5 DEF SendUpdate, Write
    <3> HIDE DEF e
    <3>5. Answers(copy[a].posted, e)
      BY <2>1, <2>5, <3>3 DEF SendUpdate, IntentsFollow, Answers
    <3>6. e.state = "discussing" => ~ShouldPark(LivePosts(copy[a]))
      BY <2>5, <3>3 DEF SendUpdate
    <3>7. \A f \in AllPosts : f.id # e.id
      BY <2>5, <3>3 DEF SendUpdate, NewPosts
    <3>8. intent' \in [Participants -> Intent \cup {NoIntent}]
          /\ \A b \in Participants : intent'[b] \in {intent[b], NoIntent}
      BY <2>1, <2>5 DEF SendUpdate, IntentsFollow
    <3> QED BY <1>2, <3>3, <3>4, <3>5, <3>6, <3>7, <3>8, WritingKeeps
  <2>6. ASSUME NEW a \in Participants, NEW id \in Posts, NEW f \in LivePosts(copy[a]),
               Relay(a, id, f)
        PROVE  ReviewInv'
    <3> DEFINE e == [id |-> id, from |-> a, state |-> "human", replyTo |-> f.id]
    <3>1. f.id \in Posts
      BY <2>1 DEF LivePosts, ThreadsInv, Threads, ReviewPost
    <3>2. e \in ReviewPost /\ e.from = a /\ e.id = id /\ e.state = "human"
      BY <1>0, <3>1 DEF ReviewPost, Posts
    <3>3. copy' = [copy EXCEPT ![a].posted = @ \cup {e}] /\ UNCHANGED <<reviewScope, thread,
          intent>>
      BY <2>6 DEF Relay, Write
    <3> HIDE DEF e
    <3>4. Answers(copy[a].posted, e) /\ \A g \in AllPosts : g.id # e.id
      BY <2>6, <3>2 DEF Answers, Relay, NewPosts
    <3>5. intent' \in [Participants -> Intent \cup {NoIntent}]
          /\ \A b \in Participants : intent'[b] = intent[b]
      BY <2>1, <3>3 DEF IntentsFollow
    <3>6. e.state # "discussing"
      BY <3>2
    <3> QED BY <1>2, <3>2, <3>3, <3>4, <3>5, <3>6, WritingKeeps
  <2>7. ASSUME NEW a \in Participants, DropUpdate(a) PROVE ReviewInv'
    <3>1. SpreadsThread
      BY <2>1, <2>7 DEF DropUpdate, SpreadsThread, ThreadsInv, Threads
    <3>2. intent' \in [Participants -> Intent \cup {NoIntent}]
          /\ \A b \in Participants : intent'[b] \in {intent[b], NoIntent}
      BY <2>1, <2>7 DEF DropUpdate, IntentsFollow
    <3> QED BY <1>2, <3>1, <3>2, SpreadsKeep
  <2>8. ASSUME UNCHANGED <<reviewScope, intent>>, NEW a \in Participants,
               DOMAIN copy' = Participants,
               thread' = thread \/ thread' = copy'[a],
               DOMAIN copy'[a] = {"posted", "sealed"}, copy'[a].sealed \subseteq copy'[a].posted,
               copy'[a].posted = copy[a].posted \cup thread.posted,
               copy[a].sealed \subseteq copy'[a].sealed,
               \A b \in Participants \ {a} : copy'[b] = copy[b]
        PROVE  ReviewInv'
    <3>1. ASSUME NEW h \in {thread'} \cup {copy'[b] : b \in Participants}
          PROVE  /\ DOMAIN h = {"posted", "sealed"} /\ h.sealed \subseteq h.posted
                 /\ \E f, g \in Threads : h.posted = f.posted \cup g.posted
      <4>1. CASE h \in Threads
        BY <2>1, <4>1 DEF ThreadsInv
      <4>2. CASE h = copy'[a]
        BY <2>8, <4>2 DEF Threads
      <4> QED BY <2>8, <3>1, <4>1, <4>2 DEF Threads
    <3>2. SpreadsThread
      BY <2>8, <3>1 DEF SpreadsThread
    <3>3. intent' \in [Participants -> Intent \cup {NoIntent}]
          /\ \A b \in Participants : intent'[b] = intent[b]
      BY <2>1, <2>8 DEF IntentsFollow
    <3> QED BY <1>2, <3>2, <3>3, SpreadsKeep
  <2>9. \A h \in Threads : DOMAIN h = {"posted", "sealed"} /\ h.sealed \subseteq h.posted
    BY <2>1 DEF ThreadsInv
  <2>10. ASSUME NEW a \in Participants, PublishCopy(a) PROVE ReviewInv'
    <3>1. /\ thread' = Joined(thread, copy[a]) /\ DOMAIN copy' = Participants /\ copy'[a] = thread'
          /\ UNCHANGED <<reviewScope, intent>>
          /\ \A b \in Participants \ {a} : copy'[b] = copy[b]
      BY <2>2, <2>10 DEF PublishCopy
    <3> QED BY <2>8, <2>9, <3>1, JoinedJoins DEF Threads
  <2>11. ASSUME NEW a \in Participants, FetchCopy(a) PROVE ReviewInv'
    <3>1. /\ thread' = thread /\ DOMAIN copy' = Participants /\ copy'[a] = Joined(copy[a], thread)
          /\ UNCHANGED <<reviewScope, intent>>
          /\ \A b \in Participants \ {a} : copy'[b] = copy[b]
      BY <2>2, <2>11 DEF FetchCopy
    <3> QED BY <2>8, <2>9, <3>1, JoinedJoins DEF Threads
  <2>12. ASSUME NEW a \in Participants, NEW id \in Posts, SealThread(a, id) PROVE ReviewInv'
    <3> DEFINE old == {e \in LivePosts(copy[a]) : e.id <= id} \ ProtectedPosts(LivePosts(copy[a]))
               new == [Joined(thread, copy[a]) EXCEPT !.sealed = @ \cup old]
    <3>1. thread' = new /\ copy' = [copy EXCEPT ![a] = new] /\ UNCHANGED <<reviewScope, intent>>
      BY <2>12 DEF SealThread
    <3>2. old \subseteq copy[a].posted
      BY DEF LivePosts
    <3>3. /\ DOMAIN new = {"posted", "sealed"} /\ new.posted = thread.posted \cup copy[a].posted
          /\ new.sealed = thread.sealed \cup copy[a].sealed \cup old
      BY JoinedJoins
    <3> HIDE DEF old, new
    <3>4. /\ DOMAIN copy' = Participants /\ copy'[a] = new
          /\ \A b \in Participants \ {a} : copy'[b] = copy[b]
      BY <2>2, <3>1
    <3> QED BY <2>8, <2>9, <3>1, <3>2, <3>3, <3>4 DEF Threads
  <2>13. CASE UNCHANGED reviewVars
    BY <2>1, <2>13
       DEF reviewVars, ReviewInv, ThreadsInv, Threads, AllPosts, OneRequest, IntentsFollow,
       TalkIsBounded, OwnTalk
  <2> QED BY <1>2, <2>3, <2>4, <2>5, <2>6, <2>7, <2>10, <2>11, <2>12, <2>13
      DEF ReviewNext, ReviewCommand
<1> QED BY <1>1, <1>2, PTL DEF ReviewSpec

\* The type invariant.
THEOREM ReviewTyped == ReviewSpec => []ReviewTypeOK
<1>1. ReviewInv => ReviewTypeOK
  BY DEF ReviewInv, ThreadsInv, Threads, IntentsFollow, ReviewTypeOK
<1> QED BY <1>1, ReviewInvariant, PTL

\* Nobody gets more into a discussion without people than the budget allows
\* (AutonomousTalkIsBounded).
THEOREM TalkStaysBounded == ReviewSpec => []AutonomousTalkIsBounded
<1>1. ASSUME ReviewInv PROVE AutonomousTalkIsBounded
  <2> SUFFICES ASSUME NEW a \in Participants, \A e \in copy[a].posted : e.state # "human"
               PROVE  Cardinality(Talk(a)) < ReplyBudget
    BY DEF AutonomousTalkIsBounded
  <2>1. Talk(a) = OwnTalk(a)
    BY DEF Talk, OwnTalk, LivePosts
  <2> QED BY <1>1, <2>1 DEF ReviewInv, TalkIsBounded
<1> QED BY <1>1, ReviewInvariant, PTL

\* An update loses only to another reply to the same event (OnlyRacesLose).
THEOREM OnlyRacesAreLost == ReviewSpec => []OnlyRacesLose
<1>1. ASSUME ReviewInv PROVE OnlyRacesLose
  <2> SUFFICES ASSUME NEW a \in Participants, \A e \in copy[a].posted : e.replyTo < e.id,
                      NEW e \in Unraced(copy[a].posted)
               PROVE  \E i \in 1..Len(Chain(copy[a].posted)) : Chain(copy[a].posted)[i] = e
    BY DEF OnlyRacesLose
  <2> DEFINE S == copy[a].posted
  <2>1. S \in SUBSET ReviewPost /\ S \subseteq AllPosts /\ \A f \in S : Answers(S, f)
    BY <1>1 DEF ReviewInv, ThreadsInv, Threads
  <2>2. (\A f, g \in S : f.id = g.id => f = g) /\ OneRequest(S)
    BY <1>1, <2>1 DEF ReviewInv, ThreadsInv, OneRequest
  <2> QED BY <2>1, <2>2, UnracedInChain
<1> QED BY <1>1, ReviewInvariant, PTL

-----------------------------------------------------------------------------
\* Every event of a chain answers the one before, and no chain is longer than there are ids.
LEMMA ChainsAnswer ==
  ASSUME NEW S, NEW r, ChainsOf(S, r), NEW n \in 0..MaxPost
  PROVE  Len(r[n]) <= n /\ \A k \in 2..Len(r[n]) : r[n][k].replyTo = r[n][k - 1].id
<1>0. MaxPost \in Nat /\ \A i \in 0..MaxPost : r[i] \in Seq(S)
  BY ReviewAssumption DEF ChainsOf
<1> DEFINE Linked(m) == \A k \in 2..Len(r[m]) : r[m][k].replyTo = r[m][k - 1].id
           T == {m \in 0..MaxPost : Len(r[m]) <= m /\ Linked(m)}
<1>1. 0 \in T
  BY <1>0 DEF ChainsOf, NoReview
<1>2. ASSUME NEW m \in 1..MaxPost, m - 1 \in T PROVE m \in T
  <2>1. r[m] = AfterPost(S, r[m - 1], m) /\ m - 1 \in 0..MaxPost /\ r[m - 1] \in Seq(S)
    BY <1>0 DEF ChainsOf
  <2>2. CASE r[m] = r[m - 1]
    <3>1. Len(r[m]) <= m /\ Linked(m)
      BY <1>2, <2>1, <2>2
    <3> QED BY <3>1
  <2>3. ASSUME NEW e \in S, NextEvent(r[m - 1], e), r[m] = r[m - 1] \o <<e>> PROVE m \in T
    <3> DEFINE s == r[m - 1]
               t == r[m]
    <3>1. /\ Len(t) = Len(s) + 1 /\ Len(s) \in Nat /\ t[Len(s) + 1] = e
          /\ \A k \in 1..Len(s) : t[k] = s[k]
      BY <2>1, <2>3, OneLonger
    <3>2. Len(s) <= m - 1 /\ \A k \in 2..Len(s) : s[k].replyTo = s[k - 1].id
      BY <1>2
    <3>3. Len(s) >= 1 => e.replyTo = s[Len(s)].id
      <4>1. Len(s) >= 1 => s # NoReview
        BY DEF NoReview
      <4> QED BY <2>3, <4>1 DEF NextEvent, CurrentEvent
    <3> HIDE DEF s, t
    <3>4. Len(t) <= m
      BY <3>1, <3>2
    <3>5. \A k \in 2..Len(t) : t[k].replyTo = t[k - 1].id
      <4> TAKE k \in 2..Len(t)
      <4>1. CASE k = Len(s) + 1
        <5>1. k - 1 = Len(s) /\ Len(s) >= 1 /\ Len(s) \in 1..Len(s)
          BY <3>1, <4>1
        <5> QED BY <3>1, <3>3, <4>1, <5>1
      <4>2. CASE k \in 2..Len(s)
        <5>1. k \in 1..Len(s) /\ k - 1 \in 1..Len(s)
          BY <4>2
        <5> QED BY <3>1, <3>2, <4>2, <5>1
      <4> QED BY <3>1, <4>1, <4>2
    <3> QED BY <3>4, <3>5 DEF t
  <2>4. AddsOne(S, r[m - 1], m)
    BY <2>1, AfterPostAdds, Zenon
  <2>5. r[m] = r[m - 1] \/ \E e \in S : NextEvent(r[m - 1], e) /\ r[m] = r[m - 1] \o <<e>>
    BY <2>1, <2>4 DEF AddsOne
  <2> HIDE DEF T
  <2> QED BY <2>2, <2>3, <2>5
<1>3. 0..MaxPost \subseteq T
  <2> HIDE DEF T
  <2> QED BY <1>0, <1>1, <1>2, InductionUpTo
<1> QED BY <1>3

\* p[k] is what is protected: the open messages and what they reply to, k times.
ProtectedUpTo(S, p) ==
  /\ p \in [0..MaxPost -> SUBSET S] /\ ProtectedPosts(S) = p[MaxPost] /\ p[0] = OpenPosts(S)
  /\ \A k \in 1..MaxPost : p[k] = p[k - 1] \cup {e \in S : \E f \in p[k - 1] : f.replyTo = e.id}

\* The open messages are among the messages.
LEMMA OpenPostsAreThere ==
  ASSUME NEW S
  PROVE  OpenPosts(S) \subseteq S
<1>1. CASE Chain(S) = NoReview
  BY <1>1 DEF OpenPosts
<1>2. CASE Chain(S) # NoReview
  BY <1>2, CurrentIsUpdate DEF OpenPosts
<1> QED BY <1>1, <1>2

\* What ProtectedPosts computes, step by step.
LEMMA ProtectedSteps ==
  ASSUME NEW S
  PROVE  \E p : ProtectedUpTo(S, p)
<1> DEFINE More(later) == later \cup {e \in S : \E f \in later : f.replyTo = e.id}
           Step == [q \in (1..MaxPost) \X SUBSET S |-> More(q[2])]
           Is(g) == g = [k \in 0..MaxPost |->
                           IF k = 0 THEN OpenPosts(S)
                           ELSE LET later == g[k - 1]
                                IN  later \cup {e \in S : \E f \in later : f.replyTo = e.id}]
<1>0. MaxPost \in Nat
  BY ReviewAssumption
<1>1. OpenPosts(S) \in SUBSET S
  BY OpenPostsAreThere
<1>2. \A later \in SUBSET S : More(later) \in SUBSET S
  OBVIOUS
<1>3. Step \in [(1..MaxPost) \X SUBSET S -> SUBSET S]
  BY <1>2
<1>4. PICK f \in [0..MaxPost -> SUBSET S] :
        f[0] = OpenPosts(S) /\ \A k \in 1..MaxPost : f[k] = Step[<<k, f[k - 1]>>]
  <2> HIDE DEF Step
  <2>1. Recurs(MaxPost, SUBSET S, OpenPosts(S), Step)
    BY <1>0, <1>1, <1>3, Recursion, Zenon
  <2> QED BY <2>1 DEF Recurs
<1>5. \A k \in 1..MaxPost : f[k - 1] \in SUBSET S /\ f[k] = More(f[k - 1])
  <2> TAKE k \in 1..MaxPost
  <2>1. k - 1 \in 0..MaxPost
    BY <1>0
  <2>2. f[k - 1] \in SUBSET S
    BY <1>4, <2>1
  <2>3. Step[<<k, f[k - 1]>>] = More(f[k - 1])
    BY <2>2
  <2> QED BY <1>4, <2>2, <2>3
<1>6. Is(f)
  <2>1. \A k \in 0..MaxPost : f[k] = IF k = 0 THEN OpenPosts(S) ELSE More(f[k - 1])
    <3> TAKE k \in 0..MaxPost
    <3>1. k = 0 \/ k \in 1..MaxPost
      BY <1>0
    <3> HIDE DEF More
    <3> QED BY <1>4, <1>5, <3>1
  <2>2. f = [k \in 0..MaxPost |-> f[k]]
    OBVIOUS
  <2> QED BY <2>1, <2>2, Zenon
<1> HIDE DEF Is
<1> DEFINE r == CHOOSE g : Is(g)
<1>7. Is(r) /\ ProtectedPosts(S) = r[MaxPost]
  <2>1. Is(r)
    BY <1>6
  <2>2. ProtectedPosts(S) = r[MaxPost]
    BY Zenon DEF ProtectedPosts, Is
  <2> QED BY <2>1, <2>2
<1>8. \A k \in 0..MaxPost : r[k] = IF k = 0 THEN OpenPosts(S) ELSE More(r[k - 1])
  <2> HIDE DEF r
  <2> QED BY <1>7 DEF Is
<1>9. r = [k \in 0..MaxPost |-> r[k]]
  <2> HIDE DEF r
  <2> QED BY <1>7 DEF Is
<1> HIDE DEF r
<1>10. r[0] = OpenPosts(S) /\ \A k \in 1..MaxPost : r[k] = More(r[k - 1])
  <2> HIDE DEF More
  <2> QED BY <1>0, <1>8
<1>11. \A k \in 0..MaxPost : r[k] \in SUBSET S
  <2> DEFINE T == {k \in 0..MaxPost : r[k] \in SUBSET S}
  <2>1. 0 \in T
    BY <1>0, <1>1, <1>10
  <2>2. ASSUME NEW k \in 1..MaxPost, k - 1 \in T PROVE k \in T
    <3> HIDE DEF More
    <3> QED BY <1>2, <1>10, <2>2
  <2>3. 0..MaxPost \subseteq T
    <3> HIDE DEF T
    <3> QED BY <1>0, <2>1, <2>2, InductionUpTo
  <2> QED BY <2>3
<1>12. r \in [0..MaxPost -> SUBSET S]
  BY <1>9, <1>11
<1>13. ProtectedUpTo(S, r)
  BY <1>7, <1>10, <1>12 DEF ProtectedUpTo
<1> QED BY <1>13

\* The whole chain of a pending review is protected.
LEMMA PendingChainIsProtected ==
  ASSUME NEW S, Pending(Chain(S)), NEW i \in 1..Len(Chain(S))
  PROVE  Chain(S)[i] \in ProtectedPosts(S)
<1>0. MaxPost \in Nat
  BY ReviewAssumption
<1>1. PICK r : ChainsOf(S, r)
  BY ChainSteps
<1>2. PICK p : ProtectedUpTo(S, p)
  BY ProtectedSteps
<1> DEFINE chain == Chain(S)
           n == Len(chain)
<1>3. MaxPost \in 0..MaxPost /\ chain = r[MaxPost] /\ chain \in Seq(S) /\ n \in Nat
  BY <1>0, <1>1 DEF ChainsOf
<1>4. n <= MaxPost /\ \A k \in 2..n : chain[k].replyTo = chain[k - 1].id
  BY <1>1, <1>3, ChainsAnswer
<1>5. p[0] = {chain[n]}
  <2>1. chain # NoReview
    BY DEF Pending
  <2> QED BY <1>2, <2>1 DEF ProtectedUpTo, OpenPosts, CurrentEvent
<1> HIDE DEF chain, n
<1> DEFINE T == {k \in 0..MaxPost : \A j \in 0..k : j < n => chain[n - j] \in p[k]}
<1>6. 0 \in T
  BY <1>0, <1>3, <1>5
<1>7. ASSUME NEW k \in 1..MaxPost, k - 1 \in T PROVE k \in T
  <2>1. p[k] = p[k - 1] \cup {e \in S : \E f \in p[k - 1] : f.replyTo = e.id}
    BY <1>2 DEF ProtectedUpTo
  <2>2. ASSUME NEW j \in 0..k, j < n PROVE chain[n - j] \in p[k]
    <3>1. CASE j \in 0..(k - 1)
      BY <1>7, <2>1, <2>2, <3>1
    <3>2. CASE j = k
      <4>1. /\ k - 1 \in 0..(k - 1) /\ k - 1 < n /\ n - (k - 1) \in 2..n /\ n - (k - 1) - 1 = n - k
            /\ n - k \in 1..n
        BY <1>3, <2>2, <3>2
      <4>2. chain[n - (k - 1)] \in p[k - 1]
        BY <1>7, <4>1
      <4>3. chain[n - (k - 1)].replyTo = chain[n - k].id
        BY <1>4, <4>1
      <4>4. chain[n - k] \in S
        BY <1>3, <4>1 DEF n
      <4> QED BY <2>1, <3>2, <4>2, <4>3, <4>4
    <3> QED BY <3>1, <3>2
  <2> QED BY <1>0, <2>2
<1>8. 0..MaxPost \subseteq T
  <2> HIDE DEF T
  <2> QED BY <1>0, <1>6, <1>7, InductionUpTo
<1>9. i \in 1..n
  BY DEF n, chain
<1>10. n - i \in 0..MaxPost /\ n - i < n /\ n - (n - i) = i
  BY <1>0, <1>3, <1>4, <1>9
<1>11. chain[i] \in p[MaxPost]
  BY <1>0, <1>8, <1>10
<1> QED BY <1>2, <1>11 DEF ProtectedUpTo, chain

\* Messages that are in no chain may go: the chain stays what it was.
LEMMA ChainWithoutTheRest ==
  ASSUME NEW S, \A e, f \in S : e.id = f.id => e = f, NEW L \in SUBSET S,
         \A i \in 1..Len(Chain(S)) : Chain(S)[i] \in L
  PROVE  Chain(L) = Chain(S)
<1>0. MaxPost \in Nat
  BY ReviewAssumption
<1>1. PICK r : ChainsOf(S, r)
  BY ChainSteps
<1>2. PICK q : ChainsOf(L, q)
  BY ChainSteps
<1> DEFINE T == {n \in 0..MaxPost : q[n] = r[n]}
<1>3. 0 \in T
  BY <1>0, <1>1, <1>2 DEF ChainsOf
<1>4. ASSUME NEW n \in 1..MaxPost, n - 1 \in T PROVE n \in T
  <2>1. /\ r[n] = AfterPost(S, r[n - 1], n) /\ r[n - 1] \in Seq(S) /\ r[n] \in Seq(S)
        /\ q[n] = AfterPost(L, r[n - 1], n) /\ r[n - 1] \in Seq(L)
    BY <1>0, <1>1, <1>2, <1>4 DEF ChainsOf
  <2>2. AddsOne(S, r[n - 1], n) /\ AddsOne(L, r[n - 1], n)
    BY <2>1, AfterPostAdds, Zenon
  <2>3. ASSUME NEW e \in S, e.id = n, e.state # "human", NextEvent(r[n - 1], e),
               r[n] = r[n - 1] \o <<e>>
        PROVE  q[n] = r[n]
    <3> DEFINE k == Len(r[n - 1]) + 1
    <3>1. Len(r[n]) = k /\ k \in 1..k /\ r[n][k] = e
      BY <2>1, <2>3, OneLonger
    <3>2. MaxPost \in 0..MaxPost /\ n \in 0..MaxPost /\ Chain(S) = r[MaxPost]
          /\ Chain(S) \in Seq(S)
      BY <1>0, <1>1 DEF ChainsOf
    <3>3. Len(r[n]) <= Len(Chain(S)) /\ Chain(S)[k] = e
      BY <1>1, <3>1, <3>2, ChainsGrow
    <3> HIDE DEF k
    <3>4. e \in L
      <4>1. k \in 1..Len(Chain(S))
        BY <3>1, <3>2, <3>3
      <4> QED BY <3>3, <4>1
    <3>5. \A f \in L : f.id = n => f = e
      BY <2>3
    <3> QED BY <2>1, <2>2, <2>3, <3>4, <3>5 DEF AddsOne
  <2>4. CASE r[n] = r[n - 1] /\ \A e \in S : e.id = n /\ e.state # "human"
             => ~NextEvent(r[n - 1], e)
    <3>1. \A e \in L : e.id = n /\ e.state # "human" => ~NextEvent(r[n - 1], e)
      BY <2>4
    <3>2. q[n] = r[n - 1]
      BY <2>1, <2>2, <3>1 DEF AddsOne
    <3> QED BY <1>0, <2>4, <3>2
  <2>5. \/ r[n] = r[n - 1] /\ \A e \in S : e.id = n /\ e.state # "human" => ~NextEvent(r[n - 1], e)
        \/ \E e \in S : /\ e.id = n /\ e.state # "human" /\ NextEvent(r[n - 1], e)
                        /\ r[n] = r[n - 1] \o <<e>>
    BY <2>1, <2>2 DEF AddsOne
  <2>6. q[n] = r[n]
    <3>1. ASSUME NEW e \in S, e.id = n /\ e.state # "human" /\ NextEvent(r[n - 1], e)
                 /\ r[n] = r[n - 1] \o <<e>>
          PROVE  q[n] = r[n]
      BY <2>3, <3>1
    <3> QED BY <2>4, <2>5, <3>1
  <2> QED BY <1>0, <2>6
<1>5. 0..MaxPost \subseteq T
  <2> HIDE DEF T
  <2> QED BY <1>0, <1>3, <1>4, InductionUpTo
<1> QED BY <1>0, <1>1, <1>2, <1>5 DEF ChainsOf

\* A seal does not change an open review (SealKeepsOpenReviews).
THEOREM SealsKeepReviews == ReviewSpec => SealKeepsOpenReviews
<1> DEFINE Kept ==
      \A a \in Participants :
        /\ thread'.sealed # thread.sealed /\ copy'[a].sealed # copy[a].sealed
        /\ copy[a].sealed = thread.sealed /\ copy'[a].posted = copy[a].posted
        /\ Pending(ReviewOf(a))
        => ReviewOf(a)' = ReviewOf(a)
<1>1. ASSUME ReviewInv, [ReviewNext]_reviewVars PROVE [Kept]_reviewVars
  <2> SUFFICES ASSUME NEW a \in Participants, thread'.sealed # thread.sealed,
                      copy'[a].sealed # copy[a].sealed,
                      copy[a].sealed = thread.sealed, copy'[a].posted = copy[a].posted,
                      Pending(ReviewOf(a))
               PROVE  ReviewOf(a)' = ReviewOf(a)
    OBVIOUS
  <2>1. ThreadsInv
    BY <1>1 DEF ReviewInv
  <2>2. DOMAIN copy = Participants
    BY <2>1 DEF ThreadsInv
  <2>3. ASSUME NEW id \in Posts, SealThread(a, id) PROVE ReviewOf(a)' = ReviewOf(a)
    <3> DEFINE S == LivePosts(copy[a])
               old == {e \in S : e.id <= id} \ ProtectedPosts(S)
               new == [Joined(thread, copy[a]) EXCEPT !.sealed = @ \cup old]
    <3>1. copy' = [copy EXCEPT ![a] = new]
      BY <2>3 DEF SealThread
    <3>2. new.posted = thread.posted \cup copy[a].posted
          /\ new.sealed = thread.sealed \cup copy[a].sealed \cup old
      BY JoinedJoins
    <3> HIDE DEF new
    <3>3. copy'[a] = new
      BY <2>2, <3>1
    <3>4. LivePosts(copy'[a]) = S \ old
      BY <3>2, <3>3 DEF LivePosts
    <3>5. \A i \in 1..Len(Chain(S)) : Chain(S)[i] \in S \ old
      <4> TAKE i \in 1..Len(Chain(S))
      <4>1. Chain(S)[i] \in ProtectedPosts(S)
        BY PendingChainIsProtected DEF ReviewOf
      <4>2. Chain(S)[i] \in S
        <5>1. PICK r : ChainsOf(S, r)
          BY ChainSteps
        <5>2. Chain(S) \in Seq(S)
          BY <5>1, ReviewAssumption DEF ChainsOf
        <5> QED BY <5>2
      <4> QED BY <4>1, <4>2
    <3>6. \A e, f \in S : e.id = f.id => e = f
      BY <2>1 DEF ThreadsInv, Threads, LivePosts
    <3> HIDE DEF S, old
    <3>7. Chain(S \ old) = Chain(S)
      BY <3>5, <3>6, ChainWithoutTheRest
    <3> QED BY <3>4, <3>7 DEF ReviewOf, S
  <2>4. ASSUME NEW b \in Participants, NEW id \in Posts, SealThread(b, id), b # a PROVE FALSE
    BY <2>2, <2>4 DEF SealThread
  <2>5. ASSUME NEW b \in Participants, PublishCopy(b) PROVE FALSE
    <3>1. CASE b # a
      BY <2>2, <2>5, <3>1 DEF PublishCopy
    <3>2. CASE b = a
      <4>1. thread' = Joined(thread, copy[a])
        BY <2>5, <3>2 DEF PublishCopy
      <4>2. thread'.sealed = thread.sealed \cup copy[a].sealed
        BY <4>1, JoinedJoins
      <4> QED BY <4>2
    <3> QED BY <3>1, <3>2
  <2>6. ASSUME thread' = thread PROVE FALSE
    BY <2>6
  <2>7. CASE UNCHANGED reviewVars
    BY <2>6, <2>7 DEF reviewVars
  <2>8. CASE ReviewCommand
    BY <2>6, <2>8 DEF ReviewCommand, RequestReview, UpdateReview
  <2>9. ASSUME NEW b \in Participants, NEW id \in Posts, NEW e \in LivePosts(copy[b]),
               Relay(b, id, e)
        PROVE  FALSE
    BY <2>6, <2>9 DEF Relay
  <2>10. ASSUME NEW b \in Participants, NEW id \in Posts, SendUpdate(b, id) PROVE FALSE
    BY <2>6, <2>10 DEF SendUpdate
  <2>11. ASSUME NEW b \in Participants, DropUpdate(b) \/ FetchCopy(b) PROVE FALSE
    BY <2>6, <2>11 DEF DropUpdate, FetchCopy
  <2>12. ASSUME NEW b \in Participants, NEW id \in Posts, SealThread(b, id)
                PROVE ReviewOf(a)' = ReviewOf(a)
    BY <2>3, <2>4, <2>12
  <2> QED BY <1>1, <2>5, <2>7, <2>8, <2>9, <2>10, <2>11, <2>12 DEF ReviewNext
<1> QED BY <1>1, ReviewInvariant, PTL DEF ReviewSpec, SealKeepsOpenReviews

-----------------------------------------------------------------------------
Events == UNION {known[a].posted : a \in Claimants}
Holding == [holder: Claimants \cup {NoHolder}, until: Nat]

\* The hold after the events S has at time t.
AfterTime(S, before, t) ==
  LET events == {e \in S : e.at = t}
  IN  IF events = {} THEN before ELSE After(before, CHOOSE e \in events : TRUE)

\* h[t] is the hold after the events of S up to t.
HoldsOf(S, h) ==
  /\ h \in [0..Horizon -> Holding] /\ Hold(S) = h[Horizon] /\ h[0] = Free
  /\ \A t \in 1..Horizon : h[t] = AfterTime(S, h[t - 1], t)

\* What Hold computes, step by step.
LEMMA HoldSteps ==
  ASSUME NEW S, S \subseteq Claim
  PROVE  \E h : HoldsOf(S, h)
<1> DEFINE Step == [p \in (1..Horizon) \X Holding |-> AfterTime(S, p[2], p[1])]
           Is(f) == f = [t \in 0..Horizon |->
                           IF t = 0 THEN Free
                           ELSE LET before == f[t - 1]
                                    events == {e \in S : e.at = t}
                                IN  IF events = {} THEN before
                                    ELSE After(before, CHOOSE e \in events : TRUE)]
<1>0. Horizon \in Nat /\ Ttl \in Nat
  BY ClaimsAssumption
<1>1. Free \in Holding
  BY DEF Free, Holding
<1>2. ASSUME NEW t \in 1..Horizon, NEW b \in Holding PROVE AfterTime(S, b, t) \in Holding
  <2> DEFINE events == {e \in S : e.at = t}
  <2>1. CASE events = {}
    BY <1>2, <2>1 DEF AfterTime
  <2>2. CASE events # {}
    <3> DEFINE e == CHOOSE e \in events : TRUE
    <3>1. e \in S
      BY <2>2
    <3>2. AfterTime(S, b, t) = After(b, e)
      BY <2>2 DEF AfterTime
    <3>3. e.holder \in Claimants /\ e.at \in Nat
      BY <3>1 DEF Claim, Times
    <3> HIDE DEF e
    <3>4. After(b, e) \in {b, Free, [holder |-> e.holder, until |-> e.at + Ttl]}
      BY DEF After
    <3>5. [holder |-> e.holder, until |-> e.at + Ttl] \in Holding
      BY <1>0, <3>3 DEF Holding
    <3> QED BY <1>1, <3>2, <3>4, <3>5
  <2> QED BY <2>1, <2>2
<1>3. Step \in [(1..Horizon) \X Holding -> Holding]
  BY <1>2
<1>4. PICK f \in [0..Horizon -> Holding] :
        f[0] = Free /\ \A t \in 1..Horizon : f[t] = Step[<<t, f[t - 1]>>]
  <2> HIDE DEF Step
  <2>1. Recurs(Horizon, Holding, Free, Step)
    BY <1>0, <1>1, <1>3, Recursion, Zenon
  <2> QED BY <2>1 DEF Recurs
<1>5. \A t \in 1..Horizon : f[t - 1] \in Holding /\ f[t] = AfterTime(S, f[t - 1], t)
  <2> TAKE t \in 1..Horizon
  <2>1. t - 1 \in 0..Horizon
    BY <1>0
  <2> QED BY <1>4, <2>1
<1>6. Is(f)
  <2>1. \A t \in 0..Horizon : f[t] = IF t = 0 THEN Free ELSE AfterTime(S, f[t - 1], t)
    <3> TAKE t \in 0..Horizon
    <3>1. t = 0 \/ t \in 1..Horizon
      BY <1>0
    <3> QED BY <1>4, <1>5, <3>1
  <2>2. f = [t \in 0..Horizon |-> f[t]]
    OBVIOUS
  <2> QED BY <2>1, <2>2, Zenon DEF AfterTime
<1> HIDE DEF Is
<1> DEFINE r == CHOOSE g : Is(g)
<1>7. Is(r) /\ Hold(S) = r[Horizon]
  <2>1. Is(r)
    BY <1>6
  <2>2. Hold(S) = r[Horizon]
    BY Zenon DEF Hold, Is
  <2> QED BY <2>1, <2>2
<1>8. \A t \in 0..Horizon : r[t] = IF t = 0 THEN Free ELSE AfterTime(S, r[t - 1], t)
  <2> HIDE DEF r
  <2> QED BY <1>7 DEF Is, AfterTime
<1>9. r = [t \in 0..Horizon |-> r[t]]
  <2> HIDE DEF r
  <2> QED BY <1>7 DEF Is
<1> HIDE DEF r
<1>10. r[0] = Free /\ \A t \in 1..Horizon : r[t] = AfterTime(S, r[t - 1], t)
  BY <1>0, <1>8
<1>11. \A t \in 0..Horizon : r[t] \in Holding
  <2> DEFINE T == {t \in 0..Horizon : r[t] \in Holding}
  <2>1. 0 \in T
    BY <1>0, <1>1, <1>10
  <2>2. ASSUME NEW t \in 1..Horizon, t - 1 \in T PROVE t \in T
    BY <1>2, <1>10, <2>2
  <2>3. 0..Horizon \subseteq T
    <3> HIDE DEF T
    <3> QED BY <1>0, <2>1, <2>2, InductionUpTo
  <2> QED BY <2>3
<1>12. r \in [0..Horizon -> Holding]
  BY <1>9, <1>11
<1>13. HoldsOf(S, r)
  BY <1>7, <1>10, <1>12 DEF HoldsOf
<1> QED BY <1>13

\* At most one event at a time.
OneAtATime(S) == \A e, f \in S : e.at = f.at => e = f

\* How one event changes the hold, if it is the only one of its time.
LEMMA AtTime ==
  ASSUME NEW S, NEW before, NEW t
  PROVE  /\ (\A e \in S : e.at # t) => AfterTime(S, before, t) = before
         /\ \A e \in S : OneAtATime(S) /\ e.at = t => AfterTime(S, before, t) = After(before, e)
<1> DEFINE events == {e \in S : e.at = t}
<1>1. (\A e \in S : e.at # t) => AfterTime(S, before, t) = before
  BY DEF AfterTime
<1>2. ASSUME NEW e \in S, OneAtATime(S), e.at = t PROVE AfterTime(S, before, t) = After(before, e)
  <2>1. events = {e}
    BY <1>2 DEF OneAtATime
  <2>2. AfterTime(S, before, t) = IF events = {} THEN before
        ELSE After(before, CHOOSE f \in events : TRUE)
    BY DEF AfterTime
  <2>3. (CHOOSE f \in events : TRUE) = e /\ events # {}
    BY <2>1
  <2> HIDE DEF events
  <2> QED BY <2>2, <2>3
<1> QED BY <1>1, <1>2

\* Who holds the resource in the end got it with a claim, and nothing changed it since.
LEMMA HoldBeganWithClaim ==
  ASSUME NEW S, S \subseteq Claim, OneAtATime(S), NEW h, HoldsOf(S, h),
         h[Horizon].holder # NoHolder
  PROVE  \E c \in 1..Horizon :
           /\ \E e \in S : e.at = c
           /\ h[Horizon].until = c + Ttl
           /\ \A t \in c..Horizon : h[t] = h[Horizon]
<1>0. Horizon \in Nat /\ Ttl \in Nat
  BY ClaimsAssumption
<1> DEFINE Began(n, c) == /\ \E e \in S : e.at = c
                          /\ h[n].until = c + Ttl
                          /\ \A t \in c..n : h[t] = h[n]
           T == {n \in 0..Horizon : h[n].holder # NoHolder => \E c \in 1..n : Began(n, c)}
<1>1. 0 \in T
  BY <1>0 DEF HoldsOf, Free
<1>2. ASSUME NEW n \in 1..Horizon, n - 1 \in T PROVE n \in T
  <2> SUFFICES ASSUME h[n].holder # NoHolder PROVE \E c \in 1..n : Began(n, c)
    BY <1>0
  <2>1. h[n] = AfterTime(S, h[n - 1], n)
    BY DEF HoldsOf
  <2>2. ASSUME h[n] = h[n - 1] PROVE \E c \in 1..n : Began(n, c)
    <3>1. PICK c \in 1..(n - 1) : Began(n - 1, c)
      BY <1>2, <2>2
    <3>2. \A t \in c..n : t \in c..(n - 1) \/ t = n
      OBVIOUS
    <3>3. Began(n, c)
      BY <2>2, <3>1, <3>2
    <3>4. c \in 1..n
      OBVIOUS
    <3> QED BY <3>3, <3>4
  <2>3. ASSUME NEW e \in S, e.at = n PROVE \E c \in 1..n : Began(n, c)
    <3>1. h[n] = After(h[n - 1], e)
      BY <2>1, <2>3, AtTime
    <3>2. CASE h[n] = h[n - 1]
      BY <2>2, <3>2
    <3>3. CASE h[n] = [holder |-> e.holder, until |-> e.at + Ttl]
      <4>1. Began(n, n) /\ n \in 1..n
        BY <2>3, <3>3
      <4> QED BY <4>1
    <3> QED BY <3>1, <3>2, <3>3 DEF After, Free
  <2> QED BY <2>1, <2>2, <2>3, AtTime
<1>3. 0..Horizon \subseteq T
  <2> HIDE DEF T
  <2> QED BY <1>0, <1>1, <1>2, InductionUpTo
<1>4. \E c \in 1..Horizon : Began(Horizon, c)
  <2>1. Horizon \in T
    <3> HIDE DEF T
    <3> QED BY <1>0, <1>3
  <2> HIDE DEF Began
  <2> QED BY <2>1
<1> QED BY <1>4

\* What has the same events up to c has the same hold at c.
LEMMA SameEventsSameHold ==
  ASSUME NEW S1, NEW S2, NEW h1, NEW h2, HoldsOf(S1, h1), HoldsOf(S2, h2), NEW c \in 0..Horizon,
         \A e \in S1 \cup S2 : e.at <= c => e \in S1 /\ e \in S2,
         S1 \subseteq Claim, S2 \subseteq Claim
  PROVE  h1[c] = h2[c]
<1>0. Horizon \in Nat
  BY ClaimsAssumption
<1> DEFINE T == {n \in 0..c : h1[n] = h2[n]}
<1>1. 0 \in T
  BY DEF HoldsOf
<1>2. ASSUME NEW n \in 1..c, n - 1 \in T PROVE n \in T
  <2>1. n \in 1..Horizon /\ n \in 0..c
    BY <1>0
  <2>2. {e \in S1 : e.at = n} = {e \in S2 : e.at = n}
    OBVIOUS
  <2>3. AfterTime(S1, h1[n - 1], n) = AfterTime(S2, h1[n - 1], n)
    <3> DEFINE events1 == {e \in S1 : e.at = n}
               events2 == {e \in S2 : e.at = n}
    <3>1. /\ AfterTime(S1, h1[n - 1], n) = IF events1 = {} THEN h1[n - 1]
             ELSE After(h1[n - 1], CHOOSE e \in events1 : TRUE)
          /\ AfterTime(S2, h1[n - 1], n) = IF events2 = {} THEN h1[n - 1]
             ELSE After(h1[n - 1], CHOOSE e \in events2 : TRUE)
      BY DEF AfterTime
    <3>2. events1 = events2
      BY <2>2
    <3> HIDE DEF events1, events2
    <3> QED BY <3>1, <3>2
  <2> QED BY <1>2, <2>1, <2>3 DEF HoldsOf
<1>3. 0..c \subseteq T
  <2> HIDE DEF T
  <2> QED BY <1>1, <1>2, InductionUpTo
<1> QED BY <1>3

\* Who holds the resource at c until later than anything is written, and does not release it,
\* keeps it.
LEMMA HolderKeeps ==
  ASSUME NEW S, S \subseteq Claim, OneAtATime(S), NEW h, HoldsOf(S, h), NEW c \in 0..Horizon,
         NEW a \in Claimants, NEW until \in Nat, h[c] = [holder |-> a, until |-> until],
         \A e \in S : e.at > c => e.at < until /\ (e.holder = a => e.action = "held"),
         c + Ttl >= until
  PROVE  h[Horizon].holder = a /\ h[Horizon].until >= until
<1>0. Horizon \in Nat /\ Ttl \in Nat /\ NoHolder \notin Claimants
  BY ClaimsAssumption
<1> DEFINE Kept(n) == h[n].holder = a /\ h[n].until >= until
           T == {n \in 0..Horizon : n >= c => Kept(n)}
<1>1. 0 \in T
  BY <1>0
<1>2. ASSUME NEW n \in 1..Horizon, n - 1 \in T PROVE n \in T
  <2> SUFFICES ASSUME n > c PROVE Kept(n)
    BY <1>0
  <2>1. Kept(n - 1) /\ h[n - 1].until \in Nat
    BY <1>2, <1>0 DEF HoldsOf, Holding
  <2>2. h[n] = AfterTime(S, h[n - 1], n)
    BY DEF HoldsOf
  <2>3. ASSUME NEW e \in S, e.at = n PROVE Kept(n)
    <3>1. h[n] = After(h[n - 1], e)
      BY <2>2, <2>3, AtTime
    <3>2. e.at < until /\ (e.holder = a => e.action = "held")
      BY <2>3
    <3>3. CASE e.action = "released"
      BY <2>1, <3>1, <3>2, <3>3 DEF After
    <3>4. CASE e.action # "released" /\ e.holder = a
      <4>1. h[n] = [holder |-> a, until |-> n + Ttl]
        BY <2>1, <2>3, <3>1, <3>4 DEF After
      <4> QED BY <1>0, <4>1
    <3>5. CASE e.action # "released" /\ e.holder # a
      <4>1. h[n] = h[n - 1]
        BY <1>0, <2>1, <2>3, <3>1, <3>2, <3>5 DEF After
      <4> QED BY <2>1, <4>1
    <3> QED BY <3>3, <3>4, <3>5
  <2> QED BY <2>1, <2>2, <2>3, AtTime
<1>3. 0..Horizon \subseteq T
  <2> HIDE DEF T
  <2> QED BY <1>0, <1>1, <1>2, InductionUpTo
<1> QED BY <1>0, <1>3

-----------------------------------------------------------------------------
\* What the clones and the room have: what somebody wrote, one event at a time and none in the
\* future; and all of it, without a seal.
KnowledgeInv ==
  /\ now \in 0..Horizon /\ leaseScope \in LeaseScopes /\ DOMAIN known = Claimants
  /\ \A h \in {log} \cup {known[a] : a \in Claimants} :
       /\ DOMAIN h = {"posted", "gone"} /\ h.gone \subseteq h.posted /\ h.posted \subseteq Events
       /\ ~leaseScope.seals => h.gone = {}
  /\ Events \subseteq Claim /\ OneAtATime(Events) /\ \A e \in Events : e.at <= now

\* The calls of claimResource and what they told.
CallsInv ==
  /\ claiming \in [Claimants -> {"no", "writing", "pushing", "looking"}]
  /\ lease \in [Claimants -> Nat]
  /\ firm \in [Claimants -> BOOLEAN]

\* The lease of a rests on a claim: a has every event there is up to that claim, the claim won
\* among these, and a has not released it since.
Backed(a) ==
  \E c \in Times :
    /\ lease[a] = c + Ttl
    /\ \E e \in known[a].posted : e.at = c
    /\ \A e \in Events : e.at <= c => e \in known[a].posted
    /\ \A e \in Events : e.at > c /\ e.holder = a => e.action = "held"
    /\ \E h : HoldsOf(known[a].posted, h) /\ h[c] = [holder |-> a, until |-> lease[a]]
FirmIsBacked == \A a \in Claimants : firm[a] /\ Holds(a) /\ ~leaseScope.seals => Backed(a)

\* The inductive invariant of the claims on a resource.
ClaimsInv == KnowledgeInv /\ CallsInv /\ FirmIsBacked

\* A lease is backed as long as clones only grow and what is new is a renewal or somebody
\* else's, and later than the claim.
LEMMA BackedStays ==
  ASSUME KnowledgeInv, NEW a \in Claimants, Backed(a), lease'[a] = lease[a],
         known[a].posted \subseteq known'[a].posted, known'[a].posted \subseteq Events',
         Events' \subseteq Claim,
         \A e \in Events' \ Events :
           (\A f \in Events : f.at < e.at) /\ (e.holder = a => e.action = "held")
  PROVE  Backed(a)'
<1>1. PICK c \in Times :
        /\ lease[a] = c + Ttl
        /\ \E e \in known[a].posted : e.at = c
        /\ \A e \in Events : e.at <= c => e \in known[a].posted
        /\ \A e \in Events : e.at > c /\ e.holder = a => e.action = "held"
        /\ \E h : HoldsOf(known[a].posted, h) /\ h[c] = [holder |-> a, until |-> lease[a]]
  BY DEF Backed
<1>2. PICK h : HoldsOf(known[a].posted, h) /\ h[c] = [holder |-> a, until |-> lease[a]]
  BY <1>1
<1>3. known[a].posted \subseteq Events /\ Events \subseteq Claim /\ c \in Nat /\ c \in 0..Horizon
  BY ClaimsAssumption DEF KnowledgeInv, Times
<1>4. \A e \in Events' \ Events : e.at > c
  <2> TAKE e \in Events' \ Events
  <2>1. PICK f \in known[a].posted : f.at = c
    BY <1>1
  <2>2. f \in Events /\ e.at \in Nat
    BY <1>3 DEF Claim, Times
  <2> QED BY <1>3, <2>1, <2>2
<1>5. PICK g : HoldsOf(known'[a].posted, g)
  BY HoldSteps
<1>6. \A e \in known[a].posted \cup known'[a].posted :
        e.at <= c => e \in known[a].posted /\ e \in known'[a].posted
  <2> TAKE e \in known[a].posted \cup known'[a].posted
  <2>1. e.at \in Nat
    BY <1>3 DEF Claim, Times
  <2> QED BY <1>1, <1>3, <1>4, <2>1
<1>7. g[c] = h[c]
  BY <1>2, <1>3, <1>5, <1>6, SameEventsSameHold
<1>8. \E e \in known'[a].posted : e.at = c
  BY <1>1
<1>9. \A e \in Events' : e.at <= c => e \in known'[a].posted
  <2> TAKE e \in Events'
  <2>1. e.at \in Nat
    BY DEF Claim, Times
  <2> QED BY <1>1, <1>3, <1>4, <2>1
<1>10. \A e \in Events' : e.at > c /\ e.holder = a => e.action = "held"
  BY <1>1
<1> QED BY <1>1, <1>2, <1>5, <1>7, <1>8, <1>9, <1>10 DEF Backed

\* A step that spreads events and writes none.
Spread ==
  /\ DOMAIN known' = Claimants
  /\ \A h \in {log'} \cup {known'[a] : a \in Claimants} :
       /\ DOMAIN h = {"posted", "gone"} /\ h.gone \subseteq h.posted
       /\ h.posted \subseteq Events
       /\ ~leaseScope.seals => h.gone = {}
  /\ \A a \in Claimants : known[a].posted \subseteq known'[a].posted

\* A merge has what one of the two sides has.
LEMMA UnitedJoins ==
  ASSUME NEW h, NEW g
  PROVE  /\ DOMAIN United(h, g) = {"posted", "gone"}
         /\ United(h, g).posted = h.posted \cup g.posted
         /\ United(h, g).gone = h.gone \cup g.gone
BY DEF United

\* A sync spreads events.
LEMMA SyncSpreads ==
  ASSUME KnowledgeInv, NEW a \in Claimants, Synced(a) \/ UNCHANGED <<log, known>>
  PROVE  Spread
<1>1. CASE Synced(a)
  <2>1. log' = United(log, known[a]) /\ known' = [known EXCEPT ![a] = log']
    BY <1>1 DEF Synced
  <2>2. DOMAIN known' = Claimants /\ known'[a] = log'
        /\ \A b \in Claimants \ {a} : known'[b] = known[b]
    BY <2>1 DEF KnowledgeInv
  <2>3. \A b \in Claimants : known[b].posted \subseteq known'[b].posted
    BY <2>1, <2>2, UnitedJoins
  <2>4. /\ DOMAIN log' = {"posted", "gone"} /\ log'.posted = log.posted \cup known[a].posted
        /\ log'.gone = log.gone \cup known[a].gone
    BY <2>1, UnitedJoins
  <2> QED BY <2>2, <2>3, <2>4 DEF Spread, KnowledgeInv
<1>2. CASE UNCHANGED <<log, known>>
  BY <1>2 DEF Spread, KnowledgeInv
<1> QED BY <1>1, <1>2

\* What such a step keeps.
LEMMA SpreadKeeps ==
  ASSUME KnowledgeInv, Spread, now' \in now..Horizon, UNCHANGED leaseScope
  PROVE  /\ KnowledgeInv' /\ Events' = Events
         /\ \A a \in Claimants : Backed(a) /\ lease'[a] = lease[a] => Backed(a)'
<1>1. Events' = Events
  BY DEF Spread, Events
<1>2. KnowledgeInv'
  <2>1. \A e \in Events : e.at \in Nat
    BY DEF KnowledgeInv, Claim, Times
  <2>2. now \in Nat /\ now' \in Nat /\ now <= now' /\ now' \in 0..Horizon
    BY ClaimsAssumption DEF KnowledgeInv
  <2>3. \A e \in Events' : e.at <= now'
    BY <1>1, <2>1, <2>2 DEF KnowledgeInv
  <2>4. Events' \subseteq Claim /\ OneAtATime(Events)'
    BY <1>1 DEF KnowledgeInv, OneAtATime
  <2> QED BY <1>1, <2>2, <2>3, <2>4 DEF KnowledgeInv, Spread
<1>3. ASSUME NEW a \in Claimants, Backed(a), lease'[a] = lease[a] PROVE Backed(a)'
  <2>1. known[a].posted \subseteq known'[a].posted /\ known'[a].posted \subseteq Events'
        /\ Events' \subseteq Claim
    BY <1>1, <1>2 DEF Spread, KnowledgeInv
  <2> QED BY <1>1, <1>3, <2>1, BackedStays
<1> QED BY <1>1, <1>2, <1>3

\* What a written event keeps.
LEMMA WritesKeep ==
  ASSUME KnowledgeInv, NEW a \in Claimants, NEW action \in {"held", "released"}, Writes(a, action),
         UNCHANGED <<now, log, leaseScope>>
  PROVE  /\ KnowledgeInv'
         /\ \A b \in Claimants :
              Backed(b) /\ lease'[b] = lease[b] /\ (action = "held" \/ b # a) => Backed(b)'
<1> DEFINE e == [at |-> now, holder |-> a, action |-> action]
<1>1. e \in Claim /\ e.at = now /\ e.holder = a /\ e.action = action
  BY DEF Writes, Claim
<1>2. known' = [known EXCEPT ![a].posted = @ \cup {e}] /\ \A f \in Events : f.at # now
  BY DEF Writes, Events
<1> HIDE DEF e
<1>3. /\ DOMAIN known' = Claimants
      /\ \A b \in Claimants \ {a} : known'[b] = known[b]
      /\ DOMAIN known'[a] = {"posted", "gone"}
      /\ known'[a].posted = known[a].posted \cup {e}
      /\ known'[a].gone = known[a].gone
  BY <1>2 DEF KnowledgeInv
<1>4. Events' = Events \cup {e}
  BY <1>3 DEF Events
<1>5. \A f \in Events : f.at < now
  BY <1>2, ClaimsAssumption DEF KnowledgeInv, Claim, Times
<1>6. KnowledgeInv'
  <2>1. Events' \subseteq Claim
    BY <1>1, <1>4 DEF KnowledgeInv
  <2>2. OneAtATime(Events')
    BY <1>1, <1>2, <1>4 DEF KnowledgeInv, OneAtATime
  <2>3. \A f \in Events' : f.at <= now'
    BY <1>1, <1>4, ClaimsAssumption DEF KnowledgeInv
  <2>4. \A h \in {log'} \cup {known'[b] : b \in Claimants} :
          /\ DOMAIN h = {"posted", "gone"} /\ h.gone \subseteq h.posted
          /\ h.posted \subseteq Events'
          /\ ~leaseScope'.seals => h.gone = {}
    BY <1>3, <1>4 DEF KnowledgeInv
  <2> QED BY <1>3, <2>1, <2>2, <2>3, <2>4 DEF KnowledgeInv, OneAtATime
<1>7. ASSUME NEW b \in Claimants, Backed(b), lease'[b] = lease[b], action = "held" \/ b # a
      PROVE  Backed(b)'
  <2>1. known[b].posted \subseteq known'[b].posted /\ known'[b].posted \subseteq Events'
        /\ Events' \subseteq Claim
    BY <1>3, <1>6 DEF KnowledgeInv
  <2>2. \A f \in Events' \ Events :
          (\A g \in Events : g.at < f.at) /\ (f.holder = b => f.action = "held")
    BY <1>1, <1>4, <1>5, <1>7
  <2> QED BY <1>7, <2>1, <2>2, BackedStays
<1> QED BY <1>6, <1>7

\* A hold is a hold.
LEMMA HoldIsHolding ==
  ASSUME NEW S, S \subseteq Claim
  PROVE  Hold(S) \in Holding
<1>1. PICK h : HoldsOf(S, h)
  BY HoldSteps
<1> QED BY <1>1, ClaimsAssumption DEF HoldsOf

\* A lease that is granted with every event in hand is backed.
LEMMA GrantIsBacked ==
  ASSUME KnowledgeInv', NEW a \in Claimants, known'[a].gone = {},
         \A b \in Claimants : known'[b].posted \subseteq known'[a].posted,
         CurrentHolder(known[a])' = a, lease'[a] = Hold(known'[a].posted \ known'[a].gone).until
  PROVE  Backed(a)'
<1> DEFINE S == known'[a].posted
<1>0. a # NoHolder /\ Horizon \in Nat /\ Ttl \in Nat
  BY ClaimsAssumption
<1>1. S = Events' /\ known'[a].posted \ known'[a].gone = S
  BY DEF Events
<1>2. S \subseteq Claim /\ OneAtATime(S)
  BY <1>1 DEF KnowledgeInv
<1>3. Hold(S).holder = a /\ lease'[a] = Hold(S).until
  BY <1>0, <1>1 DEF CurrentHolder
<1>4. PICK h : HoldsOf(S, h)
  BY <1>2, HoldSteps
<1>5. Hold(S) = h[Horizon] /\ h[Horizon] \in Holding
  BY <1>0, <1>4 DEF HoldsOf
<1>6. PICK c \in 1..Horizon : /\ \E e \in S : e.at = c
                              /\ h[Horizon].until = c + Ttl
                              /\ \A t \in c..Horizon : h[t] = h[Horizon]
  BY <1>0, <1>2, <1>3, <1>4, <1>5, HoldBeganWithClaim
<1>7. h[c] = [holder |-> a, until |-> lease'[a]]
  <2>1. h[c] = h[Horizon]
    BY <1>0, <1>6
  <2> QED BY <1>3, <1>5, <2>1 DEF Holding
<1>8. ASSUME NEW e \in S, e.at > c, e.holder = a PROVE e.action = "held"
  <2>0. e.at \in 1..Horizon /\ e.action \in {"held", "released"}
    BY <1>2 DEF Claim, Times
  <2>1. h[e.at] = AfterTime(S, h[e.at - 1], e.at)
    BY <1>4, <2>0 DEF HoldsOf
  <2>2. h[e.at] = After(h[e.at - 1], e)
    BY <1>2, <2>1, AtTime
  <2>3. h[e.at] = h[Horizon] /\ h[e.at - 1] = h[Horizon]
    <3>1. e.at \in c..Horizon /\ e.at - 1 \in c..Horizon
      BY <1>0, <1>8, <2>0
    <3> QED BY <1>6, <3>1
  <2>4. CASE e.action = "released"
    <3>1. h[e.at] = Free
      BY <1>3, <1>5, <1>8, <2>2, <2>3, <2>4 DEF After
    <3> QED BY <1>0, <1>3, <1>5, <2>3, <3>1 DEF Free
  <2> QED BY <2>0, <2>4
<1> HIDE DEF S
<1>9. /\ lease'[a] = c + Ttl /\ c \in Times
      /\ \E e \in S : e.at = c
      /\ \A e \in Events' : e.at <= c => e \in S
      /\ \A e \in Events' : e.at > c /\ e.holder = a => e.action = "held"
      /\ \E g : HoldsOf(S, g) /\ g[c] = [holder |-> a, until |-> lease'[a]]
  BY <1>1, <1>3, <1>4, <1>5, <1>6, <1>7, <1>8 DEF Times
<1> QED BY <1>9 DEF Backed, S

\* Every reachable state satisfies the invariant.
THEOREM ClaimsInvariant == ClaimsSpec => []ClaimsInv
<1>0. Horizon \in Nat /\ Ttl \in Nat /\ NoHolder \notin Claimants
      /\ LeaseScopes \subseteq LeaseScope
  BY ClaimsAssumption
<1>1. ClaimsInit => ClaimsInv
  <2> SUFFICES ASSUME ClaimsInit PROVE ClaimsInv
    OBVIOUS
  <2>1. Events = {}
    BY DEF ClaimsInit, Events, NoClaims
  <2>2. KnowledgeInv
    BY <1>0, <2>1 DEF ClaimsInit, KnowledgeInv, NoClaims, OneAtATime
  <2>3. CallsInv /\ FirmIsBacked
    BY DEF ClaimsInit, CallsInv, FirmIsBacked
  <2> QED BY <2>2, <2>3 DEF ClaimsInv
<1>2. ASSUME ClaimsInv, [ClaimsNext]_leaseVars PROVE ClaimsInv'
  <2>1. KnowledgeInv /\ CallsInv /\ FirmIsBacked
    BY <1>2 DEF ClaimsInv
  <2>2. now \in Nat /\ now <= Horizon
    BY <1>0, <2>1 DEF KnowledgeInv
  <2>3. ASSUME Spread, now' \in now..Horizon, UNCHANGED leaseScope, CallsInv',
               \A a \in Claimants : firm'[a] /\ lease'[a] > now' =>
                 \/ firm[a] /\ lease[a] > now /\ lease'[a] = lease[a]
                 \/ ~leaseScope.seals => Backed(a)'
        PROVE  ClaimsInv'
    <3>1. KnowledgeInv' /\ \A a \in Claimants : Backed(a) /\ lease'[a] = lease[a] => Backed(a)'
      BY <2>1, <2>3, SpreadKeeps
    <3>2. FirmIsBacked'
      BY <2>1, <2>3, <3>1 DEF FirmIsBacked, Holds
    <3> QED BY <2>3, <3>1, <3>2 DEF ClaimsInv
  <2>4. now \in now..Horizon
    BY <2>2
  <2>5. CASE TicToc
    <3>1. Spread
      BY <2>1, <2>5 DEF TicToc, Spread, KnowledgeInv
    <3>2. now' \in now..Horizon
      BY <1>0, <2>1, <2>2, <2>5 DEF TicToc, KnowledgeInv, LeaseScope
    <3>3. CallsInv'
      BY <2>1, <2>5 DEF TicToc, CallsInv
    <3>4. \A a \in Claimants : firm'[a] /\ lease'[a] > now' =>
            firm[a] /\ lease[a] > now /\ lease'[a] = lease[a]
      BY <2>1, <2>2, <2>5 DEF TicToc, CallsInv
    <3> QED BY <2>3, <2>5, <3>1, <3>2, <3>3, <3>4 DEF TicToc
  <2>6. ASSUME NEW a \in Claimants, Look(a) PROVE ClaimsInv'
    <3>1. Spread
      BY <2>1, <2>6, SyncSpreads DEF Look, TrySync
    <3>2. CallsInv'
      <4>1. CASE claiming' = [claiming EXCEPT ![a] = "writing"] /\ UNCHANGED <<lease, firm>>
        BY <2>1, <4>1 DEF CallsInv
      <4>2. CASE /\ lease' = [lease EXCEPT ![a] = 0] /\ firm' = [firm EXCEPT ![a] = FALSE]
                 /\ UNCHANGED claiming
        BY <2>1, <4>2 DEF CallsInv
      <4> QED BY <2>6, <4>1, <4>2 DEF Look
    <3>3. \A b \in Claimants : firm'[b] => firm[b] /\ lease'[b] = lease[b]
      BY <2>1, <2>6 DEF Look, CallsInv
    <3> QED BY <2>3, <2>4, <2>6, <3>1, <3>2, <3>3 DEF Look
  <2>7. ASSUME NEW a \in Claimants, WriteClaim(a) PROVE ClaimsInv'
    <3>1. KnowledgeInv' /\ \A b \in Claimants : Backed(b) /\ lease'[b] = lease[b] => Backed(b)'
      BY <2>1, <2>7, WritesKeep DEF WriteClaim
    <3>2. CallsInv' /\ FirmIsBacked'
      BY <2>1, <2>7, <3>1 DEF WriteClaim, CallsInv, FirmIsBacked, Holds
    <3> QED BY <3>1, <3>2 DEF ClaimsInv
  <2>8. ASSUME NEW a \in Claimants, PushClaim(a) PROVE ClaimsInv'
    <3>1. Spread
      BY <2>1, <2>8, SyncSpreads DEF PushClaim, TrySync
    <3>2. CallsInv'
      BY <2>1, <2>8 DEF PushClaim, CallsInv
    <3> QED BY <2>3, <2>4, <2>8, <3>1, <3>2 DEF PushClaim
  <2>9. ASSUME NEW a \in Claimants, LookAgain(a) PROVE ClaimsInv'
    <3>1. Spread
      BY <2>1, <2>9, SyncSpreads DEF LookAgain, TrySync
    <3>2. UNCHANGED <<now, leaseScope>>
      BY <2>9 DEF LookAgain
    <3>3. KnowledgeInv'
      BY <2>1, <2>4, <3>1, <3>2, SpreadKeeps
    <3> DEFINE granted == CurrentHolder(known'[a]) = a
               until == Hold(known'[a].posted \ known'[a].gone).until
    <3>4. /\ claiming' = [claiming EXCEPT ![a] = "no"]
          /\ lease' = [lease EXCEPT ![a] = IF CurrentHolder(known'[a]) = a THEN until ELSE 0]
          /\ firm' = [firm EXCEPT ![a] =
               CurrentHolder(known'[a]) = a
                 /\ \A b \in Claimants : known[b].posted \subseteq known'[a].posted]
      BY <2>9 DEF LookAgain
    <3>5. until \in Nat
      <4>1. known'[a].posted \subseteq Claim
        BY <3>3 DEF KnowledgeInv
      <4> QED BY <4>1, HoldIsHolding DEF Holding
    <3> HIDE DEF until
    <3>6. CallsInv'
      BY <2>1, <3>4, <3>5 DEF CallsInv
    <3>7. \A b \in Claimants \ {a} : firm'[b] = firm[b] /\ lease'[b] = lease[b]
      BY <2>1, <3>4 DEF CallsInv
    <3>8. firm'[a] /\ ~leaseScope.seals => Backed(a)'
      <4> SUFFICES ASSUME firm'[a], ~leaseScope.seals PROVE Backed(a)'
        OBVIOUS
      <4>1. CurrentHolder(known'[a]) = a
            /\ \A b \in Claimants : known[b].posted \subseteq known'[a].posted
        BY <2>1, <3>4 DEF CallsInv
      <4>2. CurrentHolder(known[a])'  = a
        BY <3>2, <4>1 DEF CurrentHolder
      <4>3. known'[a].gone = {}
        BY <3>1 DEF Spread
      <4>4. Events' = Events
        BY <2>1, <2>4, <3>1, <3>2, SpreadKeeps
      <4>5. \A b \in Claimants : known'[b].posted \subseteq known'[a].posted
        BY <4>1, <3>1 DEF Spread, Events
      <4>6. lease'[a] = Hold(known'[a].posted \ known'[a].gone).until
        BY <2>1, <3>4, <4>1 DEF CallsInv, until
      <4> QED BY <3>3, <4>2, <4>3, <4>5, <4>6, GrantIsBacked
    <3>9. \A b \in Claimants : firm'[b] /\ lease'[b] > now' =>
            \/ firm[b] /\ lease[b] > now /\ lease'[b] = lease[b]
            \/ ~leaseScope.seals => Backed(b)'
      BY <3>2, <3>7, <3>8
    <3> QED BY <2>3, <2>4, <3>1, <3>2, <3>6, <3>9
  <2>10. ASSUME NEW a \in Claimants, ReleaseClaim(a) PROVE ClaimsInv'
    <3>1. UNCHANGED <<now, log, claiming, leaseScope>> /\ lease' = [lease EXCEPT ![a] = 0]
          /\ firm' = [firm EXCEPT ![a] = FALSE]
      BY <2>10 DEF ReleaseClaim
    <3>2. CallsInv' /\ ~firm'[a] /\ \A b \in Claimants \ {a} : lease'[b] = lease[b]
          /\ firm'[b] = firm[b]
      BY <2>1, <3>1 DEF CallsInv
    <3>3. CASE Writes(a, "released")
      <4>1. KnowledgeInv' /\ \A b \in Claimants \ {a} : Backed(b) /\ lease'[b] = lease[b]
            => Backed(b)'
        BY <2>1, <3>1, <3>3, WritesKeep
      <4>2. FirmIsBacked'
        BY <2>1, <3>1, <3>2, <4>1 DEF FirmIsBacked, Holds
      <4> QED BY <3>2, <4>1, <4>2 DEF ClaimsInv
    <3>4. CASE UNCHANGED known
      <4>1. Spread
        BY <2>1, <3>1, <3>4, SyncSpreads
      <4> QED BY <2>3, <2>4, <3>1, <3>2, <4>1
    <3> QED BY <2>10, <3>3, <3>4 DEF ReleaseClaim
  <2>11. ASSUME NEW a \in Claimants, ClaimDies(a) PROVE ClaimsInv'
    <3>1. Spread
      BY <2>1, <2>11, SyncSpreads DEF ClaimDies
    <3>2. CallsInv'
      BY <2>1, <2>11 DEF ClaimDies, CallsInv
    <3> QED BY <2>3, <2>4, <2>11, <3>1, <3>2 DEF ClaimDies
  <2>12. ASSUME NEW a \in Claimants, SyncClaims(a) PROVE ClaimsInv'
    <3>1. Spread
      BY <2>1, <2>12, SyncSpreads DEF SyncClaims
    <3>2. CallsInv'
      BY <2>1, <2>12 DEF SyncClaims, CallsInv
    <3> QED BY <2>3, <2>4, <2>12, <3>1, <3>2 DEF SyncClaims
  <2>13. ASSUME NEW a \in Claimants, NEW t \in Times, SealClaims(a, t) PROVE ClaimsInv'
    <3> DEFINE old == {e \in known[a].posted : e.at <= t} \ known[a].gone
               new == [United(log, known[a]) EXCEPT !.gone = @ \cup old]
    <3>1. leaseScope.seals /\ log' = new /\ known' = [known EXCEPT ![a] = new]
      BY <2>13 DEF SealClaims
    <3>2. /\ DOMAIN new = {"posted", "gone"} /\ new.posted = log.posted \cup known[a].posted
          /\ new.gone = log.gone \cup known[a].gone \cup old
      BY UnitedJoins
    <3>3. old \subseteq known[a].posted
      OBVIOUS
    <3> HIDE DEF old, new
    <3>4. /\ DOMAIN known' = Claimants /\ log' = new /\ known'[a] = new
          /\ \A b \in Claimants \ {a} : known'[b] = known[b]
      BY <2>1, <3>1 DEF KnowledgeInv
    <3>5. DOMAIN new = {"posted", "gone"} /\ new.gone \subseteq new.posted
          /\ new.posted \subseteq Events
      BY <2>1, <3>2, <3>3 DEF KnowledgeInv
    <3>6. Spread
      BY <2>1, <3>1, <3>2, <3>4, <3>5 DEF KnowledgeInv, Spread
    <3>7. CallsInv'
      BY <2>1, <2>13 DEF SealClaims, CallsInv
    <3> QED BY <2>3, <2>4, <2>13, <3>6, <3>7 DEF SealClaims
  <2>14. CASE UNCHANGED leaseVars
    BY <2>1, <2>14 DEF leaseVars, ClaimsInv, KnowledgeInv, CallsInv, FirmIsBacked, Backed, Events,
       OneAtATime, Holds
  <2> QED BY <1>2, <2>5, <2>6, <2>7, <2>8, <2>9, <2>10, <2>11, <2>12, <2>13, <2>14
      DEF ClaimsNext, ClaimCommand
<1> QED BY <1>1, <1>2, PTL DEF ClaimsSpec

\* The type invariant.
THEOREM ClaimsTyped == ClaimsSpec => []ClaimsTypeOK
<1>1. ClaimsInv => ClaimsTypeOK
  BY DEF ClaimsInv, KnowledgeInv, CallsInv, ClaimsTypeOK
<1> QED BY <1>1, ClaimsInvariant, PTL

\* A lease granted with every event in hand is not lost before it lapses or is released
\* (FirmLeaseHolds), for any number of agents, any lease and any time.
THEOREM FirmLeasesHold == ClaimsSpec => []FirmLeaseHolds
<1>0. Horizon \in Nat /\ Ttl \in Nat
  BY ClaimsAssumption
<1>1. ASSUME ClaimsInv PROVE FirmLeaseHolds
  <2>1. KnowledgeInv /\ CallsInv /\ FirmIsBacked
    BY <1>1 DEF ClaimsInv
  <2>2. ASSUME NEW a \in Claimants, firm[a], Holds(a), ~leaseScope.seals,
               NEW h \in {log} \cup {known[b] : b \in Claimants},
               {e \in known[a].posted : e.at + Ttl <= lease[a]} \subseteq h.posted
        PROVE  CurrentHolder(h) = a
    <3> DEFINE S == h.posted
    <3>1. S \subseteq Events /\ h.gone = {} /\ S \subseteq Claim /\ OneAtATime(S)
          /\ known[a].posted \subseteq Claim
      BY <2>1, <2>2 DEF KnowledgeInv, OneAtATime
    <3>2. PICK c \in Times :
            /\ lease[a] = c + Ttl
            /\ \A e \in Events : e.at <= c => e \in known[a].posted
            /\ \A e \in Events : e.at > c /\ e.holder = a => e.action = "held"
            /\ \E g : HoldsOf(known[a].posted, g) /\ g[c] = [holder |-> a, until |-> lease[a]]
      BY <2>1, <2>2 DEF FirmIsBacked, Backed
    <3>3. PICK g : HoldsOf(known[a].posted, g) /\ g[c] = [holder |-> a, until |-> lease[a]]
      BY <3>2
    <3>4. PICK f : HoldsOf(S, f)
      BY <3>1, HoldSteps
    <3>5. c \in Nat /\ c \in 0..Horizon /\ lease[a] \in Nat
      BY <1>0, <2>1 DEF Times, CallsInv
    <3>6. \A e \in Events : e.at \in Nat /\ e.at < lease[a]
      BY <1>0, <2>1, <2>2 DEF KnowledgeInv, CallsInv, Claim, Times, Holds
    <3>7. \A e \in known[a].posted \cup S : e.at <= c => e \in known[a].posted /\ e \in S
      <4> TAKE e \in known[a].posted \cup S
      <4>1. e \in Events
        BY <3>1 DEF Events
      <4> QED BY <1>0, <2>2, <3>2, <3>5, <3>6, <4>1
    <3> HIDE DEF S
    <3>8. f[c] = g[c]
      BY <3>1, <3>3, <3>4, <3>5, <3>7, SameEventsSameHold
    <3>9. \A e \in S : e.at > c => e.at < lease[a] /\ (e.holder = a => e.action = "held")
      BY <3>1, <3>2, <3>6
    <3>10. f[Horizon].holder = a /\ f[Horizon].until >= lease[a]
      BY <1>0, <3>1, <3>2, <3>3, <3>4, <3>5, <3>8, <3>9, HolderKeeps
    <3>11. Hold(S).holder = a /\ Hold(S).until >= lease[a] /\ Hold(S).until \in Nat
      BY <3>1, <3>4, <3>10, HoldIsHolding DEF HoldsOf, Holding
    <3>12. now < Hold(S).until
      BY <1>0, <2>1, <2>2, <3>5, <3>11 DEF Holds, KnowledgeInv
    <3>13. h.posted \ h.gone = S /\ now \in Nat
      BY <1>0, <2>1, <3>1 DEF S, KnowledgeInv
    <3> QED BY <3>11, <3>12, <3>13 DEF CurrentHolder
  <2> QED BY <2>2 DEF FirmLeaseHolds
<1> QED BY <1>1, ClaimsInvariant, PTL

=============================================================================
