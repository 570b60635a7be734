------------------------------ MODULE TaskRace ------------------------------
(***************************************************************************)
(* A collaborative task of a room, as several agents see and move it       *)
(* (packages/core/src/task/tasks.ts, network/tasks.ts, and the transition  *)
(* rules in packages/protocol/src/task.ts).                                *)
(*                                                                         *)
(* A task is nothing but its events: messages that carry a full snapshot.  *)
(* Every agent reduces the events its clone shows, in ULID order; what an  *)
(* agent publishes is computed from that, and may be overtaken by events   *)
(* it has not seen, with smaller ULIDs or greater ones: ids are minted     *)
(* from clocks that need not agree.                                        *)
(*                                                                         *)
(* Clones exchange events as in RoomDelivery: a push carries everything    *)
(* the clone has, a fetch everything the room has, at any time.  What an   *)
(* agent is told at the end of updateTask changes nothing and is left out. *)
(* A seal removes old events from the room; other messages of the room are *)
(* what lets its window begin at any event.                                *)
(***************************************************************************)
EXTENDS Naturals, Sequences, FiniteSets

CONSTANTS Agents,    \* one agent per clone
          Creator,   \* the agent that creates the task
          Machine,   \* Machine[a]: the computer of agent a
          Titles,
          Targets,   \* whom the task is offered to: agents, machines, Nobody
          Nobody,    \* no target (free to claim), or no assignee
          MaxId,     \* bound on ULIDs, and so on the number of events
          Scopes     \* what a behaviour may be about, see Scope

VARIABLES scope,     \* the bounds of this behaviour: chosen once, kept by every step
          origin,    \* the room branch on the remote
          clone,     \* clone[a]: the room branch of a's clone
          draft      \* draft[a]: an update a has decided on and not yet committed

taskVars == <<scope, origin, clone, draft>>

Terminal == {"completed", "cancelled"}
Active == {"claimed", "in_progress", "blocked", "stuck"}

\* The actions that only the assignee takes: from which states, to which.
WorkFrom == [started    |-> {"claimed", "blocked", "stuck"},
             progressed |-> {"in_progress"},
             blocked    |-> {"claimed", "in_progress"},
             stuck      |-> {"in_progress", "blocked"},
             completed  |-> {"in_progress"}]
WorkTo == [started |-> "in_progress", progressed |-> "in_progress", blocked |-> "blocked",
           stuck |-> "stuck", completed |-> "completed"]
UpdateActions ==
  DOMAIN WorkFrom \cup {"refined", "retargeted", "claimed", "released", "cancelled", "reopened"}

Ids == 1 .. MaxId

\* Bounds: the actions that each agent takes, the targets of tasks, the agents whose clones
\* seal the room, and the greatest ULID.
Scope == [updates: [Agents -> SUBSET UpdateActions], targets: SUBSET Targets, sealers: SUBSET Agents,
          ids: Nat]
Snapshot == [state: {"open"} \cup Active \cup Terminal, title: Titles, target: Targets,
             assignee: Agents \cup {Nobody}]
Draft == [action: UpdateActions, task: Snapshot, replyTo: Ids]
Event == [id: Ids, from: Agents, action: UpdateActions \cup {"created"}, task: Snapshot,
          replyTo: 0 .. MaxId]
NoDraft == [replyTo |-> 0]

ASSUME TaskAssumption ==
  /\ Creator \in Agents
  /\ DOMAIN Machine = Agents
  /\ Nobody \in Targets \ Agents
  /\ MaxId \in Nat
  /\ Scopes \subseteq Scope

\* Type invariant.
TaskTypeOK ==
  /\ scope \in Scopes
  /\ \A h \in {origin} \cup {clone[a] : a \in Agents} :
       DOMAIN h = {"posted", "pruned"} /\ h.pruned \subseteq h.posted /\ h.posted \subseteq Event
  /\ DOMAIN clone = Agents
  /\ draft \in [Agents -> Draft \cup {NoDraft}]

Empty == [posted |-> {}, pruned |-> {}]

TaskInit ==
  /\ scope \in Scopes
  /\ origin = Empty
  /\ clone = [a \in Agents |-> Empty]
  /\ draft = [a \in Agents |-> NoDraft]

-----------------------------------------------------------------------------
\* The transition rules.
OfferedTo(task, a) == task.target \in {Nobody, a, Machine[a]}

\* taskForAction: the snapshot after an action, from the one before it.
TaskForAction(task, action, from, title, target) ==
  CASE action = "refined"    -> [task EXCEPT !.title = title]
    [] action = "retargeted" -> [task EXCEPT !.target = target]
    [] action = "claimed"    -> [task EXCEPT !.state = "claimed", !.assignee = from]
    [] action \in {"released", "reopened"} ->
         [task EXCEPT !.state = "open", !.assignee = Nobody]
    [] action = "cancelled"  -> [task EXCEPT !.state = "cancelled"]
    [] action \in DOMAIN WorkTo -> [task EXCEPT !.state = WorkTo[action]]

MutRefines(prev, next) == prev.state \notin Terminal

\* A refinement changes the title and nothing else.
Refines(prev, next) ==
  /\ prev.state \notin Terminal
  /\ next.state = prev.state /\ next.assignee = prev.assignee

\* assertTaskTransition.  (That an action yields its state, with or without an
\* assignee, was checked when the message was parsed.)
Transition(prev, next, action, from) ==
  /\ action # "refined" => next.title = prev.title
  /\ action # "retargeted" => next.target = prev.target
  /\ \/ action = "refined" /\ Refines(prev, next)
     \/ action = "retargeted" /\ from = Creator /\ prev.state = "open" /\ next.target # prev.target
     \/ action = "claimed" /\ prev.state = "open" /\ OfferedTo(prev, from)
     \/ action = "released" /\ prev.state \in Active /\ from \in {prev.assignee, Creator}
     \/ /\ action = "cancelled" /\ prev.state \notin Terminal /\ from = Creator
        /\ next.assignee = prev.assignee
     \/ action = "reopened" /\ prev.state \in Terminal /\ from = Creator
     \/ /\ action \in DOMAIN WorkFrom /\ prev.state \in WorkFrom[action]
        /\ from = prev.assignee /\ next.assignee = prev.assignee

-----------------------------------------------------------------------------
\* The reduction.  Before any event: no task.
Nothing == [history |-> <<>>, ids |-> {}]

Known(r) == r.history # <<>>
Current(r) == r.history[Len(r.history)]
Task(r) == Current(r).task
Unfinished(r) == Known(r) /\ Task(r).state \notin Terminal

\* An event is accepted as the first one if it creates the task, and after that if
\* it replies to an accepted event and is a transition from the current one.
Accepted(r, e) ==
  IF Known(r)
  THEN e.replyTo \in r.ids /\ Transition(Task(r), e.task, e.action, e.from)
  ELSE e.action = "created"

\* reduceOne, over the events S in ULID order.
Reduced(S) ==
  LET upTo[i \in 0 .. MaxId] ==
        IF i = 0 THEN Nothing
        ELSE LET before == upTo[i - 1]
                 next   == {e \in S : e.id = i /\ Accepted(before, e)}
             IN  IF next = {} THEN before
                 ELSE [history |-> before.history \o <<CHOOSE e \in next : TRUE>>,
                       ids     |-> before.ids \cup {i}]
  IN  upTo[MaxId]

MutLive(h) == {e \in h.posted \ h.pruned : Cardinality({f \in h.posted : f.id > e.id}) < 3}

\* The messages of a room that are not sealed; every one of them is reduced.
LiveEvents(h) == h.posted \ h.pruned
Status(a) == Reduced(LiveEvents(clone[a]))

-----------------------------------------------------------------------------
\* ulid(): unique, and greater than this agent's earlier ones; that is all.
Committed == origin.posted \cup UNION {clone[a].posted : a \in Agents}
NewIds(a) ==
  {i \in Ids : /\ i <= scope.ids
               /\ \A e \in Committed : e.id # i
               /\ \A e \in clone[a].posted : e.from = a => e.id < i}

Adds(a, e) == clone' = [clone EXCEPT ![a].posted = @ \cup {e}]

\* createTask.  One task is modelled.
Create(id, title, target) ==
  /\ \A e \in Committed : e.action # "created"
  /\ id \in NewIds(Creator)
  /\ Adds(Creator, [id |-> id, from |-> Creator, action |-> "created", replyTo |-> 0,
                    task |-> [state |-> "open", title |-> title, target |-> target,
                              assignee |-> Nobody]])
  /\ UNCHANGED <<scope, origin, draft>>

\* updateTask up to send: read the room, decide, validate.  The network lock is not
\* held, and requireApproval may take its time.
Decide(a) ==
  /\ draft[a] = NoDraft
  /\ LET status == Status(a)
     IN  /\ Known(status)
         /\ \E action \in scope.updates[a], title \in Titles, target \in scope.targets :
              LET next == TaskForAction(Task(status), action, a, title, target)
              IN  /\ action # "retargeted" => target = Nobody  \* the target is not used
                  /\ Transition(Task(status), next, action, a)
                  /\ draft' = [draft EXCEPT ![a] = [action |-> action, task |-> next,
                                                    replyTo |-> Current(status).id]]
  /\ UNCHANGED <<scope, origin, clone>>

\* send commits what was decided, in the room as it is by now.
Commit(a, id) ==
  /\ draft[a] # NoDraft /\ id \in NewIds(a)
  /\ Adds(a, [id |-> id, from |-> a, action |-> draft[a].action, task |-> draft[a].task,
              replyTo |-> draft[a].replyTo])
  /\ draft' = [draft EXCEPT ![a] = NoDraft]
  /\ UNCHANGED <<scope, origin>>

\* No approval, a refused send, or the end of the process.
GiveUp(a) ==
  /\ draft[a] # NoDraft
  /\ draft' = [draft EXCEPT ![a] = NoDraft]
  /\ UNCHANGED <<scope, origin, clone>>

\* A merge of two histories of the branch.
Union(h, g) == [posted |-> h.posted \cup g.posted, pruned |-> h.pruned \cup g.pruned]

\* The push of send or of the outbox, rebased if need be.
Publish(a) ==
  /\ ~(clone[a].posted \subseteq origin.posted)
  /\ origin' = Union(origin, clone[a])
  /\ clone' = [clone EXCEPT ![a] = Union(origin, @)]
  /\ UNCHANGED <<scope, draft>>

\* What a fetch makes of the clone: git brings a commit with all its history.
Brought(a) == Union(clone[a], origin)

FetchEvents(a) ==
  /\ clone[a] # origin
  /\ clone' = [clone EXCEPT ![a] = Brought(a)]
  /\ UNCHANGED <<scope, origin, draft>>

-----------------------------------------------------------------------------
\* The events that are open on their own account if S knows no task.
Generic(S) == {e \in S : e.task.state \in {"open", "blocked", "stuck"}}

\* unresolvedMessages: of a task that is not finished, the current event.
Unresolved(S) ==
  LET r == Reduced(S)
  IN  IF ~Known(r) THEN Generic(S) ELSE IF Unfinished(r) THEN {Current(r)} ELSE {}

MutProtected(S) == Unresolved(S)

\* protectedOpenIds: the unresolved messages and those they reply to, all the way.
Protected(S) ==
  LET chain[k \in 0 .. MaxId] ==
        IF k = 0 THEN Unresolved(S)
        ELSE LET later == chain[k - 1]
             IN  later \cup {e \in S : \E f \in later : f.replyTo = e.id}
  IN  chain[MaxId]

\* What a seal may prune, however its window falls: the events up to one that are not
\* protected.
Sealable(S) == {{e \in S : e.id <= id} \ Protected(S) : id \in Ids} \ {{}}

\* A seal, planned on a's clone and pushed with merges.
Seal(a) ==
  /\ a \in scope.sealers
  /\ \E old \in Sealable(LiveEvents(clone[a])) :
       LET new == [Union(origin, clone[a]) EXCEPT !.pruned = @ \cup old]
       IN  origin' = new /\ clone' = [clone EXCEPT ![a] = new]
  /\ UNCHANGED <<scope, draft>>

-----------------------------------------------------------------------------
\* `komnet task`: create, claim, and update with any action.
TaskCommand ==
  \/ \E id \in Ids, title \in Titles, target \in scope.targets : Create(id, title, target)
  \/ \E a \in Agents : Decide(a)

TaskNext ==
  \/ TaskCommand
  \/ \E a \in Agents :
       \/ \E id \in Ids : Commit(a, id)
       \/ Seal(a) \/ GiveUp(a) \/ Publish(a) \/ FetchEvents(a)

TaskSpec == TaskInit /\ [][TaskNext]_taskVars

-----------------------------------------------------------------------------
\* What anybody reduces: every clone and the room.
Histories == {Status(a).history : a \in Agents} \cup {Reduced(LiveEvents(origin)).history}

\* An owner keeps the task until it is released or reopened, or is done with it: in
\* no clone does an event that was written before the claim and comes after it in
\* ULID order (a refinement, a retargeting, another claim) take the task away.
OwnerKeepsTask ==
  \A h \in Histories : \A i \in 2 .. Len(h) :
    h[i - 1].task.assignee # Nobody /\ h[i].task.assignee # h[i - 1].task.assignee
      => h[i].action \in {"released", "reopened"}

\* Two agents of whom each has received what the other one accepts, and who have
\* pulled the same seals, accept the same events in the same order, and so name the
\* same owner, whatever else only one of them has seen: a lost race costs nothing but
\* the event that lost it.
MetHistoriesAgree ==
  LET clones == {[received |-> {e.id : e \in clone[a].posted}, pruned |-> clone[a].pruned,
                  status |-> Status(a)] : a \in Agents}
  IN  \A x, y \in clones :
        x.pruned = y.pruned /\ x.status.ids \subseteq y.received /\ y.status.ids \subseteq x.received
          => x.status.history = y.status.history

\* A task was not contested if every accepted event was decided on the accepted one before it.
Uncontested(r) == \A i \in 2 .. Len(r.history) : r.history[i].replyTo = r.history[i - 1].id

\* A seal by an agent that has all that is in the room, of a task that is not finished and was
\* not contested, leaves the task as it was.  Each condition is needed: what SealingKeepsTasks
\* says fails after a race, and with events on their way.
SealKeepsUncontestedTasks ==
  [][\A a \in Agents :
       /\ origin'.pruned # origin.pruned /\ clone'[a].pruned # clone[a].pruned
       /\ Brought(a) = clone[a] /\ Unfinished(Status(a)) /\ Uncontested(Status(a))
       => Status(a)' = Status(a)]_taskVars

\* Sealing does not change a task that is not finished: the pruned room reduces to
\* what the whole history reduces to.  ("Their current valid event and parent chain
\* stay live"; "the losing event remains permanent and appears in invalidEvents".)
SealingKeepsTasks ==
  LET whole == Reduced(origin.posted)
      left  == Reduced(LiveEvents(origin))
  IN  Unfinished(whole) => Known(left) /\ Task(left) = Task(whole)

=============================================================================
