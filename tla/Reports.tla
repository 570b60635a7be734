-------------------------------- MODULE Reports --------------------------------
(***************************************************************************)
(* What a daemon does with the report of a sync of one network             *)
(* (packages/daemon/src/daemon.ts onReport, notify.ts, core task/agenda.ts *)
(* and policy.ts): it tells the person what should not wait, starts an     *)
(* agent where the person's policy allows it, and looks for work that has  *)
(* stopped moving.                                                         *)
(*                                                                         *)
(* Reports overlap: the loop's sync and those that connections ask for     *)
(* each end in one.  A step reaches up to the next await.                  *)
(***************************************************************************)
EXTENDS Naturals

CONSTANTS Syncs,        \* syncs in flight
          Tasks,        \* the unfinished tasks of this agent
          MaxPerHour,   \* activation.maxPerHour
          NoReport

VARIABLES reporting,   \* reporting[k]: what the report of sync k has come to
          nearby,      \* agentNearby: a session is live, or a command came just now
          activation,  \* activation.mode in the policy file
          recent,      \* how many activations of the last hour the daemon remembers
          scanDue,     \* the stall scan interval has passed
          health,      \* health[t], as the rooms have it
          announced,   \* meta notifiedStalledTasks: the facts of the last scan
          invoked,     \* history: agents this daemon process has started in the last hour
          told,        \* history: facts told and found again by every scan since
          lost         \* history: facts whose telling failed or died with the daemon

reportVars == <<reporting, nearby, activation, recent, scanDue, health, announced, invoked, told, lost>>
surroundings == <<nearby, activation, health>>
stalls == <<announced, told, lost>>

\* healthFor; a fact is a task with what is wrong with it.
Healths == {"active", "stale", "blocked", "stuck"}
Facts == Tasks \X (Healths \ {"active"})

\* The messages delivered: none or chatter, one that mentions this agent, one that is
\* blocking or for a human.
Deliveries == {"chatter", "mention", "urgent"}
Report ==
  [step: {"staged"}, delivery: Deliveries]
  \cup [step: {"notifying", "deciding", "reported", "scanning"}]
  \cup [step: {"telling"}, facts: SUBSET Facts]

ASSUME ReportAssumption == MaxPerHour \in Nat \ {0} /\ NoReport \notin Report

\* Type invariant.
ReportTypeOK ==
  /\ reporting \in [Syncs -> Report \cup {NoReport}]
  /\ nearby \in BOOLEAN /\ activation \in {"off", "command"} /\ scanDue \in BOOLEAN
  /\ recent \in Nat /\ invoked \in Nat
  /\ health \in [Tasks -> Healths]
  /\ announced \subseteq Facts /\ told \subseteq Facts /\ lost \subseteq Facts

ReportInit ==
  /\ reporting = [k \in Syncs |-> NoReport]
  /\ nearby = FALSE /\ activation \in {"off", "command"} /\ scanDue = TRUE
  /\ recent = 0 /\ invoked = 0
  /\ health = [t \in Tasks |-> "active"]
  /\ announced = {} /\ told = {} /\ lost = {}

\* needsAttention, of every task in the agenda.
Stalled == {f \in Facts : health[f[1]] = f[2]}

At(k, step) == reporting[k] # NoReport /\ reporting[k].step = step
Moves(k, to) == reporting' = [reporting EXCEPT ![k] = to]
To(k, step) == Moves(k, [step |-> step])

-----------------------------------------------------------------------------
\* A sync has delivered, and the inbox was written to disk.
Stage(k, delivery) ==
  /\ reporting[k] = NoReport
  /\ Moves(k, [step |-> "staged", delivery |-> delivery])
  /\ UNCHANGED <<surroundings, recent, scanDue, invoked, stalls>>

\* shouldNotify.
Notable(delivery) == delivery = "urgent" \/ (delivery = "mention" /\ ~nearby)

Notify(k) ==
  /\ At(k, "staged")
  /\ To(k, IF Notable(reporting[k].delivery) THEN "notifying" ELSE "reported")
  /\ UNCHANGED <<surroundings, recent, scanDue, invoked, stalls>>

\* The toast is shown, or the file written in its place, or not even that: the daemon
\* goes on.
Notified(k) ==
  /\ At(k, "notifying")
  /\ To(k, IF nearby THEN "reported" ELSE "deciding")
  /\ UNCHANGED <<surroundings, recent, scanDue, invoked, stalls>>

MutRemembered == recent

\* The list of the last hour, which an activation is added to before it is made.
Remembered == recent + 1

\* maybeActivate once the policy has been read.
Decide(k) ==
  /\ At(k, "deciding")
  /\ IF activation = "command" /\ recent < MaxPerHour
     THEN recent' = Remembered /\ invoked' = invoked + 1
     ELSE UNCHANGED <<recent, invoked>>
  /\ To(k, "reported")
  /\ UNCHANGED <<surroundings, scanDue, stalls>>

\* The policy cannot be read: the report ends there, and with it the scan.
DecideFails(k) ==
  /\ At(k, "deciding")
  /\ Moves(k, NoReport)
  /\ UNCHANGED <<surroundings, recent, scanDue, invoked, stalls>>

-----------------------------------------------------------------------------
\* escalateStalledWork: at most one scan in an interval, whatever comes of it.
Scan(k) ==
  /\ At(k, "reported")
  /\ IF scanDue THEN To(k, "scanning") ELSE Moves(k, NoReport)
  /\ scanDue' = FALSE
  /\ UNCHANGED <<surroundings, recent, invoked, stalls>>

MutNews == {}
News == Stalled \ announced

\* The agenda is there: the facts are recorded, and then those that are new are told.
ScanFinds(k) ==
  /\ At(k, "scanning")
  /\ announced' = Stalled
  /\ told' = told \cap Stalled /\ lost' = lost \cap Stalled
  /\ IF News = {} THEN Moves(k, NoReport)
     ELSE Moves(k, [step |-> "telling", facts |-> News])
  /\ UNCHANGED <<surroundings, recent, scanDue, invoked>>

ScanFails(k) ==
  /\ At(k, "scanning")
  /\ Moves(k, NoReport)
  /\ UNCHANGED <<surroundings, recent, scanDue, invoked, stalls>>

\* The notifier: a failing one falls back to the notice file.
ScanTells(k) ==
  /\ At(k, "telling")
  /\ told' = told \cup reporting[k].facts
  /\ Moves(k, NoReport)
  /\ UNCHANGED <<surroundings, recent, scanDue, invoked, announced, lost>>

\* And the file cannot be written either.
TellFails(k) ==
  /\ At(k, "telling")
  /\ lost' = lost \cup reporting[k].facts
  /\ Moves(k, NoReport)
  /\ UNCHANGED <<surroundings, recent, scanDue, invoked, announced, told>>

-----------------------------------------------------------------------------
\* What happens around the daemon.
HealthChanges(t, h) ==
  /\ h # health[t] /\ health' = [health EXCEPT ![t] = h]
  /\ UNCHANGED <<reporting, nearby, activation, recent, scanDue, invoked, stalls>>

AgentComesOrGoes ==
  /\ nearby' = ~nearby
  /\ UNCHANGED <<reporting, activation, recent, scanDue, health, invoked, stalls>>

PersonSetsActivation ==
  /\ activation' \in {"off", "command"} \ {activation}
  /\ UNCHANGED <<reporting, nearby, recent, scanDue, health, invoked, stalls>>

IntervalPasses ==
  /\ ~scanDue /\ scanDue' = TRUE
  /\ UNCHANGED <<reporting, surroundings, recent, invoked, stalls>>

\* An hour has passed since the oldest activation.
HourPasses ==
  /\ invoked > 0
  /\ invoked' = invoked - 1
  /\ recent' = IF recent > 0 THEN recent - 1 ELSE 0
  /\ UNCHANGED <<reporting, surroundings, scanDue, stalls>>

Telling == UNION {reporting[k].facts : k \in {j \in Syncs : At(j, "telling")}}

\* Another daemon takes over, which remembers no activation: the limit is per process.
DaemonRestarts ==
  /\ reporting' = [k \in Syncs |-> NoReport]
  /\ recent' = 0 /\ invoked' = 0 /\ scanDue' = TRUE
  /\ lost' = lost \cup Telling
  /\ UNCHANGED <<surroundings, announced, told>>

-----------------------------------------------------------------------------
Reacts(k) ==
  \/ \E delivery \in Deliveries : Stage(k, delivery)
  \/ Notify(k) \/ Notified(k) \/ Decide(k) \/ DecideFails(k)
  \/ Scan(k) \/ ScanFinds(k) \/ ScanFails(k) \/ ScanTells(k) \/ TellFails(k)

ReportNext ==
  \/ \E k \in Syncs : Reacts(k)
  \/ \E t \in Tasks, h \in Healths : HealthChanges(t, h)
  \/ AgentComesOrGoes \/ PersonSetsActivation \/ IntervalPasses \/ HourPasses \/ DaemonRestarts

ReportSpec == ReportInit /\ [][ReportNext]_reportVars

-----------------------------------------------------------------------------
\* "Nothing runs more than maxPerHour": one daemon process starts no more agents in an
\* hour than the policy says, however its reports overlap while they wait for the policy.
ActivationsAreBounded == invoked <= MaxPerHour

\* "Keyed by health, so blocked to stuck is a new fact, and a task that recovers and
\* stalls again is reported again": a fact that the daemon has recorded as reported was
\* told, is about to be, or its telling failed or died with the daemon.
AnnouncedIsTold == announced \subseteq told \cup lost \cup Telling

=============================================================================
