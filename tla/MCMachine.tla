----------------------------- MODULE MCMachine -----------------------------
(***************************************************************************)
(* What is scheduled on one machine: the processes at the lock of a        *)
(* network, what runs inside a daemon, and the syncs of a room.  They      *)
(* share no variable, so a behaviour is about one of them (topic) and the  *)
(* others do not leave their initial states.  With them, the pure parts,   *)
(* evaluated on small arguments.                                           *)
(***************************************************************************)
EXTENDS FileLock, Daemon, Cadence, Roster, MCRoomDelivery

\* Two policies: the intervals and windows of the code on a small scale, and one whose
\* windows are not nested.
MachineCadences ==
  {[every |-> [hot |-> 1, warm |-> 3, cool |-> 12, idle |-> 60],
    within |-> [hot |-> 30, warm |-> 360, cool |-> 8640],
    jitter |-> 20, failureBase |-> 2, failureCap |-> 90],
   [every |-> [hot |-> 2, warm |-> 2, cool |-> 5, idle |-> 5],
    within |-> [hot |-> 40, warm |-> 30, cool |-> 10],
    jitter |-> 150, failureBase |-> 8, failureCap |-> 16]}
MachineDoubled == [n \in 0 .. MaxFailures |-> 2 ^ n]

\* The outcomes of the cadence on these: a delay exists exactly if the loop may poll, and
\* the failures of one outage spread.
ASSUME CadencesPoll ==
  \A policy \in Cadences, failures \in 0 .. MaxFailures,
     input \in [age: {-5, 0, 35, 400, 9000, NoActivity}, pending: BOOLEAN, live: BOOLEAN,
               online: BOOLEAN, suspended: BOOLEAN] :
    LET delays == NextDelay(policy, input, failures)
    IN  /\ delays = {} <=> NextState(policy, input) = "paused"
        /\ delays \subseteq 1 .. 120
        /\ input.online /\ ~input.suspended /\ failures > 0 => \E d, e \in delays : d # e

\* Cards of two agents: of one or two people, on a machine or on none, one seen at 4.
MachineCards ==
  [human: Humans, machine: Machines \cup {NoMachine}, rooms: {Unlisted, Rooms}, status: {"live"},
   lastSeen: {NoTime}]
  \cup [human: {CHOOSE h \in Humans : TRUE}, machine: Machines, rooms: {{}}, status: {"live", "away"},
        lastSeen: {4}]

\* A machine is contested exactly if two people claim it; who shares it with an agent is
\* shared with by it; and who wrote last at 7 is seen from then on, and less and less.
ASSUME RostersAgree ==
  \A roster \in [Agents -> MachineCards], x \in Agents :
    LET home == roster[x].machine
        rows(now) == MachineRoster(roster, {[from |-> x, ts |-> 7]}, now, home)
    IN  /\ \A y \in Agents : home # NoMachine =>
             (y \in LocalPeers(roster, x, home) <=> x # y /\ x \in LocalPeers(roster, y, roster[y].machine))
        /\ \A row \in rows(7) :
             /\ row.contested <=> /\ row.machine # NoMachine
                                 /\ \E y, z \in row.agents : roster[y].human # roster[z].human
             /\ x \in row.agents => row.live >= 1
        /\ \A now \in 7 .. 12 : PresenceRoster(roster, {[from |-> x, ts |-> 7]}, now)[x]
             = (IF now <= 7 + LiveWithin THEN "live" ELSE IF now <= 7 + AwayAfter THEN "stale" ELSE "away")
        /\ \A typed \in SUBSET Mentions :
             Expand(Expand(typed, roster), roster) = Expand(typed, roster)

VARIABLE topic

\* Inside a daemon there are two connections and a request at a time, or one connection and
\* two requests.
OneIsUsed == Cardinality({c \in Connections : connection[c] # "new"}) <= 1

\* In the room, a writes one message and seals, and r reads; or a has posted and left, and b
\* writes two.
OneWrites == subscribed \subseteq {a, r} /\ sent \subseteq {m1}
OneRecovers == subscribed \subseteq {b}

MachineInit ==
  /\ topic \in {"lock", "daemon", "requests", "reading", "recovery"}
  /\ LockInit /\ DaemonInit
  /\ IF topic = "recovery" THEN PostedInit ELSE Init

MachineNext ==
  \/ topic = "lock" /\ LockNext /\ UNCHANGED <<topic, daemonVars, vars>>
  \/ topic = "daemon" /\ DaemonNext /\ Cardinality(requests') <= 1 /\ UNCHANGED <<topic, lockVars, vars>>
  \/ topic = "requests" /\ DaemonNext /\ OneIsUsed' /\ UNCHANGED <<topic, lockVars, vars>>
  \/ topic = "reading" /\ Next /\ OneWrites' /\ UNCHANGED <<topic, lockVars, daemonVars>>
  \/ topic = "recovery" /\ Next /\ OneRecovers' /\ UNCHANGED <<topic, lockVars, daemonVars>>

\* What is scheduled in a behaviour is what it is about.  Nothing is asked of a node that is
\* out of the room.
TopicFairness ==
  \/ topic = "lock" /\ LockFairness
  \/ topic \in {"daemon", "requests"} /\ DaemonFairness
  \/ topic = "reading" /\ FairTo(a) /\ FairTo(r)
  \/ topic = "recovery" /\ FairTo(b)

MachineSpec ==
  MachineInit /\ [][MachineNext]_<<topic, lockVars, daemonVars, vars>> /\ TopicFairness

\* Type invariant.
MachineTypeOK == LockTypeOK /\ DaemonTypeOK /\ TypeOK

=============================================================================
