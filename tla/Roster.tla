--------------------------------- MODULE Roster ---------------------------------
(***************************************************************************)
(* What an agent makes of the cards on main: who is there                  *)
(* (packages/core/src/agent/card.ts), which agents a mention of a machine  *)
(* stands for, who shares a machine (network/agents.ts), and whether a     *)
(* message is going to reach whom it names (Network.forecastDelivery and   *)
(* sync/routing.ts).  Pure: an operator for each function.                 *)
(*                                                                         *)
(* A roster is a function from the agents that have a card to their cards. *)
(* A mention of a machine is the machine.  Times are in milliseconds.      *)
(***************************************************************************)
EXTENDS Integers
LOCAL INSTANCE FiniteSets

CONSTANTS Agents, Machines, Humans, Rooms,
          RoomWide,      \* the mention of everybody in the room
          LiveWithin, AwayAfter, FutureSkew,
          NoTime,        \* a time: none, or not readable
          NoMachine,     \* on a card of before there were machines
          Unlisted       \* rooms of a card of before they were published

ASSUME RosterAssumption ==
  /\ LiveWithin \in Nat /\ AwayAfter \in Nat /\ FutureSkew \in Nat
  /\ NoTime \notin Int /\ NoMachine \notin Machines /\ \A S \in SUBSET Rooms : S # Unlisted
  /\ Agents \cap Machines = {} /\ RoomWide \notin Agents \cup Machines

AgentCard ==
  [human: Humans, machine: Machines \cup {NoMachine}, rooms: (SUBSET Rooms) \cup {Unlisted},
   status: {"live", "away"}, lastSeen: Int \cup {NoTime}]
Rosters == UNION {[S -> AgentCard] : S \in SUBSET Agents}
Mentions == Agents \cup Machines \cup {RoomWide}

-----------------------------------------------------------------------------
FromAge(age) == IF age <= LiveWithin THEN "live" ELSE IF age <= AwayAfter THEN "stale" ELSE "away"

ObservedStatus(card, now) ==
  IF card.status = "away" THEN "away"
  ELSE IF card.lastSeen = NoTime \/ card.lastSeen - now > FutureSkew THEN "stale"
  ELSE FromAge(now - card.lastSeen)

\* activity: when the agent last wrote, as far as the reader sees.
IsNews(card, activity, now) ==
  /\ activity # NoTime
  /\ card.lastSeen = NoTime \/ activity > card.lastSeen
  /\ activity - now <= FutureSkew

ObservedWithActivity(card, activity, now) ==
  IF IsNews(card, activity, now) THEN FromAge(IF activity > now THEN 0 ELSE now - activity)
  ELSE ObservedStatus(card, now)

\* agentActivity, of the messages in the rooms that the reader follows.
LastWritten(messages, a) ==
  LET written == {m.ts : m \in {n \in messages : n.from = a}} \ {NoTime}
  IN  IF written = {} THEN NoTime ELSE CHOOSE t \in written : \A s \in written : s <= t

PresenceRoster(roster, messages, now) ==
  [a \in DOMAIN roster |-> ObservedWithActivity(roster[a], LastWritten(messages, a), now)]

-----------------------------------------------------------------------------
OnMachine(roster, m) == {a \in DOMAIN roster : roster[a].machine = m}

\* expandMachineMentions: the mention stays, with the agents it stands for.
Expand(mentions, roster) ==
  mentions \cup UNION {OnMachine(roster, m) : m \in mentions \cap Machines}

\* machineRoster: a row of it, with the agents that claim no machine in one of their own.
MachineRow(roster, messages, now, home, m) ==
  LET agents == OnMachine(roster, m)
  IN  [machine |-> m, agents |-> agents, self |-> m # NoMachine /\ m = home,
       contested |-> m # NoMachine /\ Cardinality({roster[a].human : a \in agents}) > 1,
       live |-> Cardinality({a \in agents : PresenceRoster(roster, messages, now)[a] = "live"})]
MachineRoster(roster, messages, now, home) ==
  {MachineRow(roster, messages, now, home, m) : m \in {roster[a].machine : a \in DOMAIN roster}}

LocalPeers(roster, me, home) == OnMachine(roster, home) \ {me}

-----------------------------------------------------------------------------
\* forecastDelivery for one agent, and for what a sender has typed.
Outlook(roster, room, a) ==
  IF a \notin DOMAIN roster THEN "unknown"
  ELSE IF roster[a].rooms = Unlisted THEN "unknown"
  ELSE IF room \in roster[a].rooms THEN "reaches" ELSE "misses"

Forecast(roster, me, room, typed) ==
  LET expanded == Expand(typed, roster)
      nobodyOn == {m \in expanded \cap Machines : OnMachine(roster, m) = {}}
  IN  {<<m, "unknown">> : m \in nobodyOn}
      \cup {<<a, Outlook(roster, room, a)>> : a \in expanded \ (Machines \cup {RoomWide, me})}

\* isAddressedTo and shouldDeliverMessage, of the sync of an agent: it looks at the rooms
\* it follows and at no other.
Addressed(message, a, home) ==
  message.mentions \cap {a, home, RoomWide} # {}

Delivers(message, a, follows, home) ==
  /\ message.room \in follows /\ message.from # a
  /\ Addressed(message, a, home) \/ (message.needsHuman /\ message.mentions = {})

=============================================================================
