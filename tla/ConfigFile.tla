----------------------------- MODULE ConfigFile -----------------------------
(***************************************************************************)
(* config.yaml, as the processes of one agent's home share it: the daemon, *)
(* a DirectBackend that lives as long as its editor session, and one-shot  *)
(* commands (packages/core/src/config.ts, daemon/src/daemon.ts,            *)
(* daemon/src/backend.ts, cli/src/main.ts).                                *)
(*                                                                         *)
(* Everybody keeps the configuration in memory and saves all of it, in     *)
(* place: the file is truncated, then written, with no lock.  The two that *)
(* live long look at the file's mtime before each call and load what has   *)
(* changed.                                                                *)
(***************************************************************************)
EXTENDS Naturals

CONSTANTS Server, Direct,  \* the processes that live long: the daemon, a DirectBackend
          Commands,        \* uses of the command line, each a process
          Calls,           \* the daemon's requests, of which several are served at once
          HomeRooms,           \* of the network Home
          Home, Nets,      \* networks; Home is configured from the start
          Torn,            \* the file between truncation and write
          MaxSaves         \* bound on the saves

VARIABLES yaml,     \* the content of config.yaml, or Torn
          saves,    \* how often it has been saved
          memory,   \* memory[p]: this.config, or ctx.config
          rooms,    \* rooms[p]: the subscriptions of the network object, of Home
          seen,     \* the processes whose configMtimeMs is the file's
          served,   \* the networks the daemon has opened
          phase,    \* phase[c]: what a call awaits next
          change,   \* change[c]: what it adds to the configuration
          content,  \* content[c]: what its save is about to write
          whole,    \* history: what was last written whole
          current,  \* history: the processes whose memory is of what was last written
          based     \* history: the calls whose content was made from what was last written

configVars == <<yaml, saves, memory, rooms, seen, served, phase, change, content,
                whole, current, based>>
historyVars == <<whole, current, based>>

Processes == {Server, Direct} \cup Commands
AllCalls == Calls \cup {Direct} \cup Commands
Of(c) == IF c \in Calls THEN Server ELSE c

Config == [agent: {"own", "default"}, nets: SUBSET Nets, rooms: SUBSET HomeRooms, bound: SUBSET Nets]
NoChange == [adds |-> "nothing"]
Change ==
  [adds: {"room"}, room: HomeRooms] \cup [adds: {"net"}, net: Nets \ {Home}] \cup [adds: {"binding"}, net: Nets]

ASSUME ConfigAssumption ==
  /\ Home \in Nets /\ MaxSaves \in Nat
  /\ Torn \notin Config
  /\ Server # Direct /\ {Server, Direct} \cap (Commands \cup Calls) = {}
  /\ Commands \cap Calls = {}

\* Type invariant.
ConfigTypeOK ==
  /\ yaml \in Config \cup {Torn} /\ saves \in 0..MaxSaves
  /\ memory \in [Processes -> Config] /\ rooms \in [Processes -> SUBSET HomeRooms]
  /\ seen \subseteq {Server, Direct}
  /\ served \subseteq Nets
  /\ phase \in [AllCalls -> {"idle", "opening", "stat", "load", "work", "save", "write", "over"}]
  /\ change \in [AllCalls -> Change \cup {NoChange}]
  /\ content \in [AllCalls -> Config]
  /\ whole \in Config /\ current \subseteq Processes /\ based \subseteq AllCalls

FirstConfig == [agent |-> "own", nets |-> {Home}, rooms |-> {}, bound |-> {}]

\* emptyConfig(defaultIdentity()).
EmptyConfig == [agent |-> "default", nets |-> {}, rooms |-> {}, bound |-> {}]

\* The daemon runs; the DirectBackend has loaded its configuration and is being opened.
ConfigInit ==
  /\ yaml = FirstConfig /\ saves = 0
  /\ memory = [p \in Processes |-> FirstConfig] /\ rooms = [p \in Processes |-> {}]
  /\ seen = {Server}
  /\ served = {Home}
  /\ phase = [c \in AllCalls |-> IF c = Direct THEN "opening" ELSE "idle"]
  /\ change = [c \in AllCalls |-> NoChange]
  /\ content = [c \in AllCalls |-> FirstConfig]
  /\ whole = FirstConfig /\ current = {Server, Direct} /\ based = {}

Awaits(c, next) == phase' = [phase EXCEPT ![c] = next]

-----------------------------------------------------------------------------
\* openBackend: the mtime is asked for after the load, and after the attempt to connect
\* to a daemon that lies between them.
OpenDirect ==
  /\ phase[Direct] = "opening"
  /\ seen' = seen \cup {Direct}
  /\ Awaits(Direct, "idle")
  /\ UNCHANGED <<yaml, saves, memory, rooms, served, change, content, historyVars>>

\* A request of the daemon or a call of the DirectBackend arrives: it joins a room, or
\* changes nothing.
CallArrives(c, ch) ==
  /\ c \notin Commands /\ phase[c] = "idle"
  /\ ch = NoChange \/ ch.adds = "room"
  /\ change' = [change EXCEPT ![c] = ch]
  /\ Awaits(c, "stat")
  /\ UNCHANGED <<yaml, saves, memory, rooms, seen, served, content, historyVars>>

\* refreshConfig: the mtime is taken over before the file is loaded.
StatConfig(c) ==
  /\ phase[c] = "stat"
  /\ seen' = seen \cup {Of(c)}
  /\ Awaits(c, IF Of(c) \in seen THEN "work" ELSE "load")
  /\ UNCHANGED <<yaml, saves, memory, rooms, served, change, content, historyVars>>

MutAdopt(p, config) ==
  /\ UNCHANGED <<memory, rooms>>
  /\ served' = IF p = Server THEN served \cup config.nets ELSE served

MutAdoptOnce(p, config) ==
  /\ memory' = [memory EXCEPT ![p] = config]
  /\ rooms' = [rooms EXCEPT ![p] = config.rooms]
  /\ UNCHANGED served

\* What a loaded configuration replaces: the daemon opens the networks that are new and
\* leaves those it has as they are; the DirectBackend adopts the subscriptions.
Adopt(p, config) ==
  /\ memory' = [memory EXCEPT ![p] = config]
  /\ IF p = Server
     THEN served' = served \cup config.nets /\ UNCHANGED rooms
     ELSE rooms' = [rooms EXCEPT ![p] = config.rooms] /\ UNCHANGED served

\* loadConfig of the long-lived: what is torn is no configuration and changes nothing.
\* (In the DirectBackend a configuration without its network fails the call.)
LoadConfig(c) ==
  /\ phase[c] = "load"
  /\ IF yaml = Torn
     THEN Awaits(c, "work") /\ UNCHANGED <<memory, rooms, served, current>>
     ELSE IF Of(c) = Direct /\ Home \notin yaml.nets
     THEN Awaits(c, "idle") /\ UNCHANGED <<memory, rooms, served, current>>
     ELSE /\ Awaits(c, "work")
          /\ Adopt(Of(c), yaml)
          /\ current' = current \cup {Of(c)}
  /\ UNCHANGED <<yaml, saves, seen, change, content, whole, based>>

\* joinRoom, or whatever else the call is about.
ServeCall(c) ==
  /\ phase[c] = "work" /\ c \notin Commands
  /\ IF change[c] = NoChange
     THEN Awaits(c, "idle") /\ UNCHANGED rooms
     ELSE Awaits(c, "save") /\ rooms' = [rooms EXCEPT ![Of(c)] = @ \cup {change[c].room}]
  /\ change' = [change EXCEPT ![c] = NoChange]
  /\ UNCHANGED <<yaml, saves, memory, seen, served, content, historyVars>>

\* A command starts: main loads, and an absent configuration is an empty one.  What
\* follows may take long (init clones).
StartCommand(c, ch) ==
  /\ c \in Commands /\ phase[c] = "idle"
  /\ ch # NoChange /\ ch.adds \in {"net", "binding"}
  /\ memory' = [memory EXCEPT ![c] = IF yaml = Torn THEN EmptyConfig ELSE yaml]
  /\ current' = IF yaml = Torn THEN current ELSE current \cup {c}
  /\ change' = [change EXCEPT ![c] = ch]
  /\ Awaits(c, "work")
  /\ UNCHANGED <<yaml, saves, rooms, seen, served, content, whole, based>>

\* cmdInit, and cmdProject bind, which refuses a network it does not know.
RunCommand(c) ==
  /\ c \in Commands /\ phase[c] = "work"
  /\ LET known == memory[c].nets
     IN  \/ /\ change[c].adds = "net"
            /\ memory' = [memory EXCEPT ![c].nets = @ \cup {change[c].net}]
            /\ Awaits(c, "save")
         \/ /\ change[c].adds = "binding" /\ change[c].net \in known
            /\ memory' = [memory EXCEPT ![c].bound = @ \cup {change[c].net}]
            /\ Awaits(c, "save")
         \/ /\ change[c].adds = "binding" /\ change[c].net \notin known
            /\ Awaits(c, "over")
            /\ UNCHANGED memory
  /\ change' = [change EXCEPT ![c] = NoChange]
  /\ UNCHANGED <<yaml, saves, rooms, seen, served, content, historyVars>>

\* persistSubscriptions and persist put the networks they have opened into their copy.
ToSave(c) ==
  IF c \in Commands THEN memory[c]
  ELSE [memory[Of(c)] EXCEPT !.rooms = rooms[Of(c)],
                             !.nets = @ \cup (IF Of(c) = Server THEN served ELSE {Home})]

\* saveConfig: the file is opened, which empties it ...
SaveConfig(c) ==
  /\ phase[c] = "save" /\ saves < MaxSaves
  /\ content' = [content EXCEPT ![c] = ToSave(c)]
  /\ based' = IF Of(c) \in current THEN based \cup {c} ELSE based
  /\ memory' = [memory EXCEPT ![Of(c)] = ToSave(c)]
  /\ yaml' = Torn /\ saves' = saves + 1 /\ seen' = {}
  /\ Awaits(c, "write")
  /\ UNCHANGED <<rooms, served, change, whole, current>>

\* ... and written.
WriteConfig(c) ==
  /\ phase[c] = "write"
  /\ yaml' = content[c] /\ seen' = {}
  /\ content' = [content EXCEPT ![c] = FirstConfig]
  /\ whole' = content[c]
  /\ current' = IF c \in based THEN {Of(c)} ELSE {}
  /\ based' = {}
  /\ IF c \in Commands
     THEN Awaits(c, "over") /\ memory' = [memory EXCEPT ![c] = FirstConfig]
     ELSE Awaits(c, "idle") /\ UNCHANGED memory
  /\ UNCHANGED <<saves, rooms, served, change>>

ConfigNext ==
  \/ OpenDirect
  \/ \E c \in AllCalls :
       \/ \E ch \in Change \cup {NoChange} : CallArrives(c, ch) \/ StartCommand(c, ch)
       \/ StatConfig(c) \/ LoadConfig(c) \/ ServeCall(c) \/ RunCommand(c)
       \/ SaveConfig(c) \/ WriteConfig(c)

ConfigSpec == ConfigInit /\ [][ConfigNext]_configVars

-----------------------------------------------------------------------------
\* A writer is up to date: what it writes was made from what was last written.
UpToDate(c) == c \in based
Saved(c) == phase[c] = "write" /\ phase'[c] # "write"

\* A save loses what another process has saved only when the two overlap: what a writer
\* that is up to date writes has the networks and the bindings of what was last written,
\* and is the same agent's.
OnlyOverlapsLose ==
  [][\A c \in AllCalls :
       Saved(c) /\ UpToDate(c) =>
         /\ whole.nets \subseteq whole'.nets /\ whole.bound \subseteq whole'.bound
         /\ whole.agent = whole'.agent]_configVars

\* "The config is the shared truth between the two processes, and it changes under a
\* long-lived one": a save that overlaps with no other keeps the rooms that were joined.
JoinsSurvive ==
  [][\A c \in AllCalls :
       Saved(c) /\ UpToDate(c) => whole.rooms \subseteq whole'.rooms]_configVars

\* "Pick up networks added since this daemon started": whatever moment of a save its stat
\* and its load have hit, and however its requests interleave, a daemon that takes the
\* file for seen, and is not just loading it, serves each of its networks.
SeenIsServed ==
  yaml # Torn /\ Server \in seen /\ (\A c \in Calls : phase[c] # "load") => yaml.nets \subseteq served

=============================================================================
