-------------------------------- MODULE Daemon --------------------------------
(***************************************************************************)
(* One daemon process (packages/daemon/src/daemon.ts, loop.ts): its sync   *)
(* loops, the automatic seal, the connections of its unix socket and the   *)
(* requests they carry, the sessions they declare, the delayed publication *)
(* of an arrival, and stop.                                                *)
(*                                                                         *)
(* The process is one event loop: an action is what runs between two       *)
(* awaits, with everything called synchronously in between.  What the      *)
(* operations do to the networks is in the other modules; here they take   *)
(* their time and end, well or badly.                                      *)
(***************************************************************************)
EXTENDS Naturals, FiniteSets

CONSTANTS Networks,     \* the networks of the configuration
          Connections,  \* sockets, each accepted at most once
          Nothing,      \* no network, no seal
          MaxRequests   \* bound on the requests in flight

VARIABLES timer,         \* timer[n]: the delay the loop's one timer was set to, or "none"
          running,       \* running[n]: the loop is started and not stopped
          syncing,       \* syncing[n]: what the loop's tick is awaiting, or "idle"
          autoSeal,      \* the network whose rooms are being sealed
          sealAwaited,   \* that seal is in the list stop is waiting for
          connection,    \* connection[c]: "new", "open" or "gone"
          declared,      \* declared[c]: the closure's declaredNetwork
          sessions,      \* sessions[c]: the network c is registered for
          requests,      \* the IPC requests being served
          presenceTimer, \* an arrival waits for the grace to pass
          publishing,    \* a publishPresence is under way
          stopped,       \* how far stop has got, "no" while the daemon serves
          owed,          \* history: owed[n], a wake no later sync of the loop has served
          unpublished    \* history: an arrival that no publication has followed

loopVars == <<timer, running, syncing, owed>>
sealVars == <<autoSeal, sealAwaited>>
socketVars == <<connection, declared, sessions, presenceTimer, unpublished>>
daemonVars == <<timer, running, syncing, autoSeal, sealAwaited, connection, declared, sessions,
                requests, presenceTimer, publishing, stopped, owed, unpublished>>

Optional == Networks \cup {Nothing}
Methods == {"sessionOpen", "sessionClose", "send", "sync"}
\* awaited: the promise is in the list that stop is waiting for.
Request == [from: Connections, method: Methods, network: Networks,
            phase: {"refreshing", "serving"}, awaited: BOOLEAN]

ASSUME DaemonAssumption == Nothing \notin Networks /\ MaxRequests \in Nat

\* Type invariant; and no timer outlives its loop.
DaemonTypeOK ==
  /\ timer \in [Networks -> {"none", "now", "second", "cadence"}]
  /\ running \in [Networks -> BOOLEAN]
  /\ syncing \in [Networks -> {"idle", "sync", "report"}]
  /\ autoSeal \in Optional /\ sealAwaited \in BOOLEAN
  /\ connection \in [Connections -> {"new", "open", "gone"}]
  /\ declared \in [Connections -> Optional]
  /\ sessions \in [Connections -> Optional]
  /\ requests \subseteq Request
  /\ presenceTimer \in BOOLEAN /\ publishing \in BOOLEAN
  /\ stopped \in {"down", "no", "grace", "killing", "quiet", "overrun"}
  /\ owed \in [Networks -> BOOLEAN] /\ unpublished \in BOOLEAN
  /\ \A n \in Networks : timer[n] # "none" => running[n]

\* Not started yet.
DaemonInit ==
  /\ timer = [n \in Networks |-> "none"]
  /\ running = [n \in Networks |-> FALSE]
  /\ syncing = [n \in Networks |-> "idle"]
  /\ autoSeal = Nothing /\ sealAwaited = FALSE
  /\ connection = [c \in Connections |-> "new"]
  /\ declared = [c \in Connections |-> Nothing]
  /\ sessions = [c \in Connections |-> Nothing]
  /\ requests = {}
  /\ presenceTimer = FALSE /\ publishing = FALSE
  /\ stopped = "down"
  /\ owed = [n \in Networks |-> FALSE] /\ unpublished = FALSE

-----------------------------------------------------------------------------
\* The loops.
MutScheduled(n, delay) == delay

\* schedule: the new timer takes the place of the old one.
Scheduled(n, delay) == IF running[n] THEN delay ELSE timer[n]

\* wake, of the networks in N.
Wake(N) ==
  /\ timer' = [n \in Networks |-> IF n \in N THEN Scheduled(n, "now") ELSE timer[n]]
  /\ owed' = [n \in Networks |-> owed[n] \/ (n \in N /\ running[n])]

\* start: the socket listens, and every loop is scheduled at once.
StartDaemon ==
  /\ stopped = "down"
  /\ stopped' = "no"
  /\ timer' = [n \in Networks |-> "now"]
  /\ running' = [n \in Networks |-> TRUE]
  /\ UNCHANGED <<syncing, owed, sealVars, requests, publishing, socketVars>>

\* tick, no sync running: one starts.
TickStarts(n) ==
  /\ timer[n] # "none" /\ syncing[n] = "idle"
  /\ timer' = [timer EXCEPT ![n] = "none"]
  /\ syncing' = [syncing EXCEPT ![n] = "sync"]
  /\ owed' = [owed EXCEPT ![n] = FALSE]
  /\ UNCHANGED <<running, sealVars, requests, publishing, stopped, socketVars>>

\* tick, while a sync runs: later.
TickLater(n) ==
  /\ timer[n] # "none" /\ syncing[n] # "idle"
  /\ timer' = [timer EXCEPT ![n] = "second"]
  /\ UNCHANGED <<running, syncing, owed, sealVars, requests, publishing, stopped, socketVars>>

\* Network.sync of the loop has an answer: onReport starts.
SyncReports(n) ==
  /\ syncing[n] = "sync"
  /\ syncing' = [syncing EXCEPT ![n] = "report"]
  /\ UNCHANGED <<timer, running, owed, sealVars, requests, publishing, stopped, socketVars>>

MutTickEnds(n) ==
  /\ syncing' = [syncing EXCEPT ![n] = "idle"]
  /\ timer' = [timer EXCEPT ![n] = "none"]

\* The tick goes on after its sync: the cadence decides on the next one.
TickEnds(n) ==
  /\ syncing' = [syncing EXCEPT ![n] = "idle"]
  /\ timer' = [timer EXCEPT ![n] = Scheduled(n, "cadence")]

MutMaybeSeal(n) == autoSeal' = IF autoSeal = Nothing THEN n ELSE autoSeal

\* maybeSeal: not awaited by the loop, one at a time, none once stopping.
MaybeSeal(n) == autoSeal' = IF autoSeal = Nothing /\ stopped = "no" THEN n ELSE autoSeal

\* onReport is done, and a seal may start.
ReportDone(n) ==
  /\ syncing[n] = "report"
  /\ MaybeSeal(n)
  /\ TickEnds(n)
  /\ UNCHANGED <<sealAwaited, running, owed, requests, publishing, stopped, socketVars>>

\* The sync or onReport throws.
TickFails(n) ==
  /\ syncing[n] # "idle"
  /\ TickEnds(n)
  /\ UNCHANGED <<running, owed, sealVars, requests, publishing, stopped, socketVars>>

\* sealDue ends, well or not.
SealEnds ==
  /\ autoSeal # Nothing
  /\ autoSeal' = Nothing /\ sealAwaited' = FALSE
  /\ UNCHANGED <<loopVars, requests, publishing, stopped, socketVars>>

-----------------------------------------------------------------------------
\* Connections and sessions.
Attached(registered) == {registered[c] : c \in Connections} \ {Nothing}
SessionLive == Attached(sessions) # {}

MutSessionChanged(registered) ==
  IF Attached(registered) \ Attached(sessions) = {}
  THEN presenceTimer' = FALSE /\ UNCHANGED <<timer, owed>>
  ELSE Wake(Attached(registered)) /\ presenceTimer' = (stopped = "no")

\* onSessionChange, with the sessions registered by now: the arrival that waited is
\* dropped, and while any session is attached a new one waits in its place.
SessionChanged(registered) ==
  IF Attached(registered) = {}
  THEN presenceTimer' = FALSE /\ UNCHANGED <<timer, owed>>
  ELSE Wake(Attached(registered)) /\ presenceTimer' = (stopped = "no")

\* unpublished: an arrival, while the daemon serves; withdrawn when nobody is left.
Noted(registered, arrives) ==
  unpublished' = (Attached(registered) # {} /\ stopped = "no" /\ (arrives \/ unpublished))

\* onConnection; stop closes the server.
Connect(c) ==
  /\ connection[c] = "new" /\ stopped = "no"
  /\ connection' = [connection EXCEPT ![c] = "open"]
  /\ UNCHANGED <<loopVars, sealVars, declared, sessions, presenceTimer, unpublished, requests,
                 publishing, stopped>>

\* cleanup, on close or error: requests of the connection are not cancelled.
Disconnect(c) ==
  /\ connection[c] = "open"
  /\ connection' = [connection EXCEPT ![c] = "gone"]
  /\ declared' = [declared EXCEPT ![c] = Nothing]
  /\ LET left == [sessions EXCEPT ![c] = Nothing]
     IN  IF declared[c] # Nothing
         THEN sessions' = left /\ SessionChanged(left) /\ Noted(left, FALSE)
         ELSE UNCHANGED <<sessions, timer, owed, presenceTimer, unpublished>>
  /\ UNCHANGED <<running, syncing, sealVars, requests, publishing, stopped>>

\* handleLine up to its await of refreshConfig.  noteLocalActivity wakes every loop
\* if the last request is long enough ago (due).
Receive(c, method, n, due) ==
  /\ connection[c] = "open"
  /\ Cardinality(requests) < MaxRequests
  /\ requests' = requests \cup {[from |-> c, method |-> method, network |-> n,
                                 phase |-> "refreshing", awaited |-> FALSE]}
  /\ IF due THEN Wake(Networks) ELSE UNCHANGED <<timer, owed>>
  /\ UNCHANGED <<running, syncing, sealVars, publishing, stopped, socketVars>>

Ended(r) == requests' = requests \ {r}
Served(r) == requests' = (requests \ {r}) \cup {[r EXCEPT !.phase = "serving"]}

\* Whether resolve finds a network: a daemon that has stopped has none.
Closed == stopped \in {"quiet", "overrun"}
Refreshed(r) == r \in requests /\ r.phase = "refreshing"

\* markSession, of whatever has become of the connection meanwhile.
Mark(c, n) ==
  /\ declared' = [declared EXCEPT ![c] = n]
  /\ sessions' = [sessions EXCEPT ![c] = n]
  /\ SessionChanged([sessions EXCEPT ![c] = n])

\* dispatch "sessionOpen": publishProfile is awaited after the session is marked.
SessionOpen(r) ==
  /\ Refreshed(r) /\ r.method = "sessionOpen" /\ ~Closed
  /\ Mark(r.from, r.network)
  /\ Noted([sessions EXCEPT ![r.from] = r.network], TRUE)
  /\ Served(r)
  /\ UNCHANGED <<running, syncing, sealVars, connection, publishing, stopped>>

\* dispatch "sessionClose".
SessionClose(r) ==
  /\ Refreshed(r) /\ r.method = "sessionClose"
  /\ Mark(r.from, Nothing)
  /\ Noted([sessions EXCEPT ![r.from] = Nothing], FALSE)
  /\ Ended(r)
  /\ UNCHANGED <<running, syncing, sealVars, connection, publishing, stopped>>

\* dispatch of an operation on a network.
Dispatch(r) ==
  /\ Refreshed(r) /\ r.method \in {"send", "sync"} /\ ~Closed
  /\ Served(r)
  /\ UNCHANGED <<loopVars, sealVars, publishing, stopped, socketVars>>

\* resolve throws, or the operation does.
RequestFails(r) ==
  /\ r \in requests
  /\ r.phase = "refreshing" => Closed /\ r.method # "sessionClose"
  /\ Ended(r)
  /\ UNCHANGED <<loopVars, sealVars, publishing, stopped, socketVars>>

\* The operation has an answer; one that wrote to the room wakes the loop.
RequestDone(r) ==
  /\ r \in requests /\ r.phase = "serving"
  /\ Ended(r)
  /\ IF r.method = "send" THEN Wake({r.network}) ELSE UNCHANGED <<timer, owed>>
  /\ UNCHANGED <<running, syncing, sealVars, publishing, stopped, socketVars>>

\* The grace of an arrival has passed.
PresenceTimerFires ==
  /\ presenceTimer
  /\ presenceTimer' = FALSE
  /\ publishing' = (publishing \/ SessionLive)
  /\ unpublished' = FALSE
  /\ UNCHANGED <<loopVars, sealVars, connection, declared, sessions, requests, stopped>>

PublishEnds ==
  /\ publishing
  /\ publishing' = FALSE
  /\ UNCHANGED <<loopVars, sealVars, requests, stopped, socketVars>>

-----------------------------------------------------------------------------
\* stop.  What stop waits for: the promises of inFlight(), as they were.
Awaiting ==
  \/ \E n \in Networks : syncing[n] # "idle"
  \/ sealAwaited
  \/ \E r \in requests : r.awaited

Await ==
  /\ requests' = {[r EXCEPT !.awaited = TRUE] : r \in requests}
  /\ sealAwaited' = (autoSeal # Nothing)

\* shutdown up to its first wait: a signal, or the shutdown request's timer.
Stop ==
  /\ stopped = "no"
  /\ stopped' = "grace"
  /\ running' = [n \in Networks |-> FALSE]
  /\ timer' = [n \in Networks |-> "none"]
  /\ owed' = [n \in Networks |-> FALSE]
  /\ presenceTimer' = FALSE /\ unpublished' = FALSE
  /\ Await
  /\ UNCHANGED <<syncing, autoSeal, connection, declared, sessions, publishing>>

\* Every socket is destroyed and every network closed.
Close(how) ==
  /\ stopped' = how
  /\ sessions' = [c \in Connections |-> Nothing]
  /\ declared' = [c \in Connections |-> Nothing]
  /\ connection' = [c \in Connections |-> IF connection[c] = "open" THEN "gone" ELSE connection[c]]
  /\ UNCHANGED <<loopVars, sealVars, requests, publishing, presenceTimer, unpublished>>

\* All of it has settled, within one of the two graces.
Settles ==
  /\ stopped \in {"grace", "killing"} /\ ~Awaiting
  /\ Close("quiet")

\* The first grace is over: git is terminated, and what is in flight now gets another.
GraceExpires ==
  /\ stopped = "grace" /\ Awaiting
  /\ stopped' = "killing"
  /\ Await
  /\ UNCHANGED <<loopVars, autoSeal, publishing, socketVars>>

\* The second grace is over too: the networks are closed under what still runs.
Overruns ==
  /\ stopped = "killing" /\ Awaiting
  /\ Close("overrun")

-----------------------------------------------------------------------------
Loop(n) == TickStarts(n) \/ TickLater(n) \/ SyncReports(n) \/ ReportDone(n) \/ TickFails(n)
Serve(r) == SessionOpen(r) \/ SessionClose(r) \/ Dispatch(r) \/ RequestFails(r) \/ RequestDone(r)

DaemonNext ==
  \/ StartDaemon
  \/ \E n \in Networks : Loop(n)
  \/ SealEnds
  \/ \E c \in Connections :
       \/ Connect(c) \/ Disconnect(c)
       \/ \E method \in Methods, n \in Networks, due \in BOOLEAN : Receive(c, method, n, due)
  \/ \E r \in requests : Serve(r)
  \/ PresenceTimerFires \/ PublishEnds
  \/ Stop \/ Settles \/ GraceExpires \/ Overruns

DaemonSpec == DaemonInit /\ [][DaemonNext]_daemonVars

\* Timers fire and what is awaited ends; nothing makes clients or signals come.
DaemonFairness ==
  /\ \A n \in Networks :
       WF_daemonVars(TickStarts(n)) /\ WF_daemonVars(SyncReports(n) \/ ReportDone(n) \/ TickFails(n))
  /\ WF_daemonVars(PresenceTimerFires)
  /\ WF_daemonVars(Settles \/ GraceExpires \/ Overruns)

DaemonFairSpec == DaemonSpec /\ DaemonFairness

-----------------------------------------------------------------------------
\* "Stop, and resolve only once nothing this daemon started is still running", as far
\* as the code goes: when both graces were enough, no sync of a loop, no seal and no
\* request that stop found in flight runs on after the networks are closed, and no
\* seal or sync starts then.  (What it lets through: requests that an open connection
\* sends during the grace, and a publishPresence, which nothing tracks.)
QuietAfterStop ==
  stopped = "quiet" =>
    /\ autoSeal = Nothing
    /\ \A n \in Networks : syncing[n] = "idle" /\ timer[n] = "none"
    /\ \A r \in requests : ~r.awaited

\* A wake, however it falls between the steps of a running sync, is followed by a
\* sync that starts after it, or the daemon stops.
WakeIsServed == \A n \in Networks : owed[n] ~> ~owed[n]

SessionChanges == sessions' # sessions

\* Once sessions stop coming and going, an arrival that was not published is, unless
\* nobody is attached any more: no departure of another session drops it.
SettledArrivalIsPublished ==
  <>[][~SessionChanges]_daemonVars => (unpublished ~> ~unpublished)

=============================================================================
