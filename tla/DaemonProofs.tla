----------------------------- MODULE DaemonProofs -----------------------------
(***************************************************************************)
(* The daemon, for any number of networks, connections, requests,          *)
(* processes, stop commands, syncs, tasks and activations an hour: what it *)
(* leaves behind when it stops, who is at the socket of a home, and what   *)
(* its reports start and announce.                                         *)
(*                                                                         *)
(* That a stopped daemon is quiet needs to be known of the commands that   *)
(* still wait: which process they wait for.  That a serving one stays at   *)
(* the path needs that nobody else is left who may unlink it.  The bound   *)
(* on the agents started rests on the daemon's own list, which forgets     *)
(* none of the last hour.                                                  *)
(***************************************************************************)
EXTENDS Daemon, Endpoint, Reports, TLAPS

-----------------------------------------------------------------------------
\* One process and its stop.
\* Once it stops, no loop is scheduled again, no seal starts, and the one that runs is waited for.
StopHolds ==
  stopped \in {"grace", "killing", "quiet", "overrun"} =>
    /\ \A n \in Networks : ~running[n]
    /\ stopped \in {"grace", "killing"} => autoSeal = Nothing \/ sealAwaited

DaemonInv == DaemonTypeOK /\ StopHolds /\ QuietAfterStop

\* A timer only moves while its loop runs.
LEMMA WakesAreScheduled ==
  ASSUME DaemonTypeOK, NEW N, Wake(N)
  PROVE  /\ timer' \in [Networks -> {"none", "now", "second", "cadence"}]
         /\ owed' \in [Networks -> BOOLEAN]
         /\ \A n \in Networks : /\ timer'[n] # "none" => running[n]
                                /\ ~running[n] => timer'[n] = timer[n]
BY DEF Wake, Scheduled, DaemonTypeOK

LEMMA ChangesAreScheduled ==
  ASSUME DaemonTypeOK, NEW registered, SessionChanged(registered)
  PROVE  /\ timer' \in [Networks -> {"none", "now", "second", "cadence"}]
         /\ owed' \in [Networks -> BOOLEAN] /\ presenceTimer' \in BOOLEAN
         /\ \A n \in Networks : /\ timer'[n] # "none" => running[n]
                                /\ ~running[n] => timer'[n] = timer[n]
BY WakesAreScheduled DEF SessionChanged, DaemonTypeOK

\* What stop waits for.
LEMMA AwaitsRequests ==
  ASSUME DaemonTypeOK, Await
  PROVE  requests' \subseteq Request /\ sealAwaited' = (autoSeal # Nothing)
<1>1. \A r \in Request : [r EXCEPT !.awaited = TRUE] \in Request
  BY DEF Request
<1> QED
  BY <1>1 DEF Await, DaemonTypeOK

LEMMA DaemonInvNext == DaemonInv /\ [DaemonNext]_daemonVars => DaemonInv'
<1> SUFFICES ASSUME DaemonInv, [DaemonNext]_daemonVars
             PROVE  DaemonInv'
  OBVIOUS
<1> USE DaemonAssumption DEF DaemonInv, DaemonTypeOK, StopHolds, QuietAfterStop, Optional, Request,
        loopVars, sealVars, socketVars
<1>1. CASE UNCHANGED daemonVars
  BY <1>1 DEF daemonVars
<1>2. CASE StartDaemon
  BY <1>2 DEF StartDaemon
<1>3. ASSUME NEW n \in Networks, TickStarts(n)
      PROVE  DaemonInv'
  BY <1>3 DEF TickStarts
<1>4. ASSUME NEW n \in Networks, TickLater(n)
      PROVE  DaemonInv'
  BY <1>4 DEF TickLater
<1>5. ASSUME NEW n \in Networks, SyncReports(n)
      PROVE  DaemonInv'
  BY <1>5 DEF SyncReports
<1>6. ASSUME NEW n \in Networks, ReportDone(n)
      PROVE  DaemonInv'
  BY <1>6 DEF ReportDone, MaybeSeal, TickEnds, Scheduled
<1>7. ASSUME NEW n \in Networks, TickFails(n)
      PROVE  DaemonInv'
  BY <1>7 DEF TickFails, TickEnds, Scheduled
<1>8. CASE SealEnds
  BY <1>8 DEF SealEnds
<1>9. ASSUME NEW c \in Connections, Connect(c)
      PROVE  DaemonInv'
  BY <1>9 DEF Connect
<1>10. ASSUME NEW c \in Connections, Disconnect(c)
      PROVE  DaemonInv'
  <2>1. CASE declared[c] # Nothing
    <3> DEFINE left == [sessions EXCEPT ![c] = Nothing]
    <3>1. sessions' = left /\ SessionChanged(left) /\ Noted(left, FALSE)
      BY <1>10, <2>1 DEF Disconnect
    <3>2. left \in [Connections -> Networks \cup {Nothing}]
      OBVIOUS
    <3> HIDE DEF left
    <3> QED BY <1>10, <3>1, <3>2, ChangesAreScheduled DEF Disconnect, Noted
  <2>2. CASE declared[c] = Nothing
    BY <1>10, <2>2 DEF Disconnect
  <2> QED BY <2>1, <2>2
<1>11. ASSUME NEW c \in Connections, NEW method \in Methods, NEW n \in Networks,
              NEW due \in BOOLEAN,
              Receive(c, method, n, due)
      PROVE  DaemonInv'
  <2> DEFINE r == [from |-> c, method |-> method, network |-> n, phase |-> "refreshing",
             awaited |-> FALSE]
  <2>1. r \in Request /\ ~r.awaited
    BY DEF Methods
  <2>2. requests' = requests \cup {r}
    BY <1>11 DEF Receive
  <2> HIDE DEF r, Request
  <2>3. CASE due
    <3>1. Wake(Networks)
      BY <1>11, <2>3 DEF Receive
    <3> QED BY <1>11, <2>1, <2>2, <3>1, WakesAreScheduled DEF Receive
  <2>4. CASE ~due
    BY <1>11, <2>1, <2>2, <2>4 DEF Receive
  <2> QED BY <2>3, <2>4
<1>12. ASSUME NEW r \in requests, SessionOpen(r)
      PROVE  DaemonInv'
  BY <1>12, ChangesAreScheduled DEF SessionOpen, Refreshed, Mark, Noted, Served, Closed
<1>13. ASSUME NEW r \in requests, SessionClose(r)
      PROVE  DaemonInv'
  BY <1>13, ChangesAreScheduled DEF SessionClose, Refreshed, Mark, Noted, Ended
<1>14. ASSUME NEW r \in requests, Dispatch(r)
      PROVE  DaemonInv'
  BY <1>14 DEF Dispatch, Refreshed, Served
<1>15. ASSUME NEW r \in requests, RequestFails(r)
      PROVE  DaemonInv'
  BY <1>15 DEF RequestFails, Ended
<1>16. ASSUME NEW r \in requests, RequestDone(r)
      PROVE  DaemonInv'
  BY <1>16, WakesAreScheduled DEF RequestDone, Ended
<1>17. CASE PresenceTimerFires
  BY <1>17 DEF PresenceTimerFires
<1>18. CASE PublishEnds
  BY <1>18 DEF PublishEnds
<1>19. CASE Stop
  BY <1>19, AwaitsRequests DEF Stop
<1>20. CASE Settles
  BY <1>20 DEF Settles, Close, Awaiting
<1>21. CASE GraceExpires
  BY <1>21, AwaitsRequests DEF GraceExpires
<1>22. CASE Overruns
  BY <1>22 DEF Overruns, Close
<1> HIDE DEF DaemonInv
<1>23. ASSUME NEW n \in Networks, Loop(n)
       PROVE  DaemonInv'
  BY <1>3, <1>4, <1>5, <1>6, <1>7, <1>23 DEF Loop
<1>24. ASSUME NEW r \in requests, Serve(r)
       PROVE  DaemonInv'
  BY <1>12, <1>13, <1>14, <1>15, <1>16, <1>24 DEF Serve
<1> QED
  BY <1>1, <1>2, <1>8, <1>9, <1>10, <1>11, <1>17, <1>18, <1>19, <1>20, <1>21, <1>22, <1>23, <1>24
     DEF DaemonNext

LEMMA DaemonInvHolds == DaemonSpec => []DaemonInv
<1>1. DaemonInit => DaemonInv
  <2> SUFFICES ASSUME DaemonInit
               PROVE  DaemonInv
    OBVIOUS
  <2>1. running \in [Networks -> BOOLEAN] /\ owed \in [Networks -> BOOLEAN]
    BY DEF DaemonInit
  <2>2. DaemonTypeOK
    BY <2>1 DEF DaemonInit, DaemonTypeOK, Optional
  <2> QED
    BY <2>2 DEF DaemonInit, DaemonInv, StopHolds, QuietAfterStop
<1> QED
  BY <1>1, DaemonInvNext, PTL DEF DaemonSpec

\* Every value stays what the code takes it for, and no timer outlives its loop.
THEOREM DaemonTyped == DaemonSpec => []DaemonTypeOK
<1>1. DaemonInv => DaemonTypeOK
  BY DEF DaemonInv
<1> QED
  BY <1>1, DaemonInvHolds, PTL

\* Whatever the connections, the loops and a seal are in the middle of when it stops: if both graces
\* were enough, none of it runs on.
THEOREM DaemonIsQuiet == DaemonSpec => []QuietAfterStop
<1>1. DaemonInv => QuietAfterStop
  BY DEF DaemonInv
<1> QED
  BY <1>1, DaemonInvHolds, PTL

-----------------------------------------------------------------------------
\* The socket of a home.
\* Type correctness, for every set of daemons and commands.
THEOREM EndpointTyped == EndpointSpec => []EndpointTypeOK
<1>1. EndpointInit => EndpointTypeOK
  BY DEF EndpointInit, EndpointTypeOK, Lives, Askings
<1>2. EndpointTypeOK /\ [EndpointNext]_endpointVars => EndpointTypeOK'
  <2> SUFFICES ASSUME EndpointTypeOK, [EndpointNext]_endpointVars
               PROVE  EndpointTypeOK'
    OBVIOUS
  <2> USE DEF EndpointTypeOK, Lives, Askings, Becomes, Commands, Says, Unlinks
  <2>1. CASE UNCHANGED endpointVars
    BY <2>1 DEF endpointVars
  <2>2. ASSUME NEW d \in Daemons, StartUp(d)
        PROVE  EndpointTypeOK'
    <3>1. CASE ProbeTimesOut(d) BY <3>1 DEF ProbeTimesOut, Answers
    <3>2. CASE Bind(d)
      <4>1. exposed' \in SUBSET Daemons
        BY <3>2 DEF Bind
      <4>2. life' \in [Daemons -> Lives] /\ path' \in Daemons \cup {NoSocket} /\ UNCHANGED Commands
        BY <3>2 DEF Bind
      <4> QED BY <4>1, <4>2
    <3>3. CASE Launch(d) \/ Probe(d) \/ ClearPath(d)
      BY <3>3 DEF Launch, Probe, ClearPath
    <3> QED BY <2>2, <3>1, <3>2, <3>3 DEF StartUp
  <2>3. ASSUME NEW d \in Daemons, ShutDown(d)
        PROVE  EndpointTypeOK'
    BY <2>3 DEF ShutDown, CloseServer, UnlinkPath, DestroySockets, EndDaemon
  <2>4. ASSUME NEW k \in StopCommands, StopCommand(k)
        PROVE  EndpointTypeOK'
    <3>1. CASE StopConnects(k) BY <3>1 DEF StopConnects, Answers
    <3>2. CASE StopFindsNone(k) BY <3>2 DEF StopFindsNone
    <3>3. CASE StopIsHeard(k)
      <4>1. CASE life[asked[k]] = "serving" BY <3>3, <4>1 DEF StopIsHeard
      <4>2. CASE life[asked[k]] # "serving" BY <3>3, <4>2 DEF StopIsHeard
      <4> QED BY <4>1, <4>2
    <3>4. CASE StopIsCutOff(k) BY <3>4 DEF StopIsCutOff
    <3>5. CASE StopReports(k) BY <3>5 DEF StopReports
    <3>6. CASE StopTimesOut(k) BY <3>6 DEF StopTimesOut
    <3> QED BY <2>4, <3>1, <3>2, <3>3, <3>4, <3>5, <3>6 DEF StopCommand
  <2> QED
    BY <2>1, <2>2, <2>3, <2>4 DEF EndpointNext
<1> QED
  BY <1>1, <1>2, PTL DEF EndpointSpec

-----------------------------------------------------------------------------
\* What a stop command knows: it has spoken to a daemon that was serving; while it waits
\* it knows the process, or has seen its connection destroyed.
Left == {"closed", "gone"}
Knows(k) ==
  /\ asking[k] \in {"none", "connected"} => pid[k] = NoPid
  /\ asking[k] \in {"connected", "waiting", "stopped", "still running"} =>
       asked[k] \in Daemons /\ life[asked[k]] \in {"serving", "closing", "stopping"} \cup Left
  /\ asking[k] = "waiting" => pid[k] = asked[k] \/ (pid[k] = NoPid /\ life[asked[k]] \in Left)
  /\ asking[k] = "stopped" => life[asked[k]] \in Left
CommandsKnow == \A k \in StopCommands : Knows(k)

\* A daemon only goes on towards its end.
LEMMA DaemonGoesOn ==
  ASSUME EndpointTypeOK, CommandsKnow, NEW d \in Daemons, NEW stage \in Lives,
         life[d] \in Left => stage \in Left,
         life[d] \in {"serving", "closing", "stopping"} =>
           stage \in {"serving", "closing", "stopping"} \cup Left,
         Becomes(d, stage)
  PROVE  \A k \in StopCommands : UNCHANGED <<asking[k], asked[k], pid[k]>> => Knows(k)'
BY DEF CommandsKnow, Knows, Becomes, EndpointTypeOK, Left

LEMMA CommandsKnowAlways == EndpointSpec => []CommandsKnow
<1>1. EndpointInit => CommandsKnow
  BY DEF EndpointInit, CommandsKnow, Knows
<1>2. EndpointTypeOK /\ CommandsKnow /\ [EndpointNext]_endpointVars => CommandsKnow'
  <2> SUFFICES ASSUME EndpointTypeOK, CommandsKnow, [EndpointNext]_endpointVars
               PROVE  CommandsKnow'
    OBVIOUS
  <2>1. CASE UNCHANGED endpointVars
    BY <2>1 DEF endpointVars, CommandsKnow, Knows
  <2>2. ASSUME NEW d \in Daemons, StartUp(d) \/ ShutDown(d)
        PROVE  CommandsKnow'
    <3> USE DEF Lives, Left, Commands
    <3>1. ASSUME NEW stage \in Lives, Becomes(d, stage), UNCHANGED Commands,
                 life[d] \in Left => stage \in Left,
                 life[d] \in {"serving", "closing", "stopping"} =>
                   stage \in {"serving", "closing", "stopping"} \cup Left
          PROVE  CommandsKnow'
      BY <3>1, DaemonGoesOn DEF CommandsKnow
    <3>2. CASE StartUp(d)
      BY <3>1, <3>2 DEF StartUp, Launch, Probe, ProbeTimesOut, ClearPath, Bind
    <3>3. CASE ShutDown(d)
      BY <3>1, <3>3 DEF ShutDown, CloseServer, UnlinkPath, DestroySockets, EndDaemon
    <3> QED BY <2>2, <3>2, <3>3
  <2>3. ASSUME NEW k \in StopCommands, StopCommand(k), NEW j \in StopCommands
        PROVE  Knows(j)'
    <3> USE DEF CommandsKnow, Knows, EndpointTypeOK, Says, Left
    <3>1. CASE StopIsHeard(k)
      <4>1. asked[k] \in Daemons
        BY <3>1 DEF StopIsHeard
      <4>2. CASE life[asked[k]] = "serving"
        BY <3>1, <4>1, <4>2 DEF StopIsHeard, Becomes
      <4>3. CASE life[asked[k]] # "serving"
        BY <3>1, <4>1, <4>3 DEF StopIsHeard, Talks
      <4> QED BY <4>2, <4>3
    <3>2. CASE StopConnects(k)
      BY <3>2, EndpointAssumption DEF StopConnects, Answers
    <3>3. CASE StopFindsNone(k)
      BY <3>3 DEF StopFindsNone
    <3>4. CASE StopIsCutOff(k)
      <4>1. asked[k] \in Daemons /\ life[asked[k]] \in Left
        BY <3>4 DEF StopIsCutOff, Talks
      <4> QED BY <3>4, <4>1 DEF StopIsCutOff
    <3>5. CASE StopReports(k)
      <4>1. life[asked[k]] \in Left
        BY <3>5, EndpointAssumption DEF StopReports, HasStopped
      <4> QED BY <3>5, <4>1 DEF StopReports
    <3>6. CASE StopTimesOut(k)
      BY <3>6 DEF StopTimesOut
    <3> QED BY <2>3, <3>1, <3>2, <3>3, <3>4, <3>5, <3>6 DEF StopCommand
  <2> QED
    BY <2>1, <2>2, <2>3 DEF EndpointNext, CommandsKnow
<1> QED
  BY <1>1, <1>2, EndpointTyped, PTL DEF EndpointSpec

\* "Return once its PROCESS is gone": stop never reports it of a daemon that still works.
THEOREM StoppedStaysQuiet == EndpointSpec => []StoppedIsQuiet
<1>1. CommandsKnow => StoppedIsQuiet
  BY DEF CommandsKnow, Knows, Left, StoppedIsQuiet
<1> QED
  BY <1>1, CommandsKnowAlways, PTL

-----------------------------------------------------------------------------
\* A daemon that is not exposed has the path, and nobody else is left who may unlink it.
Alone == \A d \in Serving \ exposed : path = d /\ \A e \in Daemons \ {d} : ~MayUnlink(e)

\* Whoever is on its way to nothing at the path changes nothing for the others.
LEMMA PassesBy ==
  ASSUME EndpointTypeOK, Alone, NEW d \in Daemons,
         NEW stage \in Lives \ {"clearing", "serving", "closing"},
         Becomes(d, stage), UNCHANGED <<path, exposed>>
  PROVE  Alone'
<1> SUFFICES ASSUME NEW e \in Serving' \ exposed
             PROVE  path = e /\ \A f \in Daemons \ {e} : ~MayUnlink(f)'
  BY DEF Alone
<1>1. e \in Serving
  BY DEF Serving, Becomes, EndpointTypeOK
<1>2. path = e /\ \A f \in Daemons \ {e} : ~MayUnlink(f)
  BY <1>1 DEF Alone
<1>3. \A f \in Daemons : life'[f] \in {life[f], stage}
  BY DEF Becomes, EndpointTypeOK
<1>4. \A f \in Daemons \ {e} : ~MayUnlink(f)'
  BY <1>2, <1>3 DEF MayUnlink
<1> QED
  BY <1>2, <1>4

\* Who unlinks the path could do so before, and so leaves no serving daemon that is not exposed.
LEMMA UnlinksAlone ==
  ASSUME EndpointTypeOK, Alone, NEW d \in Daemons, NEW stage \in Lives \ {"serving"},
         MayUnlink(d), Becomes(d, stage), UNCHANGED exposed
  PROVE  Alone'
<1> SUFFICES ASSUME NEW e \in Serving' \ exposed
             PROVE  FALSE
  BY DEF Alone
<1>1. e \in Serving /\ e # d
  BY DEF Serving, Becomes, EndpointTypeOK
<1> QED
  BY <1>1 DEF Alone

\* A daemon finds nobody at the path only where nobody serves there, or a probe has timed out.
LEMMA FindsNobody ==
  ASSUME EndpointTypeOK, Alone, NEW d \in Daemons, life[d] = "probing", Becomes(d, "clearing"),
         UNCHANGED path,
         \/ ~Answers /\ UNCHANGED exposed
         \/ Answers /\ exposed' = exposed \cup {path}
  PROVE  Alone'
<1> SUFFICES ASSUME NEW e \in Serving' \ exposed'
             PROVE  FALSE
  BY DEF Alone
<1>1. e \in Serving \ exposed
  BY DEF Serving, Becomes, EndpointTypeOK
<1>2. path = e /\ life[e] = "serving" /\ e # NoSocket
  BY <1>1, EndpointAssumption DEF Alone, Serving
<1> QED
  BY <1>2 DEF Answers

\* Who binds finds no socket, and is exposed unless nobody else may unlink its own.
LEMMA BindsAlone ==
  ASSUME EndpointTypeOK, Alone, NEW d \in Daemons, Bind(d), path = NoSocket
  PROVE  Alone'
<1>1. path' = d /\ life' = [life EXCEPT ![d] = "serving"] /\ exposed \subseteq exposed'
  BY DEF Bind, Becomes
<1> SUFFICES ASSUME NEW e \in Serving' \ exposed'
             PROVE  path' = e /\ \A f \in Daemons \ {e} : ~MayUnlink(f)'
  BY DEF Alone
<1>2. e = d
  <2>1. ASSUME e # d PROVE FALSE
    <3>1. e \in Serving \ exposed
      BY <1>1, <2>1 DEF Serving, EndpointTypeOK
    <3> QED BY <3>1, EndpointAssumption DEF Alone, Serving
  <2> QED BY <2>1
<1>3. \A f \in Daemons \ {e} : ~MayUnlink(f)
  <2>1. exposed' = IF \E f \in Daemons \ {d} : MayUnlink(f) THEN exposed \cup {d} ELSE exposed
    BY DEF Bind
  <2> QED BY <1>2, <2>1
<1>4. \A f \in Daemons \ {e} : life'[f] = life[f]
  BY <1>1, <1>2 DEF EndpointTypeOK
<1>5. \A f \in Daemons \ {e} : ~MayUnlink(f)'
  BY <1>3, <1>4 DEF MayUnlink
<1> QED
  BY <1>1, <1>2, <1>5

\* Over starts, stops, deaths and their debris, for any number of daemons and stop commands: a
\* daemon that serves is at the path and alone, unless another that could still unlink the path
\* was there when it bound, or a probe of it timed out.
THEOREM ServingStaysReachable == EndpointSpec => []ServingIsReachable
<1>1. EndpointInit => Alone
  BY DEF EndpointInit, Alone, Serving
<1>2. EndpointTypeOK /\ CommandsKnow /\ Alone /\ [EndpointNext]_endpointVars => Alone'
  <2> SUFFICES ASSUME EndpointTypeOK, CommandsKnow, Alone, [EndpointNext]_endpointVars
               PROVE  Alone'
    OBVIOUS
  <2>1. ASSUME UNCHANGED <<path, life, exposed>>
        PROVE  Alone'
    BY <2>1 DEF Alone, Serving, MayUnlink
  <2>2. ASSUME NEW d \in Daemons, StartUp(d)
        PROVE  Alone'
    <3>1. CASE Launch(d) BY <3>1, PassesBy DEF Launch, Lives
    <3>2. CASE Probe(d)
      <4>1. CASE Answers BY <3>2, <4>1, PassesBy DEF Probe, Lives
      <4>2. CASE ~Answers BY <3>2, <4>2, FindsNobody DEF Probe
      <4> QED BY <4>1, <4>2
    <3>3. CASE ProbeTimesOut(d) BY <3>3, FindsNobody DEF ProbeTimesOut
    <3>4. CASE ClearPath(d) BY <3>4, UnlinksAlone DEF ClearPath, MayUnlink, Lives
    <3>5. CASE Bind(d)
      <4>1. CASE path = NoSocket BY <3>5, <4>1, BindsAlone
      <4>2. CASE path # NoSocket BY <3>5, <4>2, PassesBy DEF Bind, Lives
      <4> QED BY <4>1, <4>2
    <3> QED BY <2>2, <3>1, <3>2, <3>3, <3>4, <3>5 DEF StartUp
  <2>3. ASSUME NEW d \in Daemons, ShutDown(d)
        PROVE  Alone'
    <3>1. CASE CloseServer(d) BY <3>1, UnlinksAlone DEF CloseServer, MayUnlink, Lives
    <3>2. CASE UnlinkPath(d) BY <3>2, UnlinksAlone DEF UnlinkPath, MayUnlink, Lives
    <3>3. CASE DestroySockets(d) BY <3>3, PassesBy DEF DestroySockets, Lives
    <3>4. CASE EndDaemon(d) BY <3>4, PassesBy DEF EndDaemon, Lives
    <3> QED BY <2>3, <3>1, <3>2, <3>3, <3>4 DEF ShutDown
  <2>4. ASSUME NEW k \in StopCommands, StopCommand(k)
        PROVE  Alone'
    <3>1. CASE StopIsHeard(k) /\ life[asked[k]] = "serving"
      <4>1. asked[k] \in Daemons
        BY <3>1 DEF StopIsHeard, CommandsKnow, Knows
      <4> QED BY <3>1, <4>1, UnlinksAlone DEF StopIsHeard, MayUnlink, Lives
    <3>2. CASE ~(StopIsHeard(k) /\ life[asked[k]] = "serving")
      BY <2>4, <3>2, <2>1 DEF StopCommand, StopConnects, StopFindsNone, StopIsHeard, StopIsCutOff,
         StopReports, StopTimesOut
    <3> QED BY <3>1, <3>2
  <2> QED
    BY <2>1, <2>2, <2>3, <2>4 DEF EndpointNext, endpointVars
<1>3. EndpointTypeOK /\ Alone => ServingIsReachable
  BY DEF Alone, ServingIsReachable, Serving, MayUnlink
<1> QED
  BY <1>1, <1>2, <1>3, CommandsKnowAlways, EndpointTyped, PTL DEF EndpointSpec

-----------------------------------------------------------------------------
\* The reports of a sync.
\* Type correctness, for every set of syncs and tasks.
THEOREM ReportsTyped == ReportSpec => []ReportTypeOK
<1>1. ReportInit => ReportTypeOK
  <2> SUFFICES ASSUME ReportInit PROVE ReportTypeOK
    OBVIOUS
  <2>1. health \in [Tasks -> Healths]
    BY DEF ReportInit, Healths
  <2>2. reporting \in [Syncs -> Report \cup {NoReport}]
    BY DEF ReportInit
  <2> QED BY <2>1, <2>2 DEF ReportInit, ReportTypeOK
<1>2. ReportTypeOK /\ [ReportNext]_reportVars => ReportTypeOK'
  <2> SUFFICES ASSUME ReportTypeOK, [ReportNext]_reportVars
               PROVE  ReportTypeOK'
    OBVIOUS
  <2> USE DEF ReportTypeOK, surroundings, stalls
  <2>1. CASE UNCHANGED reportVars
    BY <2>1 DEF reportVars
  <2>2. ASSUME NEW k \in Syncs, NEW to, to = NoReport \/ to \in Report, Moves(k, to)
        PROVE  reporting' \in [Syncs -> Report \cup {NoReport}]
    BY <2>2 DEF Moves
  <2>3. ASSUME NEW k \in Syncs, Reacts(k)
        PROVE  ReportTypeOK'
    <3>1. ASSUME NEW delivery \in Deliveries, Stage(k, delivery)
          PROVE  ReportTypeOK'
      BY <3>1, <2>2 DEF Stage, Report
    <3>2. ASSUME NEW step \in {"notifying", "deciding", "reported", "scanning"},
                 To(k, step)
          PROVE  reporting' \in [Syncs -> Report \cup {NoReport}]
      BY <3>2, <2>2 DEF To, Report
    <3>3. CASE Notify(k) BY <3>3, <3>2 DEF Notify
    <3>4. CASE Notified(k) BY <3>4, <3>2 DEF Notified
    <3>5. CASE Decide(k)
      <4>1. recent' \in Nat /\ invoked' \in Nat
        BY <3>5 DEF Decide, Remembered
      <4> QED BY <3>5, <3>2, <4>1 DEF Decide
    <3>6. CASE DecideFails(k) BY <3>6, <2>2 DEF DecideFails
    <3>7. CASE Scan(k) BY <3>7, <3>2, <2>2 DEF Scan
    <3>8. CASE ScanFinds(k)
      <4>1. Stalled \subseteq Facts /\ News \subseteq Facts
        BY DEF Stalled, News
      <4> QED BY <3>8, <2>2, <4>1 DEF ScanFinds, Report
    <3>9. CASE ScanFails(k) BY <3>9, <2>2 DEF ScanFails
    <3>10. ASSUME At(k, "telling")
           PROVE  reporting[k].facts \subseteq Facts
      BY <3>10 DEF At, Report
    <3>11. CASE ScanTells(k) BY <3>10, <3>11, <2>2 DEF ScanTells
    <3>12. CASE TellFails(k) BY <3>10, <3>12, <2>2 DEF TellFails
    <3> QED
      BY <2>3, <3>1, <3>3, <3>4, <3>5, <3>6, <3>7, <3>8, <3>9, <3>11, <3>12 DEF Reacts
  <2>4. ASSUME NEW t \in Tasks, NEW h \in Healths, HealthChanges(t, h)
        PROVE  ReportTypeOK'
    BY <2>4 DEF HealthChanges
  <2>5. CASE AgentComesOrGoes BY <2>5 DEF AgentComesOrGoes
  <2>6. CASE PersonSetsActivation BY <2>6 DEF PersonSetsActivation
  <2>7. CASE IntervalPasses BY <2>7 DEF IntervalPasses
  <2>8. CASE HourPasses BY <2>8 DEF HourPasses
  <2>9. CASE DaemonRestarts
    <3>1. Telling \subseteq Facts
      BY DEF Telling, At, Report
    <3> QED BY <2>9, <3>1 DEF DaemonRestarts
  <2> QED
    BY <2>1, <2>3, <2>4, <2>5, <2>6, <2>7, <2>8, <2>9 DEF ReportNext
<1> QED
  BY <1>1, <1>2, PTL DEF ReportSpec

-----------------------------------------------------------------------------
\* The list of the last hour holds every agent that was started in it, and no more than
\* the policy allows.
ListIsComplete == invoked <= recent /\ recent <= MaxPerHour

\* One daemon process never starts more agents in an hour than its policy says, however
\* many reports overlap in the await of the policy.
THEOREM ActivationsStayBounded == ReportSpec => []ActivationsAreBounded
<1>1. ReportInit => ListIsComplete
  BY ReportAssumption DEF ReportInit, ListIsComplete
<1>2. ReportTypeOK /\ ListIsComplete /\ [ReportNext]_reportVars => ListIsComplete'
  <2> SUFFICES ASSUME ReportTypeOK, ListIsComplete, [ReportNext]_reportVars
               PROVE  ListIsComplete'
    OBVIOUS
  <2> USE ReportAssumption DEF ReportTypeOK, ListIsComplete
  <2>1. ASSUME UNCHANGED <<recent, invoked>>
        PROVE  ListIsComplete'
    BY <2>1
  <2>2. ASSUME NEW k \in Syncs, Decide(k)
        PROVE  ListIsComplete'
    BY <2>2 DEF Decide, Remembered
  <2>3. ASSUME NEW k \in Syncs, Reacts(k), ~Decide(k)
        PROVE  UNCHANGED <<recent, invoked>>
    BY <2>3 DEF Reacts, Stage, Notify, Notified, DecideFails, Scan, ScanFinds, ScanFails,
       ScanTells, TellFails
  <2>4. CASE HourPasses BY <2>4 DEF HourPasses
  <2>5. CASE DaemonRestarts BY <2>5 DEF DaemonRestarts
  <2>6. CASE AgentComesOrGoes \/ PersonSetsActivation \/ IntervalPasses \/ UNCHANGED reportVars
    BY <2>6 DEF AgentComesOrGoes, PersonSetsActivation, IntervalPasses, reportVars
  <2>7. ASSUME NEW t \in Tasks, NEW h \in Healths, HealthChanges(t, h)
        PROVE  ListIsComplete'
    BY <2>7 DEF HealthChanges
  <2> QED
    BY <2>1, <2>2, <2>3, <2>4, <2>5, <2>6, <2>7 DEF ReportNext
<1>3. ReportTypeOK /\ ListIsComplete => ActivationsAreBounded
  BY ReportAssumption DEF ReportTypeOK, ListIsComplete, ActivationsAreBounded
<1> QED
  BY <1>1, <1>2, <1>3, ReportsTyped, PTL DEF ReportSpec

-----------------------------------------------------------------------------
LEMMA InTelling ==
  ASSUME NEW f
  PROVE  f \in Telling <=> \E k \in Syncs : At(k, "telling") /\ f \in reporting[k].facts
BY DEF Telling

\* A step that leaves the facts alone leaves AnnouncedIsTold true, if it takes nobody off
\* the telling.
LEMMA TellingGoesOn ==
  ASSUME AnnouncedIsTold, UNCHANGED stalls,
         \A k \in Syncs : At(k, "telling") => reporting'[k] = reporting[k]
  PROVE  AnnouncedIsTold'
<1>1. ASSUME NEW f, f \in Telling PROVE f \in Telling'
  <2>1. PICK k \in Syncs : At(k, "telling") /\ f \in reporting[k].facts
    BY <1>1, InTelling
  <2>2. reporting'[k] = reporting[k]
    BY <2>1
  <2> QED BY <2>1, <2>2 DEF Telling, At
<1> QED
  BY <1>1 DEF AnnouncedIsTold, stalls

\* A fact recorded as reported was told, is being told, or its telling came to nothing.
THEOREM AnnouncedStaysTold == ReportSpec => []AnnouncedIsTold
<1>1. ReportInit => AnnouncedIsTold
  BY DEF ReportInit, AnnouncedIsTold
<1>2. ReportTypeOK /\ AnnouncedIsTold /\ [ReportNext]_reportVars => AnnouncedIsTold'
  <2> SUFFICES ASSUME ReportTypeOK, AnnouncedIsTold, [ReportNext]_reportVars
               PROVE  AnnouncedIsTold'
    OBVIOUS
  <2>1. ASSUME UNCHANGED <<reporting, stalls>>
        PROVE  AnnouncedIsTold'
    BY <2>1, TellingGoesOn
  <2>2. ASSUME NEW k \in Syncs, NEW to, ~At(k, "telling"), Moves(k, to), UNCHANGED stalls
        PROVE  AnnouncedIsTold'
    <3>1. \A j \in Syncs : At(j, "telling") => reporting'[j] = reporting[j]
      BY <2>2 DEF Moves, ReportTypeOK
    <3> QED BY <2>2, <3>1, TellingGoesOn
  <2>3. ASSUME NEW k \in Syncs, Reacts(k)
        PROVE  AnnouncedIsTold'
    <3>1. CASE ScanFinds(k)
      <4> SUFFICES ASSUME NEW f \in announced'
                   PROVE  f \in told' \cup lost' \cup Telling'
        BY DEF AnnouncedIsTold
      <4>1. f \in Stalled /\ told' = told \cap Stalled /\ lost' = lost \cap Stalled
        BY <3>1 DEF ScanFinds
      <4>2. CASE f \in announced
        <5>1. CASE f \in told \cup lost
          BY <4>1, <5>1
        <5>2. CASE f \in Telling
          <6>1. PICK j \in Syncs : At(j, "telling") /\ f \in reporting[j].facts
            BY <5>2, InTelling
          <6>2. j # k
            BY <3>1, <6>1 DEF ScanFinds, At
          <6>3. reporting'[j] = reporting[j]
            <7>1. CASE News = {}
              BY <3>1, <6>2, <7>1 DEF ScanFinds, Moves, ReportTypeOK
            <7>2. CASE News # {}
              BY <3>1, <6>2, <7>2 DEF ScanFinds, Moves, ReportTypeOK
            <7> QED BY <7>1, <7>2
          <6> QED BY <6>1, <6>3 DEF Telling, At
        <5> QED BY <4>2, <5>1, <5>2 DEF AnnouncedIsTold
      <4>3. CASE f \notin announced
        <5>1. f \in News
          BY <4>1, <4>3 DEF News
        <5>2. Moves(k, [step |-> "telling", facts |-> News])
          BY <3>1, <5>1 DEF ScanFinds
        <5>3. reporting'[k] = [step |-> "telling", facts |-> News]
          BY <5>2 DEF Moves, ReportTypeOK
        <5>4. [step |-> "telling", facts |-> News] # NoReport
          BY ReportAssumption, <4>1, <5>1 DEF Report, News, Stalled
        <5> QED BY <5>1, <5>3, <5>4 DEF Telling, At
      <4> QED BY <4>2, <4>3
    <3>2. ASSUME At(k, "telling"), Moves(k, NoReport), announced' = announced,
                 told \cup lost \cup reporting[k].facts \subseteq told' \cup lost'
          PROVE  AnnouncedIsTold'
      <4> SUFFICES ASSUME NEW f \in announced, f \notin told' \cup lost'
                   PROVE  f \in Telling'
        BY <3>2 DEF AnnouncedIsTold
      <4>1. f \in Telling
        BY <3>2 DEF AnnouncedIsTold
      <4>2. PICK j \in Syncs : At(j, "telling") /\ f \in reporting[j].facts
        BY <4>1, InTelling
      <4>3. j # k
        BY <3>2, <4>2
      <4>4. reporting'[j] = reporting[j]
        BY <3>2, <4>3 DEF Moves
      <4> QED BY <4>2, <4>4 DEF Telling, At
    <3>3. CASE ScanTells(k) BY <3>2, <3>3 DEF ScanTells
    <3>4. CASE TellFails(k) BY <3>2, <3>4 DEF TellFails
    <3>5. ASSUME NEW delivery \in Deliveries, Stage(k, delivery)
          PROVE  AnnouncedIsTold'
      BY <3>5, <2>2 DEF Stage, At
    <3>6. CASE Notify(k) BY <3>6, <2>2 DEF Notify, To, At
    <3>7. CASE Notified(k) BY <3>7, <2>2 DEF Notified, To, At
    <3>8. CASE Decide(k) BY <3>8, <2>2 DEF Decide, To, At
    <3>9. CASE DecideFails(k) BY <3>9, <2>2 DEF DecideFails, At
    <3>10. CASE Scan(k) BY <3>10, <2>2 DEF Scan, To, At
    <3>11. CASE ScanFails(k) BY <3>11, <2>2 DEF ScanFails, At
    <3> QED
      BY <2>3, <3>1, <3>3, <3>4, <3>5, <3>6, <3>7, <3>8, <3>9, <3>10, <3>11 DEF Reacts
  <2>4. CASE DaemonRestarts
    BY <2>4 DEF DaemonRestarts, AnnouncedIsTold
  <2>5. CASE AgentComesOrGoes \/ PersonSetsActivation \/ IntervalPasses \/ HourPasses
    BY <2>5, <2>1 DEF AgentComesOrGoes, PersonSetsActivation, IntervalPasses, HourPasses
  <2>6. CASE UNCHANGED reportVars
    BY <2>6, <2>1 DEF reportVars, stalls
  <2>7. ASSUME NEW t \in Tasks, NEW h \in Healths, HealthChanges(t, h)
        PROVE  AnnouncedIsTold'
    BY <2>7, <2>1 DEF HealthChanges
  <2> QED
    BY <2>3, <2>4, <2>5, <2>6, <2>7 DEF ReportNext
<1> QED
  BY <1>1, <1>2, ReportsTyped, PTL DEF ReportSpec

=============================================================================
