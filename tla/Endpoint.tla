-------------------------------- MODULE Endpoint --------------------------------
(***************************************************************************)
(* The socket of a home and the processes around it: daemons that start,   *)
(* find the socket of another one or its debris, bind, stop and die        *)
(* (packages/daemon/src/daemon.ts listen and shutdown, bin.ts, client.ts), *)
(* and the stop command (packages/cli/src/daemon-cmd.ts).                  *)
(*                                                                         *)
(* A step is one system call on the path, or one answer on a connection.   *)
(***************************************************************************)
EXTENDS Naturals, FiniteSets

CONSTANTS Daemons,       \* daemon processes, each of which starts at most once
          StopCommands,  \* runs of `komnet daemon stop`
          Busy,          \* the daemons whose event loop may be blocked for longer than a probe waits
          NoSocket, NoPid

VARIABLES path,      \* the daemon whose socket file is at the path
          life,      \* life[d]: how far d has got
          asking,    \* asking[k]: how far k has got
          asked,     \* asked[k]: the daemon at the other end of k's connection
          pid,       \* pid[k]: the process that k waits for
          exposed    \* history: the daemons whose socket another one may unlink

endpointVars == <<path, life, asking, asked, pid, exposed>>

Lives == {"off", "probing", "clearing", "binding", "serving", "closing", "stopping", "closed", "gone"}
Askings == {"none", "connected", "waiting", "stopped", "not running", "still running"}

\* Type invariant.
EndpointTypeOK ==
  /\ path \in Daemons \cup {NoSocket}
  /\ life \in [Daemons -> Lives]
  /\ asking \in [StopCommands -> Askings]
  /\ asked \in [StopCommands -> Daemons \cup {NoPid}]
  /\ pid \in [StopCommands -> Daemons \cup {NoPid}]
  /\ exposed \in SUBSET Daemons

ASSUME EndpointAssumption == Busy \subseteq Daemons /\ NoSocket \notin Daemons /\ NoPid \notin Daemons

EndpointInit ==
  /\ path = NoSocket
  /\ life = [d \in Daemons |-> "off"]
  /\ asking = [k \in StopCommands |-> "none"]
  /\ asked = [k \in StopCommands |-> NoPid]
  /\ pid = [k \in StopCommands |-> NoPid]
  /\ exposed = {}

Becomes(d, stage) == life' = [life EXCEPT ![d] = stage]
Commands == <<asking, asked, pid>>

\* Somebody answers at the path.
Answers == path # NoSocket /\ life[path] = "serving"

\* unlink of the path, whoever's socket is there.
Unlinks == path' = NoSocket

\* e is going to unlink the path, or will when it stops.
MayUnlink(e) == life[e] \in {"clearing", "serving", "closing"}

-----------------------------------------------------------------------------
\* komnetd starts: a person, daemonStart, or the supervisor.
Launch(d) ==
  /\ life[d] = "off"
  /\ Becomes(d, "probing")
  /\ UNCHANGED <<path, Commands, exposed>>

MutProbe(d) ==
  /\ life[d] = "probing"
  /\ Becomes(d, "clearing")
  /\ UNCHANGED <<path, Commands, exposed>>

\* isAlive: d gives up when a daemon answers its ping.
Probe(d) ==
  /\ life[d] = "probing"
  /\ Becomes(d, IF Answers THEN "gone" ELSE "clearing")
  /\ UNCHANGED <<path, Commands, exposed>>

\* The daemon at the path accepts and does not answer in time: nobody is alive.
ProbeTimesOut(d) ==
  /\ life[d] = "probing" /\ Answers /\ path \in Busy
  /\ Becomes(d, "clearing")
  /\ exposed' = exposed \cup {path}
  /\ UNCHANGED <<path, Commands>>

\* What is at the path is taken for debris.
ClearPath(d) ==
  /\ life[d] = "clearing"
  /\ Unlinks
  /\ Becomes(d, "binding")
  /\ UNCHANGED <<Commands, exposed>>

\* listen: a socket file that has appeared meanwhile makes it fail, and d exit.
Bind(d) ==
  /\ life[d] = "binding"
  /\ IF path = NoSocket
     THEN /\ path' = d /\ Becomes(d, "serving")
          /\ exposed' = IF \E e \in Daemons \ {d} : MayUnlink(e) THEN exposed \cup {d} ELSE exposed
     ELSE Becomes(d, "gone") /\ UNCHANGED <<path, exposed>>
  /\ UNCHANGED Commands

\* shutdown begins: closing the server removes its file.
CloseServer(d) ==
  /\ life[d] = "serving"
  /\ Unlinks
  /\ Becomes(d, "closing")
  /\ UNCHANGED <<Commands, exposed>>

\* And the path is unlinked once more.
UnlinkPath(d) ==
  /\ life[d] = "closing"
  /\ Unlinks
  /\ Becomes(d, "stopping")
  /\ UNCHANGED <<Commands, exposed>>

\* The work in flight has ended or its graces have: connections are destroyed.
DestroySockets(d) ==
  /\ life[d] = "stopping"
  /\ Becomes(d, "closed")
  /\ UNCHANGED <<path, Commands, exposed>>

\* The process ends, after stop or by a crash, which leaves the socket file.
EndDaemon(d) ==
  /\ life[d] \notin {"off", "gone"}
  /\ Becomes(d, "gone")
  /\ UNCHANGED <<path, Commands, exposed>>

-----------------------------------------------------------------------------
\* daemonStop.
Says(k, answer) == asking' = [asking EXCEPT ![k] = answer]

StopConnects(k) ==
  /\ asking[k] = "none" /\ Answers
  /\ Says(k, "connected")
  /\ asked' = [asked EXCEPT ![k] = path]
  /\ UNCHANGED <<path, life, pid, exposed>>

StopFindsNone(k) ==
  /\ asking[k] = "none" /\ ~Answers
  /\ Says(k, "not running")
  /\ UNCHANGED <<path, life, asked, pid, exposed>>

\* The connection lasts until the daemon destroys it, in the middle of stop too.
Talks(k) == life[asked[k]] \in {"serving", "closing", "stopping"}

\* ping is answered, and the daemon asked to stop.
StopIsHeard(k) ==
  /\ asking[k] = "connected" /\ Talks(k)
  /\ Says(k, "waiting")
  /\ pid' = [pid EXCEPT ![k] = asked[k]]
  /\ IF life[asked[k]] = "serving"
     THEN Unlinks /\ Becomes(asked[k], "closing")
     ELSE UNCHANGED <<path, life>>
  /\ UNCHANGED <<asked, exposed>>

\* The connection is lost before the answer to the ping.
StopIsCutOff(k) ==
  /\ asking[k] = "connected" /\ ~Talks(k)
  /\ Says(k, "waiting")
  /\ UNCHANGED <<path, life, asked, pid, exposed>>

MutHasStopped(k) == ~Answers

\* gone(): the process, where its pid is known, and the socket where it is not.
HasStopped(k) == IF pid[k] = NoPid THEN ~Answers ELSE life[pid[k]] = "gone"

\* A probe that times out finds no socket either.
StopReports(k) ==
  /\ asking[k] = "waiting"
  /\ HasStopped(k) \/ (pid[k] = NoPid /\ path \in Busy)
  /\ Says(k, "stopped")
  /\ UNCHANGED <<path, life, asked, pid, exposed>>

StopTimesOut(k) ==
  /\ asking[k] = "waiting" /\ ~HasStopped(k)
  /\ Says(k, "still running")
  /\ UNCHANGED <<path, life, asked, pid, exposed>>

-----------------------------------------------------------------------------
StartUp(d) == Launch(d) \/ Probe(d) \/ ProbeTimesOut(d) \/ ClearPath(d) \/ Bind(d)
ShutDown(d) == CloseServer(d) \/ UnlinkPath(d) \/ DestroySockets(d) \/ EndDaemon(d)
StopCommand(k) ==
  \/ StopConnects(k) \/ StopFindsNone(k) \/ StopIsHeard(k) \/ StopIsCutOff(k)
  \/ StopReports(k) \/ StopTimesOut(k)

EndpointNext ==
  \/ \E d \in Daemons : StartUp(d) \/ ShutDown(d)
  \/ \E k \in StopCommands : StopCommand(k)

EndpointSpec == EndpointInit /\ [][EndpointNext]_endpointVars

-----------------------------------------------------------------------------
Serving == {d \in Daemons : life[d] = "serving"}

\* A daemon that serves can be reached at the path and serves alone, over stops, deaths and
\* the debris they leave, unless it is exposed: when it bound, another one had found nobody
\* and not yet cleared the path, was serving without the path, or was between the two unlinks
\* of its stop; or a probe of it timed out.
ServingIsReachable == \A d \in Serving \ exposed : path = d /\ Serving = {d}

\* "If something answers, another daemon owns this home and we must not start a second one"
\* (listen in daemon.ts), of every daemon.
OneServes == \A d, e \in Serving : d = e

\* "Return once its PROCESS is gone": when the stop command says so, the daemon it
\* asked has no work left that it could be doing behind its caller's back.
StoppedIsQuiet ==
  \A k \in StopCommands : asking[k] = "stopped" => life[asked[k]] \in {"closed", "gone"}

=============================================================================
