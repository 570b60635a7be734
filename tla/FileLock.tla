------------------------------ MODULE FileLock ------------------------------
(***************************************************************************)
(* The per-network advisory lock of packages/core/src/lock.ts, as several  *)
(* processes of one machine use it: the daemon, the CLI in direct mode and *)
(* the MCP server.  FileLock.acquire is a loop of separate file-system     *)
(* calls, and every call is an action here, because another process may    *)
(* run between any two of them:                                            *)
(*                                                                         *)
(*   "try"     open(path, "wx")            "writing"  write the record     *)
(*   "judge"   isStale: readFile           "stat"     isStale: stat        *)
(*   "remove"  rm of a lock found stale    "wait"     sleep, or give up    *)
(*   "held"    inside withLock             "dead"     killed               *)
(*                                                                         *)
(* All processes are on one host, where liveness of the recorded pid (and  *)
(* the boot time) decides staleness; the age rule for another host's lock  *)
(* is not modelled.  A dead process does not come back: a restarted one is *)
(* another process.                                                        *)
(***************************************************************************)
CONSTANTS Procs,     \* uses of the lock: a process, or one of its concurrent calls
          NoFile     \* the path does not exist

VARIABLES file,       \* what is at the lock's path: NoFile or who created it
          call,       \* the next file-system call of each process
          misremoved  \* history: some rm deleted the lock another process was using

lockVars == <<file, call, misremoved>>

LockFile == [owner: Procs, written: BOOLEAN]
LockSteps == {"idle", "try", "writing", "judge", "stat", "remove", "wait", "held", "dead"}

ASSUME FileLockAssumption == NoFile \notin LockFile

\* Type invariant.
LockTypeOK ==
  /\ file \in LockFile \cup {NoFile}
  /\ call \in [Procs -> LockSteps]
  /\ misremoved \in BOOLEAN

LockInit ==
  /\ file = NoFile
  /\ call = [p \in Procs |-> "idle"]
  /\ misremoved = FALSE

-----------------------------------------------------------------------------
GoOn(p, step) == call' = [call EXCEPT ![p] = step]

MutGoneByAge(q) == call[q] \in {"dead", "held"}

\* process.kill(pid, 0) answers ESRCH: the recorded process is gone.
Gone(q) == call[q] = "dead"

\* isStale on a record that could be read: on this machine the holder's
\* liveness decides, never the age of the lock.
RecordIsStale(q) == Gone(q)

MutUnwrittenNeverStale(f) == FALSE

\* isStale on a file with no readable record: it is presumed to be in the
\* making for UNWRITTEN_GRACE_MS.  A creator that is still at it writes its
\* record within that grace (an assumption on the machine), so only the file of
\* one that died or failed grows old.
MayHaveAged(f) == call[f.owner] # "writing"

\* The file is somebody's to use: its creator is writing it or works under it.
InUse(f) == call[f.owner] \in {"writing", "held"}

\* rm(path, force): whatever is there now.
Unlink(p) ==
  /\ file' = NoFile
  /\ misremoved' = (misremoved \/ (file # NoFile /\ file.owner # p /\ InUse(file)))

Acquire(p) ==
  /\ call[p] = "idle"
  /\ GoOn(p, "try")
  /\ UNCHANGED <<file, misremoved>>

MutCreateRegardless(p) ==
  /\ call[p] = "try"
  /\ file' = [owner |-> p, written |-> FALSE]
  /\ GoOn(p, "writing")
  /\ UNCHANGED misremoved

\* open(path, "wx") succeeds on a path where there is nothing.
Create(p) ==
  /\ call[p] = "try"
  /\ file = NoFile
  /\ file' = [owner |-> p, written |-> FALSE]
  /\ GoOn(p, "writing")
  /\ UNCHANGED misremoved

\* EEXIST
CreateRefused(p) ==
  /\ call[p] = "try"
  /\ file # NoFile
  /\ GoOn(p, "judge")
  /\ UNCHANGED <<file, misremoved>>

\* The record goes through the handle: into the file this process created, even
\* if the path has been unlinked or belongs to somebody else by now.
WriteRecord(p) ==
  /\ call[p] = "writing"
  /\ file' = IF file # NoFile /\ file.owner = p THEN [file EXCEPT !.written = TRUE] ELSE file
  /\ GoOn(p, "held")
  /\ UNCHANGED misremoved

\* writeFile rejects (a full disk): acquire throws and leaves the empty file.
WriteFails(p) ==
  /\ call[p] = "writing"
  /\ GoOn(p, "idle")
  /\ UNCHANGED <<file, misremoved>>

JudgeRecord(p) ==
  /\ call[p] = "judge"
  /\ file # NoFile /\ file.written
  /\ GoOn(p, IF RecordIsStale(file.owner) THEN "remove" ELSE "wait")
  /\ UNCHANGED <<file, misremoved>>

\* read() answers null for a missing file and for one with no record yet.
JudgeUnreadable(p) ==
  /\ call[p] = "judge"
  /\ file # NoFile => ~file.written
  /\ GoOn(p, "stat")
  /\ UNCHANGED <<file, misremoved>>

\* stat fails: "released meanwhile", which isStale also answers with true.
StatVanished(p) ==
  /\ call[p] = "stat"
  /\ file = NoFile
  /\ GoOn(p, "remove")
  /\ UNCHANGED <<file, misremoved>>

\* stat compares the file's age alone.  A record written since the read makes
\* the file young: one isStale call is assumed to take less than the grace.
StatAged(p) ==
  /\ call[p] = "stat"
  /\ file # NoFile /\ ~file.written /\ MayHaveAged(file)
  /\ GoOn(p, "remove")
  /\ UNCHANGED <<file, misremoved>>

StatFresh(p) ==
  /\ call[p] = "stat"
  /\ file # NoFile
  /\ GoOn(p, "wait")
  /\ UNCHANGED <<file, misremoved>>

RemoveStale(p) ==
  /\ call[p] = "remove"
  /\ Unlink(p)
  /\ GoOn(p, "try")

PollAgain(p) ==
  /\ call[p] = "wait"
  /\ GoOn(p, "try")
  /\ UNCHANGED <<file, misremoved>>

\* The deadline passed: acquire throws.
GiveUp(p) ==
  /\ call[p] = "wait"
  /\ GoOn(p, "idle")
  /\ UNCHANGED <<file, misremoved>>

Release(p) ==
  /\ call[p] = "held"
  /\ Unlink(p)
  /\ GoOn(p, "idle")

Die(p) ==
  /\ call[p] \notin {"idle", "dead"}
  /\ GoOn(p, "dead")
  /\ UNCHANGED <<file, misremoved>>

-----------------------------------------------------------------------------
\* What a live process does once it has started to acquire.
Progress(p) ==
  \/ Create(p) \/ CreateRefused(p) \/ WriteRecord(p) \/ WriteFails(p)
  \/ JudgeRecord(p) \/ JudgeUnreadable(p)
  \/ StatVanished(p) \/ StatAged(p) \/ StatFresh(p)
  \/ RemoveStale(p) \/ PollAgain(p) \/ GiveUp(p) \/ Release(p)

LockNext == \E p \in Procs : Acquire(p) \/ Progress(p) \/ Die(p)

LockSpec == LockInit /\ [][LockNext]_lockVars

\* Processes run; a file without a record grows older than the grace, so a
\* process that keeps asking for its age does not find it fresh for ever.
LockFairness == \A p \in Procs : WF_lockVars(Progress(p)) /\ SF_lockVars(StatAged(p))

LockFairSpec == LockSpec /\ LockFairness

-----------------------------------------------------------------------------
\* At most one process is between acquire and release.  FileLock promises it
\* ("Exclusive lock over one network's object store").
MutualExclusion ==
  \A p, q \in Procs : call[p] = "held" /\ call[q] = "held" => p = q

\* The exclusion the code does have: as long as no rm hit the lock another
\* process was using, at most one process is inside or about to be.
Owners == {p \in Procs : call[p] \in {"writing", "held"}}

ExclusiveUnlessMisremoved ==
  ~misremoved => \A p, q \in Owners : p = q

\* No process condemns a lock file it sees while the file is in use: a live
\* holder's lock is never judged stale, however long it is held, nor is a file
\* whose record is still being written.  (Staleness was once an age, and a
\* long seal had its lock broken; an empty file was once taken for debris.)
Condemns(p) == call[p] # "remove" /\ call'[p] = "remove"

CondemnsOnlyTheAbandoned ==
  [][\A p \in Procs : Condemns(p) /\ file # NoFile => ~InUse(file)]_lockVars

\* A lock file left by a process that died, or that failed to write its record,
\* does not block the others for ever: while some process keeps trying to
\* create the file, an abandoned one keeps being removed.
Abandoned == file # NoFile /\ ~InUse(file)

AbandonedLockIsBroken ==
  []<>(\E p \in Procs : call[p] = "try") => []<>(~Abandoned)

=============================================================================
