-------------------------------- MODULE GitRunner --------------------------------
(***************************************************************************)
(* The git processes that komnet starts in a network's repository, and the *)
(* lock files that they leave when they are killed                         *)
(* (packages/core/src/git/runner.ts, git/hygiene.ts).                      *)
(*                                                                         *)
(* One lock file stands for all of git's.  A run that writes holds the     *)
(* network lock, taken as exclusive here (see FileLock); one that reads    *)
(* takes no lock of git's.                                                 *)
(***************************************************************************)

CONSTANTS Komnets,    \* processes of komnet, each with its runner
          GitRuns,    \* runs of git
          RunBy,      \* RunBy[g]: the process that makes run g
          Writes,     \* the runs that write
          NoRun

VARIABLES git,       \* git[g]: how far run g has got
          lockFile,  \* the run whose lock file is there
          aged,      \* it is older than STALE_GIT_LOCK_MS
          writer,    \* the run that holds the network lock
          dead,      \* the processes that have died
          stripped   \* history: runs whose fresh lock was removed while they were running

gitVars == <<git, lockFile, aged, writer, dead, stripped>>

ASSUME GitAssumption ==
  /\ RunBy \in [GitRuns -> Komnets] /\ Writes \subseteq GitRuns /\ NoRun \notin GitRuns

GitSteps ==
  {"wanted", "ready", "running", "terminating", "refused", "judging", "removing", "again", "ended"}

\* Type invariant.
GitTypeOK ==
  /\ git \in [GitRuns -> GitSteps]
  /\ lockFile \in GitRuns \cup {NoRun} /\ writer \in GitRuns \cup {NoRun}
  /\ aged \in BOOLEAN
  /\ dead \subseteq Komnets /\ stripped \subseteq GitRuns

GitInit ==
  /\ git = [g \in GitRuns |-> "wanted"]
  /\ lockFile = NoRun /\ aged = FALSE /\ writer = NoRun
  /\ dead = {} /\ stripped = {}

Alive(g) == RunBy[g] \notin dead
Becomes(g, step) == git' = [git EXCEPT ![g] = step]

\* A git that is running is one of its runner's children.
Running(g) == git[g] \in {"running", "terminating"}
Children(k) == {g \in GitRuns : RunBy[g] = k /\ Running(g)}

\* The call ends, and the network lock with it.
Ends(g) ==
  /\ Becomes(g, "ended")
  /\ writer' = IF writer = g THEN NoRun ELSE writer

Unlocks == lockFile' = NoRun /\ aged' = FALSE

-----------------------------------------------------------------------------
\* The caller takes the network lock if the run is going to write.
Prepared(g) ==
  /\ git[g] = "wanted" /\ Alive(g)
  /\ IF g \in Writes THEN writer = NoRun /\ writer' = g ELSE UNCHANGED writer
  /\ Becomes(g, "ready")
  /\ UNCHANGED <<lockFile, aged, dead, stripped>>

\* runOnce: git refuses before it writes anything if its lock is there.
Spawn(g) ==
  /\ git[g] \in {"ready", "again"} /\ Alive(g)
  /\ IF g \notin Writes
     THEN Becomes(g, "running") /\ UNCHANGED <<lockFile, aged, writer>>
     ELSE IF lockFile = NoRun
     THEN Becomes(g, "running") /\ lockFile' = g /\ aged' = FALSE /\ UNCHANGED writer
     ELSE /\ IF git[g] = "ready" THEN Becomes(g, "refused") /\ UNCHANGED writer ELSE Ends(g)
          /\ UNCHANGED <<lockFile, aged>>
  /\ UNCHANGED <<dead, stripped>>

\* git is done, or has heard SIGTERM: it removes its own lock.
GitExits(g) ==
  /\ Running(g)
  /\ IF lockFile = g THEN Unlocks ELSE UNCHANGED <<lockFile, aged>>
  /\ Ends(g)
  /\ UNCHANGED <<dead, stripped>>

\* The timeout of the run, or terminateAll when its process shuts down: SIGTERM first.
Terminate(g) ==
  /\ git[g] = "running" /\ Alive(g)
  /\ Becomes(g, "terminating")
  /\ UNCHANGED <<lockFile, aged, writer, dead, stripped>>

\* And SIGKILL after the grace, which leaves the lock file.
Kill(g) ==
  /\ git[g] = "terminating" /\ Alive(g)
  /\ Ends(g)
  /\ UNCHANGED <<lockFile, aged, dead, stripped>>

-----------------------------------------------------------------------------
\* clearOrphanedLock: not while another git of this runner is running.
Consider(g) ==
  /\ git[g] = "refused" /\ Alive(g)
  /\ IF Children(RunBy[g]) = {} THEN Becomes(g, "judging") /\ UNCHANGED writer ELSE Ends(g)
  /\ UNCHANGED <<lockFile, aged, dead, stripped>>

MutStale == lockFile # NoRun

\* lockFile: there, and old.
Stale == lockFile # NoRun /\ aged

Judge(g) ==
  /\ git[g] = "judging" /\ Alive(g)
  /\ IF Stale THEN Becomes(g, "removing") /\ UNCHANGED writer ELSE Ends(g)
  /\ UNCHANGED <<lockFile, aged, dead, stripped>>

\* unlink, and the command once more; or the file has gone, and the run fails.
Remove(g) ==
  /\ git[g] = "removing" /\ Alive(g)
  /\ IF lockFile = NoRun
     THEN Ends(g) /\ UNCHANGED <<lockFile, aged, stripped>>
     ELSE /\ Becomes(g, "again") /\ Unlocks /\ UNCHANGED writer
          /\ stripped' = IF Running(lockFile) /\ ~aged THEN stripped \cup {lockFile} ELSE stripped
  /\ UNCHANGED dead

-----------------------------------------------------------------------------
\* Ten minutes: more than a run with a timeout can take, so its git has ended; one whose
\* komnet has died has no timeout any more.
LockAges ==
  /\ lockFile # NoRun /\ ~aged
  /\ Running(lockFile) => ~Alive(lockFile)
  /\ aged' = TRUE
  /\ UNCHANGED <<git, lockFile, writer, dead, stripped>>

\* A process of komnet dies: its gits go on without it.
KomnetDies(k) ==
  /\ k \notin dead
  /\ dead' = dead \cup {k}
  /\ UNCHANGED <<git, lockFile, aged, writer, stripped>>

\* The next process breaks the network lock of a dead one.
NetworkLockBroken ==
  /\ writer # NoRun /\ ~Alive(writer)
  /\ writer' = NoRun
  /\ UNCHANGED <<git, lockFile, aged, dead, stripped>>

-----------------------------------------------------------------------------
OnRun(g) ==
  \/ Prepared(g) \/ Spawn(g) \/ GitExits(g) \/ Terminate(g) \/ Kill(g)
  \/ Consider(g) \/ Judge(g) \/ Remove(g)

GitNext ==
  \/ \E g \in GitRuns : OnRun(g)
  \/ \E k \in Komnets : KomnetDies(k)
  \/ LockAges \/ NetworkLockBroken

GitSpec == GitInit /\ [][GitNext]_gitVars

-----------------------------------------------------------------------------
\* "Removing an orphaned lock is safe": no git loses the lock that it is working under,
\* with or without its komnet, before the ten minutes in which it must have ended.
FreshLocksStay == stripped = {}

=============================================================================
