---------------------------- MODULE LocalFileProofs ----------------------------
(***************************************************************************)
(* What holds of the files that the processes of one home share, for any   *)
(* number of processes: the lock of a network, the lock files of git under *)
(* it, and config.yaml, which has no lock.                                 *)
(*                                                                         *)
(* FileLock: until some rm hits a lock in use, whoever is writing a record *)
(* or working under the lock owns the file at the path.                    *)
(*                                                                         *)
(* GitRunner: a run that removes an orphaned lock writes, so its process   *)
(* holds the network lock from before it looked until it is done; whoever  *)
(* would create a fresh lock meanwhile would hold it too.                  *)
(*                                                                         *)
(* ConfigFile: a process whose memory is of what was last written knows    *)
(* all of it until its command is over, and so does the content that a     *)
(* save has made from that memory.                                         *)
(***************************************************************************)
EXTENDS FileLock, GitRunner, ConfigFile, TLAPS

-----------------------------------------------------------------------------
\* The lock of a network.

\* Type correctness of the lock, for every set of processes.
THEOREM FileLockTyped == LockSpec => []LockTypeOK
<1>1. LockInit => LockTypeOK
  BY DEF LockInit, LockTypeOK, LockFile, LockSteps
<1>2. LockTypeOK /\ [LockNext]_lockVars => LockTypeOK'
  <2> SUFFICES ASSUME LockTypeOK, [LockNext]_lockVars
               PROVE  LockTypeOK'
    OBVIOUS
  <2>1. CASE UNCHANGED lockVars
    BY <2>1 DEF LockTypeOK, lockVars
  <2>2. ASSUME NEW p \in Procs, Acquire(p) \/ Progress(p) \/ Die(p)
        PROVE  LockTypeOK'
    <3> USE <2>2 DEF LockTypeOK, LockFile, LockSteps, GoOn
    <3>1. CASE Acquire(p) BY <3>1 DEF Acquire
    <3>2. CASE Create(p) BY <3>2 DEF Create
    <3>3. CASE CreateRefused(p) BY <3>3 DEF CreateRefused
    <3>4. CASE WriteRecord(p) BY <3>4 DEF WriteRecord
    <3>5. CASE WriteFails(p) BY <3>5 DEF WriteFails
    <3>6. CASE JudgeRecord(p) BY <3>6 DEF JudgeRecord
    <3>7. CASE JudgeUnreadable(p) BY <3>7 DEF JudgeUnreadable
    <3>8. CASE StatVanished(p) BY <3>8 DEF StatVanished
    <3>9. CASE StatAged(p) BY <3>9 DEF StatAged
    <3>10. CASE StatFresh(p) BY <3>10 DEF StatFresh
    <3>11. CASE RemoveStale(p) BY <3>11 DEF RemoveStale, Unlink
    <3>12. CASE PollAgain(p) BY <3>12 DEF PollAgain
    <3>13. CASE GiveUp(p) BY <3>13 DEF GiveUp
    <3>14. CASE Release(p) BY <3>14 DEF Release, Unlink
    <3>15. CASE Die(p) BY <3>15 DEF Die
    <3> QED
      BY <3>1, <3>2, <3>3, <3>4, <3>5, <3>6, <3>7, <3>8, <3>9, <3>10,
         <3>11, <3>12, <3>13, <3>14, <3>15 DEF Progress
  <2> QED
    BY <2>1, <2>2 DEF LockNext
<1> QED
  BY <1>1, <1>2, PTL DEF LockSpec

-----------------------------------------------------------------------------
\* Whoever uses the lock is the owner of the file that is there.
OwnerHasFile ==
  ~misremoved => \A p \in Owners : file # NoFile /\ file.owner = p

\* rm leaves OwnerHasFile true once its caller is outside: either it hit nobody's
\* lock in use, or misremoved records that it did.
LEMMA UnlinkKeeps ==
  ASSUME LockTypeOK, OwnerHasFile, NEW p \in Procs, NEW step \in {"idle", "try"},
         Unlink(p), GoOn(p, step)
  PROVE  OwnerHasFile'
<1> SUFFICES ASSUME ~misremoved', NEW q \in Owners'
             PROVE  FALSE
  BY DEF OwnerHasFile
<1>1. q # p /\ q \in Procs /\ call[q] \in {"writing", "held"}
  BY DEF Owners, GoOn, LockTypeOK
<1>2. ~misremoved /\ q \in Owners
  BY <1>1 DEF Unlink, Owners
<1>3. file # NoFile /\ file.owner = q
  BY <1>2 DEF OwnerHasFile
<1> QED
  BY <1>1, <1>3 DEF Unlink, InUse

\* A step of p that leaves the file alone and does not enter the lock.
LEMMA OutsideKeeps ==
  ASSUME LockTypeOK, OwnerHasFile, NEW p \in Procs,
         NEW step \in LockSteps \ {"writing", "held"},
         GoOn(p, step), UNCHANGED <<file, misremoved>>
  PROVE  OwnerHasFile'
BY DEF OwnerHasFile, Owners, GoOn, LockTypeOK

\* Until an rm hits a lock in use, two processes are never inside together.
THEOREM ExclusionHolds == LockSpec => []ExclusiveUnlessMisremoved
<1>1. LockInit => OwnerHasFile
  BY DEF LockInit, OwnerHasFile, Owners
<1>2. LockTypeOK /\ OwnerHasFile /\ [LockNext]_lockVars => OwnerHasFile'
  <2> SUFFICES ASSUME LockTypeOK, OwnerHasFile, [LockNext]_lockVars
               PROVE  OwnerHasFile'
    OBVIOUS
  <2>1. CASE UNCHANGED lockVars
    BY <2>1 DEF OwnerHasFile, Owners, lockVars
  <2>2. ASSUME NEW p \in Procs, Acquire(p) \/ Progress(p) \/ Die(p)
        PROVE  OwnerHasFile'
    <3> USE <2>2
    <3>1. CASE Acquire(p)
      <4>1. GoOn(p, "try") /\ UNCHANGED <<file, misremoved>>
        BY <3>1 DEF Acquire
      <4> QED BY <4>1, OutsideKeeps DEF LockSteps
    <3>2. CASE Create(p)
      <4>1. file = NoFile /\ file' = [owner |-> p, written |-> FALSE]
            /\ misremoved' = misremoved /\ GoOn(p, "writing")
        BY <3>2 DEF Create
      <4>2. ~misremoved => Owners = {}
        BY <4>1 DEF OwnerHasFile
      <4>3. ~misremoved' => Owners' = {p}
        BY <4>1, <4>2 DEF Owners, GoOn, LockTypeOK
      <4>4. file' \in LockFile /\ file'.owner = p
        BY <4>1 DEF LockFile
      <4>5. file' # NoFile
        BY <4>4, FileLockAssumption
      <4> QED BY <4>3, <4>4, <4>5 DEF OwnerHasFile
    <3>3. CASE CreateRefused(p)
      <4>1. GoOn(p, "judge") /\ UNCHANGED <<file, misremoved>>
        BY <3>3 DEF CreateRefused
      <4> QED BY <4>1, OutsideKeeps DEF LockSteps
    <3>4. CASE WriteRecord(p)
      <4>1. Owners' = Owners /\ misremoved' = misremoved
        BY <3>4 DEF WriteRecord, Owners, GoOn, LockTypeOK
      <4>2. file # NoFile => file' # NoFile /\ file'.owner = file.owner
        BY <3>4, FileLockAssumption DEF WriteRecord, LockTypeOK, LockFile
      <4> QED BY <4>1, <4>2 DEF OwnerHasFile
    <3>5. CASE WriteFails(p)
      <4>1. GoOn(p, "idle") /\ UNCHANGED <<file, misremoved>>
        BY <3>5 DEF WriteFails
      <4> QED BY <4>1, OutsideKeeps DEF LockSteps
    <3>6. CASE JudgeRecord(p) \/ JudgeUnreadable(p)
      <4>1. PICK step \in {"remove", "wait", "stat"} :
              GoOn(p, step) /\ UNCHANGED <<file, misremoved>>
        BY <3>6 DEF JudgeRecord, JudgeUnreadable
      <4> QED BY <4>1, OutsideKeeps DEF LockSteps
    <3>7. CASE StatVanished(p) \/ StatAged(p) \/ StatFresh(p)
      <4>1. PICK step \in {"remove", "wait"} :
              GoOn(p, step) /\ UNCHANGED <<file, misremoved>>
        BY <3>7 DEF StatVanished, StatAged, StatFresh
      <4> QED BY <4>1, OutsideKeeps DEF LockSteps
    <3>8. CASE RemoveStale(p)
      BY <3>8, UnlinkKeeps DEF RemoveStale
    <3>9. CASE PollAgain(p) \/ GiveUp(p)
      <4>1. PICK step \in {"try", "idle"} :
              GoOn(p, step) /\ UNCHANGED <<file, misremoved>>
        BY <3>9 DEF PollAgain, GiveUp
      <4> QED BY <4>1, OutsideKeeps DEF LockSteps
    <3>10. CASE Release(p)
      BY <3>10, UnlinkKeeps DEF Release
    <3>11. CASE Die(p)
      <4>1. GoOn(p, "dead") /\ UNCHANGED <<file, misremoved>>
        BY <3>11 DEF Die
      <4> QED BY <4>1, OutsideKeeps DEF LockSteps
    <3> QED
      BY <3>1, <3>2, <3>3, <3>4, <3>5, <3>6, <3>7, <3>8, <3>9, <3>10, <3>11
         DEF Progress
  <2> QED
    BY <2>1, <2>2 DEF LockNext
<1>3. OwnerHasFile => ExclusiveUnlessMisremoved
  BY DEF OwnerHasFile, ExclusiveUnlessMisremoved
<1> QED
  BY <1>1, <1>2, <1>3, FileLockTyped, PTL DEF LockSpec

-----------------------------------------------------------------------------
\* The file of a process inside the lock carries its record.
HeldIsWritten == file # NoFile /\ call[file.owner] = "held" => file.written

LEMMA HeldIsWrittenAlways == LockSpec => []HeldIsWritten
<1>1. LockInit => HeldIsWritten
  BY DEF LockInit, HeldIsWritten
<1>2. LockTypeOK /\ HeldIsWritten /\ [LockNext]_lockVars => HeldIsWritten'
  <2> SUFFICES ASSUME LockTypeOK, HeldIsWritten, [LockNext]_lockVars, file' # NoFile,
                      call'[file'.owner] = "held"
               PROVE  file'.written
    BY DEF HeldIsWritten
  <2>1. CASE UNCHANGED lockVars
    BY <2>1 DEF HeldIsWritten, lockVars
  <2>2. ASSUME NEW p \in Procs, Create(p)
        PROVE  FALSE
    BY <2>2 DEF Create, GoOn, LockTypeOK
  <2>3. ASSUME NEW p \in Procs, WriteRecord(p)
        PROVE  file'.written
    <3>1. CASE file # NoFile /\ file.owner = p
      BY <2>3, <3>1 DEF WriteRecord, LockTypeOK, LockFile
    <3>2. CASE ~(file # NoFile /\ file.owner = p)
      BY <2>3, <3>2 DEF WriteRecord, HeldIsWritten, GoOn, LockTypeOK, LockFile
    <3> QED BY <3>1, <3>2
  <2>4. ASSUME NEW p \in Procs, RemoveStale(p) \/ Release(p)
        PROVE  FALSE
    BY <2>4 DEF RemoveStale, Release, Unlink
  <2>5. ASSUME NEW p \in Procs, NEW step \in LockSteps \ {"held"}, GoOn(p, step),
               UNCHANGED file
        PROVE  file'.written
    BY <2>5 DEF HeldIsWritten, GoOn, LockTypeOK, LockFile
  <2>6. ASSUME NEW p \in Procs, Acquire(p) \/ Progress(p) \/ Die(p),
               ~Create(p), ~WriteRecord(p), ~RemoveStale(p), ~Release(p)
        PROVE  UNCHANGED file /\ \E step \in LockSteps \ {"held"} : GoOn(p, step)
    BY <2>6 DEF Acquire, Progress, Die, CreateRefused, WriteFails, JudgeRecord,
       JudgeUnreadable, StatVanished, StatAged, StatFresh, PollAgain, GiveUp, LockSteps
  <2> QED
    BY <2>1, <2>2, <2>3, <2>4, <2>5, <2>6 DEF LockNext
<1> QED
  BY <1>1, <1>2, FileLockTyped, PTL DEF LockSpec

\* No live holder's lock, and no file still being written, is ever condemned.
THEOREM CondemnationIsSound == LockSpec => CondemnsOnlyTheAbandoned
<1>1. LockTypeOK /\ HeldIsWritten /\ [LockNext]_lockVars
        => [\A p \in Procs : Condemns(p) /\ file # NoFile => ~InUse(file)]_lockVars
  <2> SUFFICES ASSUME LockTypeOK, HeldIsWritten, LockNext, NEW q \in Procs, Condemns(q),
                      file # NoFile
               PROVE  ~InUse(file)
    OBVIOUS
  <2>1. PICK p \in Procs : Acquire(p) \/ Progress(p) \/ Die(p)
    BY DEF LockNext
  <2>2. \A step \in LockSteps \ {"remove"} : ~GoOn(p, step)
    BY DEF Condemns, GoOn, LockTypeOK, LockSteps
  <2>3. (JudgeRecord(p) /\ RecordIsStale(file.owner)) \/ StatAged(p)
    BY <2>1, <2>2 DEF Acquire, Progress, Die, Create, CreateRefused, WriteRecord,
       WriteFails, JudgeRecord, JudgeUnreadable, StatVanished, StatAged, StatFresh,
       RemoveStale, PollAgain, GiveUp, Release, LockSteps
  <2>4. CASE JudgeRecord(p) /\ RecordIsStale(file.owner)
    BY <2>4 DEF RecordIsStale, Gone, InUse
  <2>5. CASE StatAged(p)
    BY <2>5 DEF StatAged, MayHaveAged, InUse, HeldIsWritten
  <2> QED
    BY <2>3, <2>4, <2>5
<1> QED
  BY <1>1, FileLockTyped, HeldIsWrittenAlways, PTL DEF LockSpec, CondemnsOnlyTheAbandoned

-----------------------------------------------------------------------------
\* The lock files of git.

\* Type correctness, for every set of processes and runs.
THEOREM GitTyped == GitSpec => []GitTypeOK
<1>1. GitInit => GitTypeOK
  BY DEF GitInit, GitTypeOK, GitSteps
<1>2. GitTypeOK /\ [GitNext]_gitVars => GitTypeOK'
  <2> SUFFICES ASSUME GitTypeOK, [GitNext]_gitVars
               PROVE  GitTypeOK'
    OBVIOUS
  <2> USE DEF GitTypeOK, GitSteps, Becomes
  <2>1. CASE UNCHANGED gitVars
    BY <2>1 DEF gitVars
  <2>2. ASSUME NEW g \in GitRuns, OnRun(g)
        PROVE  GitTypeOK'
    <3>1. CASE Prepared(g) BY <3>1 DEF Prepared
    <3>2. CASE Spawn(g) BY <3>2 DEF Spawn, Ends
    <3>3. CASE GitExits(g) BY <3>3 DEF GitExits, Ends, Unlocks
    <3>4. CASE Terminate(g) BY <3>4 DEF Terminate
    <3>5. CASE Kill(g) BY <3>5 DEF Kill, Ends
    <3>6. CASE Consider(g) BY <3>6 DEF Consider, Ends
    <3>7. CASE Judge(g) BY <3>7 DEF Judge, Ends
    <3>8. CASE Remove(g) BY <3>8 DEF Remove, Ends, Unlocks, Running
    <3> QED
      BY <2>2, <3>1, <3>2, <3>3, <3>4, <3>5, <3>6, <3>7, <3>8 DEF OnRun
  <2>3. ASSUME NEW k \in Komnets, KomnetDies(k)
        PROVE  GitTypeOK'
    BY <2>3 DEF KomnetDies
  <2>4. CASE LockAges BY <2>4 DEF LockAges
  <2>5. CASE NetworkLockBroken BY <2>5 DEF NetworkLockBroken
  <2> QED
    BY <2>1, <2>2, <2>3, <2>4, <2>5 DEF GitNext
<1> QED
  BY <1>1, <1>2, PTL DEF GitSpec

-----------------------------------------------------------------------------
\* A writing run of a live process holds the network lock from its preparation on.
WritersHoldTheLock ==
  \A g \in Writes : Alive(g) /\ git[g] \notin {"wanted", "ended"} => writer = g

\* Only a run that writes is ever refused, or has a lock file.
OnlyWritersMeetLocks ==
  /\ lockFile \in Writes \cup {NoRun}
  /\ \A g \in GitRuns : git[g] \in {"refused", "judging", "removing", "again"} => g \in Writes

\* What a run is about to remove is not the fresh lock of a git that is working.
RemovesOnlyOrphans ==
  \A g \in GitRuns :
    git[g] = "removing" /\ Alive(g) => lockFile = NoRun \/ aged \/ ~Running(lockFile)

GitInv == WritersHoldTheLock /\ OnlyWritersMeetLocks /\ RemovesOnlyOrphans /\ FreshLocksStay

LEMMA GitInvInit == GitInit => GitInv
BY GitAssumption
   DEF GitInit, GitInv, WritersHoldTheLock, OnlyWritersMeetLocks, RemovesOnlyOrphans,
   FreshLocksStay

\* No step takes the network lock from a live process whose run goes on.
LEMMA LockIsKept ==
  ASSUME GitTypeOK, WritersHoldTheLock, OnlyWritersMeetLocks, [GitNext]_gitVars
  PROVE  WritersHoldTheLock'
<1> USE GitAssumption DEF GitTypeOK, GitSteps, Becomes, Alive
<1> SUFFICES ASSUME NEW g \in Writes, Alive(g)', git'[g] \notin {"wanted", "ended"}
             PROVE  writer' = g
  BY DEF WritersHoldTheLock
<1>0. g \in GitRuns
  OBVIOUS
<1>1. CASE UNCHANGED gitVars
  BY <1>1 DEF gitVars, WritersHoldTheLock
<1>2. ASSUME NEW h \in GitRuns, OnRun(h)
      PROVE  writer' = g
  <2>1. Alive(g)
    BY <1>2 DEF OnRun, Prepared, Spawn, GitExits, Terminate, Kill, Consider, Judge, Remove
  <2>2. CASE h = g
    <3>1. CASE Prepared(g) BY <3>1 DEF Prepared
    <3>2. git[g] \notin {"wanted", "ended"} => writer = g
      BY <2>1 DEF WritersHoldTheLock
    <3>3. CASE Spawn(g) BY <3>3, <3>2, <1>0 DEF Spawn, Ends
    <3>4. CASE GitExits(g) BY <3>4, <1>0 DEF GitExits, Ends
    <3>5. CASE Terminate(g) BY <3>5, <3>2 DEF Terminate
    <3>6. CASE Kill(g) BY <3>6, <1>0 DEF Kill, Ends
    <3>7. CASE Consider(g) BY <3>7, <3>2, <1>0 DEF Consider, Ends
    <3>8. CASE Judge(g) BY <3>8, <3>2, <1>0 DEF Judge, Ends
    <3>9. CASE Remove(g) BY <3>9, <3>2, <1>0 DEF Remove, Ends
    <3> QED
      BY <1>2, <2>2, <3>1, <3>3, <3>4, <3>5, <3>6, <3>7, <3>8, <3>9 DEF OnRun
  <2>3. CASE h # g
    <3>1. git'[g] = git[g]
      BY <1>2, <2>3, <1>0
         DEF OnRun, Prepared, Spawn, GitExits, Terminate, Kill, Consider, Judge, Remove, Ends
    <3>2. writer = g
      BY <2>1, <3>1 DEF WritersHoldTheLock
    <3> QED
      BY <1>2, <2>3, <3>2, <1>0
         DEF OnRun, Prepared, Spawn, GitExits, Terminate, Kill, Consider, Judge, Remove, Ends
  <2> QED BY <2>2, <2>3
<1>3. CASE \E k \in Komnets : KomnetDies(k)
  BY <1>3 DEF KomnetDies, WritersHoldTheLock
<1>4. CASE LockAges
  BY <1>4 DEF LockAges, WritersHoldTheLock
<1>5. CASE NetworkLockBroken
  <2>1. Alive(g) /\ git[g] \notin {"wanted", "ended"}
    BY <1>5 DEF NetworkLockBroken
  <2>2. writer = g
    BY <2>1 DEF WritersHoldTheLock
  <2> QED BY <1>5, <2>1, <2>2 DEF NetworkLockBroken
<1> QED
  BY <1>1, <1>2, <1>3, <1>4, <1>5 DEF GitNext

LEMMA MeetingIsKept ==
  ASSUME GitTypeOK, OnlyWritersMeetLocks, [GitNext]_gitVars
  PROVE  OnlyWritersMeetLocks'
<1> USE GitAssumption DEF GitTypeOK, GitSteps, Becomes, OnlyWritersMeetLocks
<1>1. CASE UNCHANGED gitVars
  BY <1>1 DEF gitVars
<1>2. ASSUME NEW h \in GitRuns, OnRun(h)
      PROVE  OnlyWritersMeetLocks'
  <2>1. CASE Prepared(h) BY <2>1 DEF Prepared
  <2>2. CASE Spawn(h) BY <2>2 DEF Spawn, Ends
  <2>3. CASE GitExits(h) BY <2>3 DEF GitExits, Ends, Unlocks
  <2>4. CASE Terminate(h) BY <2>4 DEF Terminate
  <2>5. CASE Kill(h) BY <2>5 DEF Kill, Ends
  <2>6. CASE Consider(h) BY <2>6 DEF Consider, Ends
  <2>7. CASE Judge(h) BY <2>7 DEF Judge, Ends
  <2>8. CASE Remove(h) BY <2>8 DEF Remove, Ends, Unlocks
  <2> QED
    BY <1>2, <2>1, <2>2, <2>3, <2>4, <2>5, <2>6, <2>7, <2>8 DEF OnRun
<1>3. CASE \E k \in Komnets : KomnetDies(k)
  BY <1>3 DEF KomnetDies
<1>4. CASE LockAges
  BY <1>4 DEF LockAges
<1>5. CASE NetworkLockBroken
  BY <1>5 DEF NetworkLockBroken
<1> QED
  BY <1>1, <1>2, <1>3, <1>4, <1>5 DEF GitNext

\* A fresh lock is created by a writer alone, and another writer is removing none.
LEMMA OrphansStayOrphans ==
  ASSUME GitTypeOK, WritersHoldTheLock, OnlyWritersMeetLocks, RemovesOnlyOrphans,
         [GitNext]_gitVars
  PROVE  RemovesOnlyOrphans'
<1> USE GitAssumption DEF GitTypeOK, GitSteps, Becomes, Alive, Running
<1> SUFFICES ASSUME NEW g \in GitRuns, git'[g] = "removing", Alive(g)',
                    lockFile' # NoRun, ~aged'
             PROVE  ~Running(lockFile)'
  BY DEF RemovesOnlyOrphans
<1>1. CASE UNCHANGED gitVars
  BY <1>1 DEF gitVars, RemovesOnlyOrphans
<1>2. ASSUME NEW h \in GitRuns, OnRun(h)
      PROVE  ~Running(lockFile)'
  <2>1. CASE h = g
    <3>1. Judge(g)
      BY <1>2, <2>1
         DEF OnRun, Prepared, Spawn, GitExits, Terminate, Kill, Consider, Remove, Ends
    <3> QED BY <3>1 DEF Judge, Stale, Ends
  <2>2. CASE h # g
    <3>1. git[g] = "removing" /\ Alive(g)
      BY <1>2, <2>2
         DEF OnRun, Prepared, Spawn, GitExits, Terminate, Kill, Consider, Judge, Remove, Ends
    <3>2. g \in Writes /\ writer = g
      BY <3>1 DEF WritersHoldTheLock, OnlyWritersMeetLocks
    <3>3. ASSUME h \in Writes, Spawn(h)
          PROVE  FALSE
      <4>1. writer = h
        BY <3>3 DEF Spawn, WritersHoldTheLock
      <4> QED BY <4>1, <3>2, <2>2
    <3>4. lockFile' = lockFile /\ aged' = aged
      BY <1>2, <3>3
         DEF OnRun, Prepared, Spawn, GitExits, Terminate, Kill, Consider, Judge, Remove, Ends,
         Unlocks
    <3>5. ~Running(lockFile) /\ lockFile \in Writes
      BY <3>1, <3>4 DEF RemovesOnlyOrphans, OnlyWritersMeetLocks
    <3>6. CASE Spawn(h)
      BY <3>3, <3>4, <3>5, <3>6 DEF Spawn, Ends
    <3>7. CASE ~Spawn(h)
      BY <1>2, <3>4, <3>5, <3>7
         DEF OnRun, Prepared, GitExits, Terminate, Kill, Consider, Judge, Remove, Ends
    <3> QED BY <3>6, <3>7
  <2> QED BY <2>1, <2>2
<1>3. CASE \E k \in Komnets : KomnetDies(k)
  BY <1>3 DEF KomnetDies, RemovesOnlyOrphans
<1>4. CASE LockAges
  BY <1>4 DEF LockAges
<1>5. CASE NetworkLockBroken
  BY <1>5 DEF NetworkLockBroken, RemovesOnlyOrphans
<1> QED
  BY <1>1, <1>2, <1>3, <1>4, <1>5 DEF GitNext

\* No git loses the fresh lock it is working under, whichever runs end, time out, are killed
\* or lose their komnet, for any number of them.
THEOREM OrphanRemovalIsSafe == GitSpec => []FreshLocksStay
<1>1. GitTypeOK /\ GitInv /\ [GitNext]_gitVars => GitInv'
  <2> SUFFICES ASSUME GitTypeOK, GitInv, [GitNext]_gitVars
               PROVE  GitInv'
    OBVIOUS
  <2>1. WritersHoldTheLock' /\ OnlyWritersMeetLocks' /\ RemovesOnlyOrphans'
    BY LockIsKept, MeetingIsKept, OrphansStayOrphans DEF GitInv
  <2>2. FreshLocksStay'
    <3>1. CASE UNCHANGED gitVars
      BY <3>1 DEF gitVars, GitInv, FreshLocksStay
    <3>2. ASSUME NEW h \in GitRuns, Remove(h)
          PROVE  FreshLocksStay'
      BY <3>2 DEF Remove, GitInv, RemovesOnlyOrphans, FreshLocksStay
    <3>3. ASSUME NEW h \in GitRuns, OnRun(h), ~Remove(h)
          PROVE  FreshLocksStay'
      BY <3>3 DEF OnRun, Prepared, Spawn, GitExits, Terminate, Kill, Consider, Judge,
                  GitInv, FreshLocksStay
    <3>4. CASE \/ \E k \in Komnets : KomnetDies(k)
               \/ LockAges \/ NetworkLockBroken
      BY <3>4 DEF KomnetDies, LockAges, NetworkLockBroken, GitInv, FreshLocksStay
    <3> QED BY <3>1, <3>2, <3>3, <3>4 DEF GitNext
  <2> QED BY <2>1, <2>2 DEF GitInv
<1>2. GitInv => FreshLocksStay
  BY DEF GitInv
<1> QED
  BY GitInvInit, GitTyped, <1>1, <1>2, PTL DEF GitSpec

-----------------------------------------------------------------------------
\* The configuration.

\* A call joins a room or nothing; a command that works adds a network or a binding.
ChangesFit ==
  /\ \A c \in AllCalls \ Commands : change[c] = NoChange \/ change[c].adds = "room"
  /\ \A c \in Commands : /\ phase[c] \in {"idle", "work", "save", "write", "over"}
                         /\ phase[c] = "work" => change[c].adds \in {"net", "binding"}

\* Which process a call belongs to, and how the calls differ.
LEMMA CallsAreOfProcesses ==
  /\ \A c \in AllCalls : Of(c) \in Processes
  /\ Server \in Processes /\ Direct \in AllCalls \ Commands /\ Direct \notin Calls
  /\ \A c \in Calls : c \in AllCalls \ Commands /\ Of(c) = Server
  /\ \A c \in AllCalls : Of(c) = Server <=> c \in Calls
  /\ \A c \in Commands : c \in AllCalls /\ Of(c) = c /\ c \notin {Server, Direct}
  /\ Of(Direct) = Direct /\ Server # Direct
BY ConfigAssumption DEF Of, AllCalls, Processes

\* What a change holds, by what it adds.
LEMMA ChangeFields ==
  /\ \A ch \in Change : /\ ch.adds \in {"room", "net", "binding"}
                        /\ ch.adds = "room" => ch.room \in HomeRooms
                        /\ ch.adds \in {"net", "binding"} => ch.net \in Nets
  /\ NoChange.adds = "nothing"
BY DEF Change, NoChange

LEMMA ConfigWith ==
  ASSUME NEW m \in Config, NEW R \in SUBSET HomeRooms, NEW N \in SUBSET Nets
  PROVE  /\ [m EXCEPT !.rooms = R, !.nets = m.nets \cup N] \in Config
         /\ [m EXCEPT !.nets = m.nets \cup N] \in Config
         /\ [m EXCEPT !.bound = m.bound \cup N] \in Config
BY DEF Config

\* What is saved contains what the process knew.
LEMMA SavesWhatItKnows ==
  ASSUME ConfigTypeOK, NEW c \in AllCalls
  PROVE  /\ ToSave(c) \in Config
         /\ memory[Of(c)].nets \subseteq ToSave(c).nets
         /\ memory[Of(c)].bound = ToSave(c).bound /\ memory[Of(c)].agent = ToSave(c).agent
<1> DEFINE m == memory[Of(c)]
           N == IF Of(c) = Server THEN served ELSE {Home}
<1>1. m \in Config /\ rooms[Of(c)] \in SUBSET HomeRooms /\ N \in SUBSET Nets
  BY CallsAreOfProcesses, ConfigAssumption DEF ConfigTypeOK
<1>2. ToSave(c) = IF c \in Commands THEN m
      ELSE [m EXCEPT !.rooms = rooms[Of(c)], !.nets = m.nets \cup N]
  BY CallsAreOfProcesses DEF ToSave
<1> HIDE DEF m, N
<1>3. ToSave(c) \in Config
  <2>1. [m EXCEPT !.rooms = rooms[Of(c)], !.nets = m.nets \cup N] \in Config
    BY <1>1, ConfigWith
  <2> QED BY <1>1, <1>2, <2>1
<1>4. m.nets \subseteq ToSave(c).nets /\ m.bound = ToSave(c).bound /\ m.agent = ToSave(c).agent
  BY <1>1, <1>2 DEF Config
<1> QED
  BY <1>3, <1>4 DEF m

\* Typing is preserved, and so is which changes a call and a command may carry.
LEMMA ConfigStepTyped ==
  ASSUME ConfigTypeOK, ChangesFit, [ConfigNext]_configVars
  PROVE  ConfigTypeOK' /\ ChangesFit'
<1> USE DEF ConfigTypeOK, historyVars, Awaits, ChangesFit
<1>1. CASE UNCHANGED configVars
  BY <1>1 DEF configVars
<1>2. FirstConfig \in Config /\ EmptyConfig \in Config
  BY ConfigAssumption DEF FirstConfig, EmptyConfig, Config
<1>3. CASE OpenDirect
  BY <1>3, CallsAreOfProcesses DEF OpenDirect
<1>4. ASSUME NEW c \in AllCalls, NEW ch \in Change \cup {NoChange}, CallArrives(c, ch)
      PROVE  ConfigTypeOK' /\ ChangesFit'
  BY <1>4 DEF CallArrives
<1>5. ASSUME NEW c \in AllCalls, NEW ch \in Change \cup {NoChange}, StartCommand(c, ch)
      PROVE  ConfigTypeOK' /\ ChangesFit'
  BY <1>2, <1>5, CallsAreOfProcesses DEF StartCommand
<1>6. ASSUME NEW c \in AllCalls, StatConfig(c)
      PROVE  ConfigTypeOK' /\ ChangesFit'
  <2>1. Of(c) \in {Server, Direct}
    BY <1>6 DEF StatConfig, Of, AllCalls
  <2> QED BY <1>6, <2>1, CallsAreOfProcesses DEF StatConfig
<1>7. ASSUME NEW c \in AllCalls, LoadConfig(c)
      PROVE  ConfigTypeOK' /\ ChangesFit'
  <2>1. c \notin Commands /\ Of(c) \in Processes
    BY <1>7, CallsAreOfProcesses DEF LoadConfig
  <2>2. yaml # Torn => yaml \in Config /\ yaml.nets \subseteq Nets
        /\ yaml.rooms \subseteq HomeRooms
    BY DEF Config
  <2>2a. /\ phase' = [phase EXCEPT ![c] = "work"] \/ phase' = [phase EXCEPT ![c] = "idle"]
         /\ UNCHANGED <<yaml, saves, seen, change, content, whole, based>>
    BY <1>7 DEF LoadConfig
  <2>2b. ChangesFit'
         /\ phase' \in [AllCalls -> {"idle", "opening", "stat", "load", "work", "save", "write",
            "over"}]
    <3>1. /\ \A d \in AllCalls \ {c} : phase'[d] = phase[d]
          /\ phase'[c] \in {"work", "idle"} /\ DOMAIN phase' = AllCalls /\ change' = change
      BY <2>2a
    <3>2. phase' \in [AllCalls -> {"idle", "opening", "stat", "load", "work", "save", "write",
          "over"}]
      BY <2>2a
    <3>3. ChangesFit'
      BY <2>1, <3>1, CallsAreOfProcesses
    <3> QED BY <3>2, <3>3
  <2> HIDE DEF ChangesFit
  <2>3. CASE UNCHANGED <<memory, rooms, served, current>>
    BY <2>2a, <2>2b, <2>3
  <2>4. CASE yaml # Torn /\ Adopt(Of(c), yaml) /\ current' = current \cup {Of(c)}
    <3>1. memory' \in [Processes -> Config] /\ current' \subseteq Processes
      BY <2>1, <2>2, <2>4 DEF Adopt
    <3>2. rooms' \in [Processes -> SUBSET HomeRooms] /\ served' \subseteq Nets
      BY <2>1, <2>2, <2>4 DEF Adopt
    <3> QED BY <2>2a, <2>2b, <3>1, <3>2
  <2> QED BY <1>7, <2>3, <2>4 DEF LoadConfig
<1>8. ASSUME NEW c \in AllCalls, ServeCall(c)
      PROVE  ConfigTypeOK' /\ ChangesFit'
  BY <1>8, CallsAreOfProcesses, ChangeFields DEF ServeCall
<1>9. ASSUME NEW c \in AllCalls, RunCommand(c)
      PROVE  ConfigTypeOK' /\ ChangesFit'
  <2>1. c \in Commands /\ phase[c] = "work" /\ c \in Processes /\ memory[c] \in Config
        /\ change[c].net \in Nets
    BY <1>9, CallsAreOfProcesses, ChangeFields DEF RunCommand
  <2>2. memory' \in [Processes -> Config]
    <3>1. CASE memory' = [memory EXCEPT ![c].nets = memory[c].nets \cup {change[c].net}]
      BY <2>1, <3>1, ConfigWith
    <3>2. CASE memory' = [memory EXCEPT ![c].bound = memory[c].bound \cup {change[c].net}]
      BY <2>1, <3>2, ConfigWith
    <3> QED BY <1>9, <3>1, <3>2 DEF RunCommand
  <2>3. phase' = [phase EXCEPT ![c] = "save"] \/ phase' = [phase EXCEPT ![c] = "over"]
    BY <1>9 DEF RunCommand
  <2>4. change' = [change EXCEPT ![c] = NoChange]
        /\ UNCHANGED <<yaml, saves, rooms, seen, served, content, whole, current, based>>
    BY <1>9 DEF RunCommand
  <2>5. ChangesFit'
        /\ phase' \in [AllCalls -> {"idle", "opening", "stat", "load", "work", "save", "write",
           "over"}]
    <3>1. /\ \A d \in AllCalls \ {c} : phase'[d] = phase[d] /\ change'[d] = change[d]
          /\ phase'[c] \in {"save", "over"} /\ change'[c] = NoChange
      BY <2>3, <2>4
    <3>2. phase' \in [AllCalls -> {"idle", "opening", "stat", "load", "work", "save", "write",
          "over"}]
      BY <2>3
    <3>3. ChangesFit'
      BY <2>1, <3>1, CallsAreOfProcesses
    <3> QED BY <3>2, <3>3
  <2> HIDE DEF ChangesFit
  <2> QED BY <2>2, <2>4, <2>5
<1>10. ASSUME NEW c \in AllCalls, SaveConfig(c)
      PROVE  ConfigTypeOK' /\ ChangesFit'
  BY <1>10, SavesWhatItKnows, CallsAreOfProcesses, ConfigAssumption DEF SaveConfig
<1>11. ASSUME NEW c \in AllCalls, WriteConfig(c)
      PROVE  ConfigTypeOK' /\ ChangesFit'
  BY <1>2, <1>11, CallsAreOfProcesses DEF WriteConfig
<1> QED
  BY <1>1, <1>3, <1>4, <1>5, <1>6, <1>7, <1>8, <1>9, <1>10, <1>11 DEF ConfigNext

\* What k knows of m: the networks, the bindings, and whose the configuration is.
Within(m, k) == m.nets \subseteq k.nets /\ m.bound \subseteq k.bound /\ m.agent = k.agent

\* A process that is current knows what was last written, until its command is over; the
\* content that a writer has made from it has it too; and the file is what was last
\* written, unless it is torn.
CurrentKnow ==
  /\ yaml # Torn => yaml = whole
  /\ \A p \in current : p \in Commands => phase[p] # "idle"
  /\ \A p \in current : (p \in Commands => phase[p] # "over") => Within(whole, memory[p])
  /\ \A c \in based : /\ phase[c] = "write"
                      /\ Within(whole, content[c]) /\ Within(content[c], memory[Of(c)])
  /\ based # {} => yaml = Torn

\* Only the acting process learns anything, or its content; and whoever loads, loads what was
\* last written, for an intact file is that.
LEMMA CurrentStay ==
  ASSUME ConfigTypeOK, ChangesFit, CurrentKnow, [ConfigNext]_configVars
  PROVE  CurrentKnow'
<1> USE DEF CurrentKnow, Within, Awaits, historyVars
<1>1. CASE UNCHANGED configVars
  BY <1>1 DEF configVars
<1>2. /\ memory \in [Processes -> Config] /\ content \in [AllCalls -> Config]
      /\ current \subseteq Processes /\ based \subseteq AllCalls
      /\ DOMAIN phase = AllCalls /\ DOMAIN memory = Processes /\ DOMAIN content = AllCalls
  BY DEF ConfigTypeOK
<1>3. CASE OpenDirect
  BY <1>2, <1>3, CallsAreOfProcesses DEF OpenDirect
<1>4. ASSUME NEW c \in AllCalls, NEW ch, CallArrives(c, ch) \/ ServeCall(c)
      PROVE  CurrentKnow'
  <2>1. c \notin Commands /\ c \notin based /\ UNCHANGED <<yaml, memory, content, whole, current,
        based>>
    BY <1>4 DEF CallArrives, ServeCall
  <2>2. \A d \in AllCalls \ {c} : phase'[d] = phase[d]
    BY <1>2, <1>4 DEF CallArrives, ServeCall
  <2> QED BY <1>2, <2>1, <2>2, CallsAreOfProcesses
<1>5. ASSUME NEW c \in AllCalls, NEW ch, StartCommand(c, ch)
      PROVE  CurrentKnow'
  <2>1. /\ c \in Commands /\ c \notin based /\ c \notin current /\ phase'[c] = "work"
        /\ UNCHANGED <<yaml, content, whole, based>>
        /\ c \in Processes /\ Of(c) = c
    BY <1>2, <1>5, CallsAreOfProcesses DEF StartCommand
  <2>2. /\ \A d \in AllCalls \ {c} : phase'[d] = phase[d]
        /\ \A p \in Processes \ {c} : memory'[p] = memory[p]
    BY <1>2, <1>5 DEF StartCommand
  <2>3. c \in current' => memory'[c] = whole
    BY <1>2, <1>5, <2>1 DEF StartCommand
  <2>4. current' \subseteq current \cup {c}
    BY <1>5 DEF StartCommand
  <2>5. \A d \in based : Of(d) # c \/ d = c
    BY <2>1, CallsAreOfProcesses, ConfigAssumption DEF Of
  <2> QED BY <1>2, <2>1, <2>2, <2>3, <2>4, <2>5, CallsAreOfProcesses
<1>6. ASSUME NEW c \in AllCalls, StatConfig(c)
      PROVE  CurrentKnow'
  BY <1>2, <1>6 DEF StatConfig, ChangesFit
<1>7. ASSUME NEW c \in AllCalls, LoadConfig(c)
      PROVE  CurrentKnow'
  <2>1. c \notin Commands /\ c \notin based /\ UNCHANGED <<yaml, content, whole, based>>
    BY <1>7 DEF LoadConfig, ChangesFit
  <2>2. \A d \in AllCalls \ {c} : phase'[d] = phase[d]
    BY <1>2, <1>7 DEF LoadConfig
  <2>3. CASE UNCHANGED <<memory, current>>
    BY <1>2, <2>1, <2>2, <2>3, CallsAreOfProcesses
  <2>4. CASE yaml # Torn /\ memory' = [memory EXCEPT ![Of(c)] = yaml]
             /\ current' = current \cup {Of(c)}
    <3>1. based = {} /\ yaml = whole /\ Of(c) \in Processes /\ Of(c) \notin Commands
      BY <2>1, <2>4, CallsAreOfProcesses, ConfigAssumption DEF Of
    <3>2. memory'[Of(c)] = whole /\ \A p \in Processes \ {Of(c)} : memory'[p] = memory[p]
      BY <1>2, <2>4, <3>1
    <3> QED BY <1>2, <2>1, <2>2, <2>4, <3>1, <3>2, CallsAreOfProcesses
  <2> QED BY <1>7, <2>3, <2>4 DEF LoadConfig, Adopt
<1>8. ASSUME NEW c \in AllCalls, RunCommand(c)
      PROVE  CurrentKnow'
  <2>1. /\ c \in Commands /\ c \notin based /\ phase[c] = "work" /\ phase'[c] \in {"save", "over"}
        /\ UNCHANGED <<yaml, content, whole, current, based>>
        /\ c \in Processes /\ Of(c) = c
    BY <1>2, <1>8, CallsAreOfProcesses DEF RunCommand
  <2>2. /\ \A d \in AllCalls \ {c} : phase'[d] = phase[d]
        /\ \A p \in Processes \ {c} : memory'[p] = memory[p]
    BY <1>2, <1>8 DEF RunCommand
  <2>3. memory'[c] = memory[c]
        \/ memory' = [memory EXCEPT ![c].nets = memory[c].nets \cup {change[c].net}]
        \/ memory' = [memory EXCEPT ![c].bound = memory[c].bound \cup {change[c].net}]
    BY <1>8 DEF RunCommand
  <2>4. Within(memory[c], memory'[c])
    BY <1>2, <2>1, <2>3 DEF Config
  <2>5. \A d \in based : Of(d) # c \/ d = c
    BY <2>1, CallsAreOfProcesses, ConfigAssumption DEF Of
  <2> QED BY <1>2, <2>1, <2>2, <2>4, <2>5, CallsAreOfProcesses
<1>9. ASSUME NEW c \in AllCalls, SaveConfig(c)
      PROVE  CurrentKnow'
  <2> DEFINE saved == ToSave(c)
  <2>1. /\ Within(memory[Of(c)], saved) /\ Of(c) \in Processes
    BY SavesWhatItKnows, CallsAreOfProcesses
  <2>2. /\ phase[c] = "save" /\ phase'[c] = "write" /\ content'[c] = saved
        /\ memory'[Of(c)] = saved
        /\ yaml' = Torn /\ UNCHANGED <<whole, current>>
        /\ based' = IF Of(c) \in current THEN based \cup {c} ELSE based
    BY <1>2, <1>9, <2>1 DEF SaveConfig
  <2>3. /\ \A d \in AllCalls \ {c} : phase'[d] = phase[d] /\ content'[d] = content[d]
        /\ \A p \in Processes \ {Of(c)} : memory'[p] = memory[p]
    BY <1>2, <1>9 DEF SaveConfig
  <2> HIDE DEF saved
  <2>4. c \notin based /\ (c \in Commands => Of(c) = c)
    BY <2>2, CallsAreOfProcesses
  <2>5. Of(c) \in current => Within(whole, saved)
    BY <2>1, <2>2, <2>4, CallsAreOfProcesses, ConfigAssumption DEF Of
  <2> QED BY <1>2, <2>1, <2>2, <2>3, <2>4, <2>5, CallsAreOfProcesses
<1>10. ASSUME NEW c \in AllCalls, WriteConfig(c)
      PROVE  CurrentKnow'
  <2>1. /\ phase[c] = "write" /\ yaml' = content[c] /\ whole' = content[c] /\ based' = {}
        /\ current' = (IF c \in based THEN {Of(c)} ELSE {})
        /\ phase'[c] = (IF c \in Commands THEN "over" ELSE "idle")
        /\ memory' = IF c \in Commands THEN [memory EXCEPT ![c] = FirstConfig] ELSE memory
    BY <1>2, <1>10 DEF WriteConfig
  <2>2. c \in Commands => Of(c) = c
    BY CallsAreOfProcesses
  <2>3. c \notin Commands => Of(c) \notin Commands
    BY ConfigAssumption DEF Of, AllCalls
  <2> QED BY <1>2, <2>1, <2>2, <2>3
<1> QED
  BY <1>1, <1>3, <1>4, <1>5, <1>6, <1>7, <1>8, <1>9, <1>10 DEF ConfigNext

\* A process that is not the daemon knows the rooms of what was last written as it knows its
\* networks: a command has them in its copy, the DirectBackend among its subscriptions, and
\* the content that either has made has them too.  The daemon's subscriptions are its own.
RoomsOf(p) == IF p = Direct THEN rooms[p] ELSE memory[p].rooms
RoomsKnown ==
  /\ \A p \in current \ {Server} : (p \in Commands => phase[p] # "over")
                                     => whole.rooms \subseteq RoomsOf(p)
  /\ \A c \in based \ Calls : /\ whole.rooms \subseteq content[c].rooms
                              /\ content[c].rooms \subseteq RoomsOf(c)

\* Whoever loads takes the rooms over with the rest, and a join only adds one.
LEMMA RoomsStayKnown ==
  ASSUME ConfigTypeOK, ChangesFit, CurrentKnow, RoomsKnown, [ConfigNext]_configVars
  PROVE  RoomsKnown'
<1> USE DEF RoomsKnown, RoomsOf, Awaits, historyVars
<1>1. CASE UNCHANGED configVars
  BY <1>1 DEF configVars
<1>2. /\ memory \in [Processes -> Config] /\ content \in [AllCalls -> Config]
      /\ rooms \in [Processes -> SUBSET HomeRooms]
      /\ current \subseteq Processes /\ based \subseteq AllCalls
      /\ DOMAIN phase = AllCalls /\ DOMAIN memory = Processes /\ DOMAIN content = AllCalls
      /\ DOMAIN rooms = Processes
  BY DEF ConfigTypeOK
<1>3. \A p \in Processes \ {Server, Direct} : p \in Commands
  BY DEF Processes
<1>4. \A d \in AllCalls \ Calls : Of(d) = d /\ d \in Processes \ {Server}
                                  /\ (d # Direct => d \in Commands)
  BY CallsAreOfProcesses DEF Of, AllCalls
<1>5. CASE OpenDirect
  BY <1>2, <1>5, CallsAreOfProcesses DEF OpenDirect
<1>6. ASSUME NEW c \in AllCalls, NEW ch, CallArrives(c, ch) \/ StatConfig(c)
      PROVE  RoomsKnown'
  <2>1. c \notin Commands
    BY <1>6 DEF CallArrives, StatConfig, ChangesFit
  <2>2. UNCHANGED <<memory, rooms, content, whole, current, based>>
    BY <1>6 DEF CallArrives, StatConfig
  <2>3. \A d \in AllCalls \ {c} : phase'[d] = phase[d]
    BY <1>2, <1>6 DEF CallArrives, StatConfig
  <2> QED BY <1>2, <2>1, <2>2, <2>3, CallsAreOfProcesses
<1>7. ASSUME NEW c \in AllCalls, ServeCall(c)
      PROVE  RoomsKnown'
  <2>1. c \notin Commands /\ UNCHANGED <<memory, content, whole, current, based>>
    BY <1>7 DEF ServeCall
  <2>2. \A d \in AllCalls \ {c} : phase'[d] = phase[d]
    BY <1>2, <1>7 DEF ServeCall
  <2>3. rooms[Direct] \subseteq rooms'[Direct]
    BY <1>2, <1>7, CallsAreOfProcesses DEF ServeCall, Processes
  <2> QED BY <1>2, <1>4, <2>1, <2>2, <2>3, CallsAreOfProcesses
<1>8. ASSUME NEW c \in AllCalls, NEW ch, StartCommand(c, ch)
      PROVE  RoomsKnown'
  <2>1. /\ c \in Commands /\ phase'[c] = "work" /\ phase[c] = "idle"
        /\ UNCHANGED <<yaml, content, whole, based, rooms>>
        /\ c \in Processes /\ c # Direct
    BY <1>2, <1>8, CallsAreOfProcesses DEF StartCommand
  <2>2. /\ \A d \in AllCalls \ {c} : phase'[d] = phase[d]
        /\ \A p \in Processes \ {c} : memory'[p] = memory[p]
    BY <1>2, <1>8 DEF StartCommand
  <2>3. c \notin current /\ (c \in current' => memory'[c] = whole) /\ c \notin based
    BY <1>2, <1>8, <2>1 DEF StartCommand, CurrentKnow
  <2>4. current' \subseteq current \cup {c}
    BY <1>8 DEF StartCommand
  <2> QED BY <1>2, <1>4, <2>1, <2>2, <2>3, <2>4, CallsAreOfProcesses
<1>9. ASSUME NEW c \in AllCalls, LoadConfig(c)
      PROVE  RoomsKnown'
  <2>1. c \notin Commands /\ c \notin based /\ UNCHANGED <<yaml, content, whole, based>>
    BY <1>9 DEF LoadConfig, ChangesFit, CurrentKnow
  <2>2. \A d \in AllCalls \ {c} : phase'[d] = phase[d]
    BY <1>2, <1>9 DEF LoadConfig
  <2>3. CASE UNCHANGED <<memory, rooms, current>>
    BY <1>2, <2>1, <2>2, <2>3, CallsAreOfProcesses
  <2>4. CASE yaml # Torn /\ Adopt(Of(c), yaml) /\ current' = current \cup {Of(c)}
    <3>1. based = {} /\ yaml = whole
      BY <2>4 DEF CurrentKnow
    <3>2. Of(c) \in {Server, Direct} /\ Of(c) \notin Commands
      BY <2>1, CallsAreOfProcesses, ConfigAssumption DEF Of, AllCalls
    <3>3. /\ \A p \in Processes \ {Of(c)} : memory'[p] = memory[p]
          /\ Of(c) = Direct => rooms'[Direct] = whole.rooms
          /\ Of(c) # Direct => rooms' = rooms
      BY <1>2, <2>4, <3>1, <3>2, CallsAreOfProcesses DEF Adopt, Processes
    <3>4. ASSUME NEW p \in current' \ {Server}, p \in Commands => phase'[p] # "over"
          PROVE  whole'.rooms \subseteq RoomsOf(p)'
      <4>1. CASE p = Direct
        <5>1. CASE Of(c) = Direct
          BY <2>1, <3>3, <4>1, <5>1
        <5>2. CASE Of(c) # Direct
          BY <2>1, <2>4, <3>3, <4>1, <5>2, CallsAreOfProcesses
        <5> QED BY <5>1, <5>2
      <4>2. CASE p # Direct
        BY <1>2, <1>3, <2>1, <2>2, <2>4, <3>2, <3>3, <3>4, <4>2, CallsAreOfProcesses
      <4> QED BY <4>1, <4>2
    <3> QED BY <2>1, <3>1, <3>4
  <2> QED BY <1>9, <2>3, <2>4 DEF LoadConfig
<1>10. ASSUME NEW c \in AllCalls, RunCommand(c)
      PROVE  RoomsKnown'
  <2>1. /\ c \in Commands /\ phase[c] = "work" /\ phase'[c] \in {"save", "over"}
        /\ UNCHANGED <<content, whole, current, based, rooms>>
        /\ c \in Processes
    BY <1>2, <1>10, CallsAreOfProcesses DEF RunCommand
  <2>2. /\ \A d \in AllCalls \ {c} : phase'[d] = phase[d]
        /\ \A p \in Processes \ {c} : memory'[p] = memory[p]
    BY <1>2, <1>10 DEF RunCommand
  <2>3. memory'[c].rooms = memory[c].rooms
    <3>1. memory'[c] = memory[c]
          \/ memory' = [memory EXCEPT ![c].nets = memory[c].nets \cup {change[c].net}]
          \/ memory' = [memory EXCEPT ![c].bound = memory[c].bound \cup {change[c].net}]
      BY <1>10 DEF RunCommand
    <3> QED BY <1>2, <2>1, <3>1 DEF Config
  <2> QED BY <1>2, <1>4, <2>1, <2>2, <2>3, CallsAreOfProcesses
<1>11. ASSUME NEW c \in AllCalls, SaveConfig(c)
      PROVE  RoomsKnown'
  <2> DEFINE saved == ToSave(c)
  <2>1. /\ phase[c] = "save" /\ phase'[c] = "write" /\ content'[c] = saved
        /\ memory' = [memory EXCEPT ![Of(c)] = saved]
        /\ UNCHANGED <<whole, current, rooms>>
        /\ based' = IF Of(c) \in current THEN based \cup {c} ELSE based
    BY <1>2, <1>11 DEF SaveConfig
  <2>2. /\ \A d \in AllCalls \ {c} : phase'[d] = phase[d] /\ content'[d] = content[d]
        /\ \A p \in Processes \ {Of(c)} : memory'[p] = memory[p]
        /\ memory'[Of(c)] = saved
    BY <1>2, <1>11, <2>1, CallsAreOfProcesses DEF SaveConfig
  <2>3. c \notin based
    BY <2>1 DEF CurrentKnow
  <2>4. c \notin Calls => saved.rooms = RoomsOf(c)
    <3>1. CASE c \in Commands
      BY <3>1, CallsAreOfProcesses DEF ToSave
    <3>2. CASE c = Direct
      BY <1>2, <3>2, CallsAreOfProcesses DEF ToSave, Config
    <3> QED BY <3>1, <3>2 DEF AllCalls
  <2> HIDE DEF saved
  <2>5. \A p \in Processes \ {Server} : RoomsOf(p)' = RoomsOf(p)
    <3>1. CASE c \in Calls
      BY <2>1, <2>2, <3>1, CallsAreOfProcesses
    <3>2. CASE c \notin Calls
      BY <1>4, <2>1, <2>2, <2>4, <3>2
    <3> QED BY <3>1, <3>2
  <2>6. \A p \in Commands : phase'[p] # "over" => phase[p] # "over"
    BY <2>1, <2>2, CallsAreOfProcesses
  <2>7. c \notin Calls /\ c \in based' => whole.rooms \subseteq RoomsOf(c)
    BY <1>4, <2>1, <2>3
  <2> HIDE DEF RoomsOf
  <2>8. ASSUME NEW p \in current' \ {Server}, p \in Commands => phase'[p] # "over"
        PROVE  whole'.rooms \subseteq RoomsOf(p)'
    BY <1>2, <2>1, <2>5, <2>6, <2>8
  <2>9. ASSUME NEW d \in based' \ Calls
        PROVE  whole'.rooms \subseteq content'[d].rooms /\ content'[d].rooms \subseteq RoomsOf(d)'
    <3>1. d \in AllCalls \ Calls /\ RoomsOf(d)' = RoomsOf(d)
      BY <1>2, <1>4, <2>1, <2>5
    <3>2. CASE d = c
      BY <2>1, <2>4, <2>7, <3>1, <3>2
    <3>3. CASE d # c
      BY <2>1, <2>2, <3>1, <3>3
    <3> QED BY <3>2, <3>3
  <2> QED BY <2>8, <2>9
<1>12. ASSUME NEW c \in AllCalls, WriteConfig(c)
      PROVE  RoomsKnown'
  <2>1. /\ phase[c] = "write" /\ whole' = content[c] /\ based' = {} /\ rooms' = rooms
        /\ current' = (IF c \in based THEN {Of(c)} ELSE {})
        /\ phase'[c] = (IF c \in Commands THEN "over" ELSE "idle")
    BY <1>2, <1>12 DEF WriteConfig
  <2>2. CASE c \in Calls
    BY <2>1, <2>2, CallsAreOfProcesses
  <2>3. CASE c \in Commands
    BY <2>1, <2>3, CallsAreOfProcesses
  <2>4. CASE c = Direct
    BY <2>1, <2>4, CallsAreOfProcesses
  <2> QED BY <2>2, <2>3, <2>4 DEF AllCalls
<1> QED
  BY <1>1, <1>5, <1>6, <1>7, <1>8, <1>9, <1>10, <1>11, <1>12 DEF ConfigNext

\* A save makes the file unseen, and the daemon takes it for seen before it loads it: the call
\* that did is still to load while the networks are missing.
LEMMA SeenStayServed ==
  ASSUME ConfigTypeOK, ChangesFit, SeenIsServed, [ConfigNext]_configVars
  PROVE  SeenIsServed'
<1> USE DEF SeenIsServed, Awaits, historyVars
<1>1. CASE UNCHANGED configVars
  BY <1>1 DEF configVars
<1>2. DOMAIN phase = AllCalls
  BY DEF ConfigTypeOK
<1>3. CASE OpenDirect
  BY <1>2, <1>3, CallsAreOfProcesses DEF OpenDirect
<1>4. ASSUME NEW c \in AllCalls, NEW ch, CallArrives(c, ch) \/ ServeCall(c)
      PROVE  SeenIsServed'
  BY <1>2, <1>4, CallsAreOfProcesses DEF CallArrives, ServeCall
<1>5. ASSUME NEW c \in AllCalls, NEW ch, StartCommand(c, ch)
      PROVE  SeenIsServed'
  BY <1>2, <1>5, CallsAreOfProcesses DEF StartCommand
<1>6. ASSUME NEW c \in AllCalls, StatConfig(c)
      PROVE  SeenIsServed'
  BY <1>2, <1>6, CallsAreOfProcesses DEF StatConfig
<1>7. ASSUME NEW c \in AllCalls, LoadConfig(c)
      PROVE  SeenIsServed'
  BY <1>2, <1>7, CallsAreOfProcesses DEF LoadConfig, Adopt
<1>8. ASSUME NEW c \in AllCalls, RunCommand(c)
      PROVE  SeenIsServed'
  BY <1>2, <1>8, CallsAreOfProcesses DEF RunCommand
<1>9. ASSUME NEW c \in AllCalls, SaveConfig(c) \/ WriteConfig(c)
      PROVE  SeenIsServed'
  BY <1>9 DEF SaveConfig, WriteConfig
<1> QED
  BY <1>1, <1>3, <1>4, <1>5, <1>6, <1>7, <1>8, <1>9 DEF ConfigNext

\* The inductive invariant of the configuration.
ConfigInv == ConfigTypeOK /\ ChangesFit /\ CurrentKnow /\ RoomsKnown /\ SeenIsServed

\* It holds in every reachable state.
LEMMA ConfigInvHolds == ConfigSpec => []ConfigInv
<1>1. ConfigInit => ConfigInv
  <2> SUFFICES ASSUME ConfigInit
               PROVE  ConfigInv
    OBVIOUS
  <2>1. FirstConfig \in Config /\ FirstConfig.nets = {Home}
    BY ConfigAssumption DEF FirstConfig, Config
  <2>2. ConfigTypeOK
    BY <2>1, ConfigAssumption, CallsAreOfProcesses DEF ConfigInit, ConfigTypeOK
  <2>3. ChangesFit
    BY CallsAreOfProcesses DEF ConfigInit, ChangesFit
  <2>4. CurrentKnow
    BY CallsAreOfProcesses DEF ConfigInit, CurrentKnow, Within
  <2>5. SeenIsServed
    BY <2>1 DEF ConfigInit, SeenIsServed
  <2>6. RoomsKnown
    BY DEF ConfigInit, RoomsKnown, FirstConfig
  <2> QED
    BY <2>2, <2>3, <2>4, <2>5, <2>6 DEF ConfigInv
<1>2. ConfigInv /\ [ConfigNext]_configVars => ConfigInv'
  BY ConfigStepTyped, CurrentStay, RoomsStayKnown, SeenStayServed DEF ConfigInv
<1> QED
  BY <1>1, <1>2, PTL DEF ConfigSpec

\* Every value stays what the code takes it for.
THEOREM ConfigTyped == ConfigSpec => []ConfigTypeOK
<1>1. ConfigInv => ConfigTypeOK
  BY DEF ConfigInv
<1> QED
  BY <1>1, ConfigInvHolds, PTL

\* Whatever moment of a save a stat and a load have hit.
THEOREM SeenStaysServed == ConfigSpec => []SeenIsServed
<1>1. ConfigInv => SeenIsServed
  BY DEF ConfigInv
<1> QED
  BY <1>1, ConfigInvHolds, PTL

\* A save ends with the write of the call that is saving, and with no other step.
LEMMA OnlyWriteSaves ==
  ASSUME ConfigTypeOK, ConfigNext, NEW c \in AllCalls, Saved(c)
  PROVE  WriteConfig(c)
BY CallsAreOfProcesses
   DEF ConfigTypeOK, ConfigNext, Saved, Awaits, OpenDirect, CallArrives, StartCommand,
   StatConfig, LoadConfig, ServeCall, RunCommand, SaveConfig, WriteConfig

\* However many commands and calls load and save, only those that overlap lose anything.
THEOREM SavesKeepWhatIsKnown == ConfigSpec => OnlyOverlapsLose
<1> DEFINE A == \A c \in AllCalls :
                  Saved(c) /\ UpToDate(c) =>
                    /\ whole.nets \subseteq whole'.nets /\ whole.bound \subseteq whole'.bound
                    /\ whole.agent = whole'.agent
<1>1. ConfigInv /\ [ConfigNext]_configVars => [A]_configVars
  <2> SUFFICES ASSUME ConfigInv, ConfigNext, NEW c \in AllCalls, Saved(c), UpToDate(c)
               PROVE  /\ whole.nets \subseteq whole'.nets /\ whole.bound \subseteq whole'.bound
                      /\ whole.agent = whole'.agent
    OBVIOUS
  <2>1. WriteConfig(c)
    BY OnlyWriteSaves DEF ConfigInv
  <2> QED
    BY <2>1 DEF WriteConfig, ConfigInv, CurrentKnow, Within, UpToDate
<1> QED
  BY ConfigInvHolds, <1>1, PTL DEF ConfigSpec, OnlyOverlapsLose

\* What JoinsSurvive asks of every save holds of all but the daemon's: a command and the
\* DirectBackend that are up to date keep the rooms that were joined.  The daemon alone
\* saves its own subscriptions over what it has loaded (refreshConfig of daemon.ts).
THEOREM OthersKeepJoins ==
  ConfigSpec => [][\A c \in AllCalls \ Calls :
                     Saved(c) /\ UpToDate(c) => whole.rooms \subseteq whole'.rooms]_configVars
<1> DEFINE A == \A c \in AllCalls \ Calls :
                  Saved(c) /\ UpToDate(c) => whole.rooms \subseteq whole'.rooms
<1>1. ConfigInv /\ [ConfigNext]_configVars => [A]_configVars
  <2> SUFFICES ASSUME ConfigInv, ConfigNext, NEW c \in AllCalls \ Calls, Saved(c), UpToDate(c)
               PROVE  whole.rooms \subseteq whole'.rooms
    OBVIOUS
  <2>1. WriteConfig(c)
    BY OnlyWriteSaves DEF ConfigInv
  <2> QED
    BY <2>1 DEF WriteConfig, ConfigInv, RoomsKnown, UpToDate
<1> QED
  BY ConfigInvHolds, <1>1, PTL DEF ConfigSpec

=============================================================================
