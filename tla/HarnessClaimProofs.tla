-------------------------- MODULE HarnessClaimProofs --------------------------
(* Proofs about the lock and the hooks that run under it, for any processes, *)
(* workers, tasks and lease.  Of HarnessLock: with crashes, stalls and       *)
(* timeouts, only robbery breaks exclusion, and every lock has an owner or a *)
(* creator.  Of HarnessClaim: as long as no lock is robbed, the hooks that   *)
(* read and write the board in steps implement the atomic board of           *)
(* TaskClaim.                                                                *)
EXTENDS HarnessClaim, TaskClaimProofs

------------------------------------------------------------------------------
(* The lock                                                                 *)

(* A process that owns the lock and was not robbed made the directory that  *)
(* is at the lock path now.  Two such processes are therefore the same.     *)
OwnerMadeIt ==
    \A p \in Procs : Owning(p) /\ p \notin robbed => maker = p /\ lockdir # Absent

LockInv == LockTypeOK /\ OwnerMadeIt

(* Type correctness of the lock: every variable stays in its range.         *)
THEOREM LockTypeCorrect == LockSpec => []LockTypeOK
<1>1. LockInit => LockTypeOK
  BY LockAssumption DEF LockInit, LockTypeOK, Locations
<1>2. LockTypeOK /\ [LockNext]_lockVars => LockTypeOK'
  <2> SUFFICES ASSUME LockTypeOK, [LockNext]_lockVars
               PROVE  LockTypeOK'
    OBVIOUS
  <2> USE LockAssumption DEF LockTypeOK, Locations, Goto
  <2>1. ASSUME NEW p \in Procs, AcquireStep(p)
        PROVE  LockTypeOK'
    <3>1. CASE Mkdir(p)
      BY <3>1 DEF Mkdir
    <3>2. CASE WritePid(p)
      BY <3>2 DEF WritePid
    <3>3. CASE ReadNoPid(p)
      BY <3>3 DEF ReadNoPid, RetryOrTimeOut
    <3>4. CASE ReadPid(p)
      BY <3>4 DEF ReadPid
    <3>5. CASE CheckPid(p)
      BY <3>5 DEF CheckPid, RetryOrTimeOut
    <3>6. CASE Rename(p)
      BY <3>6 DEF Rename, RetryOrTimeOut, TakeAway
    <3> QED
      BY <2>1, <3>1, <3>2, <3>3, <3>4, <3>5, <3>6 DEF AcquireStep
  <2>2. ASSUME NEW p \in Procs, ReleaseUnlink(p)
        PROVE  LockTypeOK'
    BY <2>2 DEF ReleaseUnlink
  <2>3. ASSUME NEW p \in Procs, ReleaseStep(p)
        PROVE  LockTypeOK'
    BY <2>3 DEF ReleaseStep, ReleaseRmdir, Exit, TakeAway
  <2>4. ASSUME NEW p \in Procs, Environment(p)
        PROVE  LockTypeOK'
    BY <2>4 DEF Environment, Start, Crash, Deadline, SecondPasses
  <2>5. CASE UNCHANGED lockVars
    BY <2>5 DEF lockVars
  <2> QED
    BY <2>1, <2>2, <2>3, <2>4, <2>5 DEF LockNext
<1> QED
  BY <1>1, <1>2, PTL DEF LockSpec

(* Taking a directory away leaves no owner that was not robbed, except      *)
(* possibly the process that took it.                                       *)
LEMMA TakeAwayRobs ==
  ASSUME LockTypeOK, OwnerMadeIt, NEW p \in Procs, TakeAway(p), ~Owning(p),
         NEW q \in Procs, Owning(q)
  PROVE  q \in robbed'
BY DEF TakeAway, OwnerMadeIt, LockTypeOK

(* Who made the directory: the invariant the exclusion rests on.            *)
THEOREM OwnersMadeIt == LockSpec => []LockInv
<1>1. LockInit => LockInv
  BY LockAssumption DEF LockInit, LockInv, LockTypeOK, OwnerMadeIt, Owning, Locations
<1>2. LockTypeOK /\ OwnerMadeIt /\ [LockNext]_lockVars => OwnerMadeIt'
  <2> SUFFICES ASSUME LockTypeOK, OwnerMadeIt, [LockNext]_lockVars,
                      NEW q \in Procs, Owning(q)', q \notin robbed'
               PROVE  (maker = q /\ lockdir # Absent)'
    BY DEF OwnerMadeIt
  <2> USE LockAssumption DEF Goto
  <2>1. ASSUME NEW p \in Procs, AcquireStep(p)
        PROVE  (maker = q /\ lockdir # Absent)'
    <3>1. CASE Mkdir(p)
      BY <3>1 DEF Mkdir, OwnerMadeIt, Owning, LockTypeOK
    <3>2. CASE WritePid(p)
      BY <3>2 DEF WritePid, OwnerMadeIt, Owning, LockTypeOK
    <3>3. CASE ReadNoPid(p)
      BY <3>3 DEF ReadNoPid, RetryOrTimeOut, OwnerMadeIt, Owning, LockTypeOK
    <3>4. CASE ReadPid(p)
      BY <3>4 DEF ReadPid, OwnerMadeIt, Owning, LockTypeOK
    <3>5. CASE CheckPid(p)
      BY <3>5 DEF CheckPid, RetryOrTimeOut, OwnerMadeIt, Owning, LockTypeOK
    <3>6. CASE Rename(p)
      <4>1. ~Owning(p) /\ (Owning(q)' => Owning(q))
        BY <3>6 DEF Rename, RetryOrTimeOut, Owning, LockTypeOK
      <4>2. CASE TakeAway(p)
        BY <4>1, <4>2, TakeAwayRobs
      <4>3. CASE UNCHANGED <<lockdir, maker, robbed>>
        BY <4>1, <4>3 DEF OwnerMadeIt
      <4> QED
        BY <3>6, <4>2, <4>3 DEF Rename
    <3> QED
      BY <2>1, <3>1, <3>2, <3>3, <3>4, <3>5, <3>6 DEF AcquireStep
  <2>2. ASSUME NEW p \in Procs, ReleaseUnlink(p)
        PROVE  (maker = q /\ lockdir # Absent)'
    BY <2>2 DEF ReleaseUnlink, OwnerMadeIt, Owning, LockTypeOK
  <2>3. ASSUME NEW p \in Procs, ReleaseRmdir(p)
        PROVE  (maker = q /\ lockdir # Absent)'
    <3>1. ~Owning(p) /\ (Owning(q)' => Owning(q))
      BY <2>3 DEF ReleaseRmdir, Owning, LockTypeOK
    <3>2. CASE TakeAway(p)
      BY <3>1, <3>2, TakeAwayRobs
    <3>3. CASE UNCHANGED <<lockdir, maker, robbed>>
      BY <3>1, <3>3 DEF OwnerMadeIt
    <3> QED
      BY <2>3, <3>2, <3>3 DEF ReleaseRmdir
  <2>4. ASSUME NEW p \in Procs, Exit(p) \/ Environment(p)
        PROVE  (maker = q /\ lockdir # Absent)'
    BY <2>4 DEF Exit, Environment, Start, Crash, Deadline, SecondPasses,
                OwnerMadeIt, Owning, LockTypeOK
  <2>5. CASE UNCHANGED lockVars
    BY <2>5 DEF lockVars, OwnerMadeIt, Owning
  <2> QED
    BY <2>1, <2>2, <2>3, <2>4, <2>5 DEF LockNext, ReleaseStep
<1> QED
  BY <1>1, <1>2, LockTypeCorrect, PTL DEF LockSpec, LockInv

(* mkdir is the only way in: two simultaneous holders mean that one of them *)
(* was robbed of its directory, for any number of processes.                *)
THEOREM OnlyRobberyBreaksExclusion == LockSpec => []ExclusiveUnlessRobbed
<1>1. LockInv => ExclusiveUnlessRobbed
  BY DEF LockInv, OwnerMadeIt, ExclusiveUnlessRobbed, Owning
<1> QED
  BY <1>1, OwnersMadeIt, PTL

(* The pid in the directory is never that of a process that has begun to    *)
(* release the lock, and a directory without a pid has a process at its     *)
(* edges, or one that was killed: of steals and releases in any order, none *)
(* leaves a directory that no process accounts for.                         *)
THEOREM PidNamesHolder == LockSpec => []NoOrphanLock
<1>1. LockInit => NoOrphanLock
  BY LockAssumption DEF LockInit, NoOrphanLock
<1>2. LockTypeOK /\ NoOrphanLock /\ [LockNext]_lockVars => NoOrphanLock'
  <2> SUFFICES ASSUME LockTypeOK, NoOrphanLock, [LockNext]_lockVars
               PROVE  NoOrphanLock'
    OBVIOUS
  <2> USE LockAssumption DEF LockTypeOK, NoOrphanLock, InWindow, Goto
  <2>1. ASSUME NEW p \in Procs, AcquireStep(p)
        PROVE  NoOrphanLock'
    <3>1. CASE Mkdir(p)
      BY <3>1 DEF Mkdir
    <3>2. CASE WritePid(p)
      BY <3>2 DEF WritePid
    <3>3. CASE ReadNoPid(p)
      BY <3>3 DEF ReadNoPid, RetryOrTimeOut
    <3>4. CASE ReadPid(p)
      BY <3>4 DEF ReadPid
    <3>5. CASE CheckPid(p)
      BY <3>5 DEF CheckPid, RetryOrTimeOut
    <3>6. CASE Rename(p)
      BY <3>6 DEF Rename, RetryOrTimeOut, TakeAway
    <3> QED
      BY <2>1, <3>1, <3>2, <3>3, <3>4, <3>5, <3>6 DEF AcquireStep
  <2>2. ASSUME NEW p \in Procs, ReleaseUnlink(p)
        PROVE  NoOrphanLock'
    BY <2>2 DEF ReleaseUnlink
  <2>3. ASSUME NEW p \in Procs, ReleaseStep(p)
        PROVE  NoOrphanLock'
    BY <2>3 DEF ReleaseStep, ReleaseRmdir, Exit, TakeAway
  <2>4. ASSUME NEW p \in Procs, Environment(p)
        PROVE  NoOrphanLock'
    BY <2>4 DEF Environment, Start, Crash, Deadline, SecondPasses, Alive
  <2>5. CASE UNCHANGED lockVars
    BY <2>5 DEF lockVars
  <2> QED
    BY <2>1, <2>2, <2>3, <2>4, <2>5 DEF LockNext
<1> QED
  BY <1>1, <1>2, LockTypeCorrect, PTL DEF LockSpec

------------------------------------------------------------------------------
(* The hooks under the lock                                                 *)

(* Where a process is in its transaction fits where it is in the lock, only *)
(* a renewal comes to "renew", and no hook kills a worker.                  *)
StageFits ==
    /\ \A p \in Procs :
         pc[p] \in {"idle", "mkdir", "write", "read", "check", "rename"} => stage[p] = "load"
    /\ \A p \in Procs : stage[p] = "renew" => Target[p] \in Tasks
    /\ dead = {}

(* What a process that still owns the lock has in memory is what the file   *)
(* holds: nobody writes the board between its read and its write.           *)
CopyIsCurrent ==
    robbed = {} =>
        \A p \in Procs : pc[p] = "held" /\ stage[p] \in {"reap", "pick", "renew"} => copy[p] = board

(* Within one tick, the task is picked from a board without expired leases  *)
(* and the lease handed out is a whole one.                                 *)
PickIsFresh ==
    ~slow => \A p \in Procs : At(p, "pick") => Expired(copy[p]) = {} /\ grant[p] = Lease

HookInv == HookTypeOK /\ StageFits /\ CopyIsCurrent /\ PickIsFresh

------------------------------------------------------------------------------
(* Boards a process may have in memory: what the operators of TaskClaim     *)
(* make of them.                                                            *)
LEMMA ReapedCopyType ==
  ASSUME NEW b \in [Tasks -> TaskRecord]
  PROVE  Reaped(b) \in [Tasks -> TaskRecord]
BY BoardAssumption DEF Reaped, Row, TaskRecord, Statuses, NoLease

LEMMA AgedType ==
  ASSUME NEW b \in [Tasks -> TaskRecord]
  PROVE  Aged(b) \in [Tasks -> TaskRecord]
BY BoardAssumption DEF Aged, Elapse, Row, TaskRecord, NoLease

LEMMA NothingExpired ==
  ASSUME NEW b \in [Tasks -> TaskRecord]
  PROVE  /\ Expired(Reaped(b)) = {}
         /\ Expired(b) = {} => Reaped(b) = b
BY DEF Reaped, Expired, Row

------------------------------------------------------------------------------
(* The lock below the board is the lock of HarnessLock.                     *)
THEOREM HooksUseTheLock == Spec => LockSpec
<1>1. Init => LockInit
  BY DEF Init
<1>2. [Next]_vars => [LockNext]_lockVars
  BY DEF Next, vars, Transaction, LoadState, ReapLeases, PickTask, RenewIfOwned, LockStep,
         LockNext, SessionStep, LogStep, TimeStep
<1> QED
  BY <1>1, <1>2, PTL DEF Spec, LockSpec

(* With nobody robbed, a process inside the lock is the only one, and the   *)
(* lock directory is there.                                                 *)
LEMMA HolderIsAlone ==
  ASSUME LockInv, robbed = {}, NEW p \in Procs, pc[p] = "held"
  PROVE  /\ lockdir # Absent
         /\ \A q \in Procs \ {p} : pc[q] # "held"
BY DEF LockInv, OwnerMadeIt, Owning, LockTypeOK

LEMMA HookInit ==
  ASSUME Init
  PROVE  HookInv
<1>1. BoardTypeOK
  BY BoardAssumption DEF Init, BoardInit, BoardTypeOK, Row, TaskRecord, Statuses, NoLease
<1>2. LockTypeOK
  BY LockAssumption DEF Init, LockInit, LockTypeOK, Locations
<1>3. HookTypeOK
  BY <1>1, <1>2, BoardAssumption DEF Init, HookTypeOK, Stages, BoardTypeOK
<1> QED
  BY <1>3 DEF Init, HookInv, LockInit, BoardInit, StageFits, CopyIsCurrent, PickIsFresh, At

(* Type correctness of the hooks' memory and of the board they write.       *)
LEMMA HookTypeStep ==
  ASSUME HookTypeOK, LockTypeOK', StageFits, [Next]_vars
  PROVE  HookTypeOK'
<1> USE BoardAssumption, HookAssumption
<1>1. ASSUME NEW p \in Procs, LoadState(p)
      PROVE  HookTypeOK'
  BY <1>1 DEF LoadState, HookTypeOK, Enter, Stages, BoardTypeOK, boardVars, lockVars
<1>2. ASSUME NEW p \in Procs, ReapLeases(p)
      PROVE  HookTypeOK'
  <2>1. Reaped(copy[p]) \in [Tasks -> TaskRecord]
    BY ReapedCopyType DEF HookTypeOK
  <2>2. board' \in [Tasks -> TaskRecord] /\ copy' \in [Procs -> [Tasks -> TaskRecord]]
    <3>1. CASE Expired(copy[p]) # {}
      BY <1>2, <2>1, <3>1 DEF ReapLeases, Write, HookTypeOK
    <3>2. CASE Expired(copy[p]) = {}
      BY <1>2, <3>2 DEF ReapLeases, HookTypeOK, BoardTypeOK
    <3> QED
      BY <3>1, <3>2
  <2>3. grant' \in [Procs -> 0 .. Lease] /\ stage' \in [Procs -> Stages]
    BY <1>2 DEF ReapLeases, HookTypeOK, Enter, Stages
  <2> QED
    BY <1>2, <2>2, <2>3 DEF ReapLeases, HookTypeOK, BoardTypeOK
<1>3. ASSUME NEW p \in Procs, PickTask(p)
      PROVE  HookTypeOK'
  <2>1. CASE UNCHANGED <<board, copy, belief, runs>>
    BY <1>3, <2>1 DEF PickTask, HookTypeOK, Enter, Stages, BoardTypeOK, lockVars
  <2>2. CASE ~UNCHANGED <<board, copy, belief, runs>>
    <3>1. PICK t \in Tasks : /\ Write(p, Leased(copy[p], t, Owner[p], grant[p]))
                             /\ Tell(Owner[p], t, grant[p])
                             /\ Begin(t)
      BY <1>3, <2>2 DEF PickTask
    <3>2. Leased(copy[p], t, Owner[p], grant[p]) \in [Tasks -> TaskRecord]
      BY LeasedType DEF HookTypeOK
    <3>3. runs' \in [Tasks -> Nat]
      BY <3>1, BeginType DEF HookTypeOK
    <3>4. belief' \in [Workers -> [Tasks -> 0 .. Lease]]
      BY <3>1 DEF Tell, HookTypeOK, BoardTypeOK
    <3>5. board' \in [Tasks -> TaskRecord] /\ copy' \in [Procs -> [Tasks -> TaskRecord]]
      BY <3>1, <3>2 DEF Write, HookTypeOK
    <3> QED
      BY <1>3, <3>3, <3>4, <3>5 DEF PickTask, HookTypeOK, Enter, Stages, BoardTypeOK, lockVars
  <2> QED
    BY <2>1, <2>2
<1>4. ASSUME NEW p \in Procs, RenewIfOwned(p)
      PROVE  HookTypeOK'
  <2>1. CASE UNCHANGED <<board, copy, belief>>
    BY <1>4, <2>1 DEF RenewIfOwned, HookTypeOK, Enter, Stages, BoardTypeOK, lockVars
  <2>2. CASE ~UNCHANGED <<board, copy, belief>>
    <3>1. /\ Write(p, Leased(copy[p], Target[p], Owner[p], Lease))
          /\ Tell(Owner[p], Target[p], Lease)
          /\ Target[p] \in Tasks
      BY <1>4, <2>2 DEF RenewIfOwned, At, StageFits
    <3>2. Leased(copy[p], Target[p], Owner[p], Lease) \in [Tasks -> TaskRecord]
      <4>1. copy[p] \in [Tasks -> TaskRecord] /\ Owner[p] \in Workers /\ Lease \in 0 .. Lease
        BY DEF HookTypeOK
      <4> QED
        BY <3>1, <4>1, LeasedType
    <3>3. belief' \in [Workers -> [Tasks -> 0 .. Lease]]
      BY <3>1 DEF Tell, HookTypeOK, BoardTypeOK
    <3>4. board' \in [Tasks -> TaskRecord] /\ copy' \in [Procs -> [Tasks -> TaskRecord]]
      BY <3>1, <3>2 DEF Write, HookTypeOK
    <3> QED
      BY <1>4, <3>3, <3>4 DEF RenewIfOwned, HookTypeOK, Enter, Stages, BoardTypeOK, lockVars
  <2> QED
    BY <2>1, <2>2
<1>5. ASSUME NEW p \in Procs, LockStep(p)
      PROVE  HookTypeOK'
  BY <1>5 DEF LockStep, HookTypeOK, BoardTypeOK, boardVars, hookVars
<1>6. ASSUME NEW w \in Workers, NEW t \in Tasks, SessionStep(w, t)
      PROVE  HookTypeOK'
  <2>1. BoardTypeOK'
    BY <1>6, BoardTypeStep DEF SessionStep, BoardNext, HookTypeOK
  <2> QED
    BY <1>6, <2>1 DEF SessionStep, HookTypeOK, hookVars
<1>7. CASE TimeStep
  <2>1. board' \in [Tasks -> TaskRecord]
    BY <1>7, AgedType DEF TimeStep, Tick, HookTypeOK, BoardTypeOK
  <2>2. copy' \in [Procs -> [Tasks -> TaskRecord]]
    BY <1>7, AgedType DEF TimeStep, HookTypeOK
  <2>3. belief' \in [Workers -> [Tasks -> 0 .. Lease]] /\ grant' \in [Procs -> 0 .. Lease]
    BY <1>7 DEF TimeStep, Tick, Elapse, HookTypeOK, BoardTypeOK
  <2> QED
    BY <1>7, <2>1, <2>2, <2>3 DEF TimeStep, Tick, HookTypeOK, BoardTypeOK, lockVars
<1>8. CASE UNCHANGED vars
  BY <1>8 DEF vars, boardVars, hookVars, HookTypeOK, BoardTypeOK
<1>9. ASSUME NEW t \in Tasks, LogStep(t)
      PROVE  HookTypeOK'
  BY <1>9 DEF LogStep, LogGrows, hookVars, HookTypeOK, BoardTypeOK
<1> QED
  BY <1>1, <1>2, <1>3, <1>4, <1>5, <1>6, <1>7, <1>8, <1>9 DEF Next, Transaction

(* Lock steps move a process between the stages only at its edges.          *)
LEMMA StageStep ==
  ASSUME HookTypeOK, StageFits, [Next]_vars
  PROVE  StageFits'
<1> USE HookAssumption
<1>1. ASSUME NEW p \in Procs, Transaction(p)
      PROVE  StageFits'
  <2>1. pc' = pc /\ dead' = dead /\ pc[p] = "held"
    BY <1>1 DEF Transaction, LoadState, ReapLeases, PickTask, RenewIfOwned, At, lockVars, boardVars
  <2>2. /\ \A q \in Procs \ {p} : stage'[q] = stage[q]
        /\ stage'[p] = "renew" => Target[p] \in Tasks
    BY <1>1 DEF Transaction, LoadState, ReapLeases, PickTask, RenewIfOwned, Enter, HookTypeOK
  <2> QED
    BY <2>1, <2>2 DEF StageFits
<1>2. ASSUME NEW p \in Procs, LockStep(p)
      PROVE  StageFits'
  <2>1. /\ stage' = stage /\ dead' = dead
        /\ \A q \in Procs \ {p} : pc'[q] = pc[q]
    BY <1>2 DEF LockStep, boardVars, hookVars, HookTypeOK, LockTypeOK, AcquireStep, Mkdir, WritePid,
                ReadNoPid, ReadPid, CheckPid, Rename, RetryOrTimeOut, Goto, ReleaseUnlink,
                ReleaseStep, ReleaseRmdir, Exit, Environment, Start, Crash, Deadline, SecondPasses
  <2>2. pc'[p] \in {"idle", "mkdir", "write", "read", "check", "rename"} =>
          pc[p] \in {"idle", "mkdir", "write", "read", "check", "rename"}
    BY <1>2 DEF LockStep, HookTypeOK, LockTypeOK, AcquireStep, Mkdir, WritePid,
                ReadNoPid, ReadPid, CheckPid, Rename, RetryOrTimeOut, Goto, ReleaseUnlink,
                ReleaseStep, ReleaseRmdir, Exit, Environment, Start, Crash, Deadline, SecondPasses
  <2> QED
    BY <2>1, <2>2 DEF StageFits
<1>3. ASSUME NEW w \in Workers, NEW t \in Tasks, SessionStep(w, t)
      PROVE  StageFits'
  BY <1>3 DEF SessionStep, Complete, Fail, StageFits, hookVars, lockVars
<1>4. CASE TimeStep \/ UNCHANGED vars \/ \E t \in Tasks : LogStep(t)
  BY <1>4 DEF TimeStep, Tick, LogStep, LogGrows, StageFits, hookVars, lockVars, vars, boardVars
<1> QED
  BY <1>1, <1>2, <1>3, <1>4 DEF Next

(* Processes come inside the lock with nothing in memory yet.               *)
LEMMA EnterAtLoad ==
  ASSUME HookTypeOK, StageFits, NEW p \in Procs, LockStep(p),
         NEW q \in Procs, pc'[q] = "held"
  PROVE  /\ pc[q] = "held" \/ stage[q] = "load"
         /\ stage' = stage /\ copy' = copy /\ board' = board /\ grant' = grant /\ slow' = slow
         /\ robbed \subseteq robbed'
BY DEF LockStep, boardVars, hookVars, StageFits, HookTypeOK, LockTypeOK, AcquireStep, Mkdir,
       WritePid, ReadNoPid, ReadPid, CheckPid, Rename, RetryOrTimeOut, Goto, TakeAway,
       ReleaseUnlink, ReleaseStep, ReleaseRmdir, Exit, Environment, Start, Crash, Deadline,
       SecondPasses

(* Nobody writes the board between the read and the write of a process that *)
(* is alone.                                                                *)
LEMMA CopyStep ==
  ASSUME HookTypeOK, LockInv, StageFits, CopyIsCurrent, [Next]_vars
  PROVE  CopyIsCurrent'
<1> SUFFICES ASSUME robbed' = {}, NEW q \in Procs, pc'[q] = "held",
                    stage'[q] \in {"reap", "pick", "renew"}
             PROVE  copy'[q] = board'
  BY DEF CopyIsCurrent
<1>1. ASSUME NEW p \in Procs, Transaction(p)
      PROVE  copy'[q] = board'
  <2>1. robbed = {} /\ pc' = pc /\ pc[p] = "held"
    BY <1>1 DEF Transaction, LoadState, ReapLeases, PickTask, RenewIfOwned, At, lockVars
  <2>2. p = q
    BY <2>1, HolderIsAlone
  <2>3. CASE LoadState(p)
    BY <2>2, <2>3 DEF LoadState, HookTypeOK, boardVars
  <2>4. CASE ReapLeases(p)
    BY <2>1, <2>2, <2>4 DEF ReapLeases, At, Write, CopyIsCurrent, HookTypeOK
  <2>5. CASE PickTask(p) \/ RenewIfOwned(p)
    BY <2>2, <2>5 DEF PickTask, RenewIfOwned, Enter, HookTypeOK
  <2> QED
    BY <1>1, <2>3, <2>4, <2>5 DEF Transaction
<1>2. ASSUME NEW p \in Procs, LockStep(p)
      PROVE  copy'[q] = board'
  BY <1>2, EnterAtLoad DEF CopyIsCurrent
<1>3. ASSUME NEW w \in Workers, NEW t \in Tasks, SessionStep(w, t)
      PROVE  copy'[q] = board'
  BY <1>3, HolderIsAlone DEF SessionStep, lockVars
<1>4. CASE TimeStep
  BY <1>4 DEF TimeStep, Tick, CopyIsCurrent, lockVars
<1>5. CASE UNCHANGED vars \/ \E t \in Tasks : LogStep(t)
  BY <1>5 DEF LogStep, LogGrows, vars, lockVars, boardVars, hookVars, CopyIsCurrent
<1> QED
  BY <1>1, <1>2, <1>3, <1>4, <1>5 DEF Next

(* Leases tick before a process reads the clock or after it has written.    *)
LEMMA PickStep ==
  ASSUME HookTypeOK, StageFits, PickIsFresh, [Next]_vars
  PROVE  PickIsFresh'
<1> SUFFICES ASSUME ~slow', NEW q \in Procs, pc'[q] = "held", stage'[q] = "pick"
             PROVE  Expired(copy'[q]) = {} /\ grant'[q] = Lease
  BY DEF PickIsFresh, At
<1>1. ASSUME NEW p \in Procs, Transaction(p)
      PROVE  Expired(copy'[q]) = {} /\ grant'[q] = Lease
  <2>1. CASE p # q
    <3>1. /\ slow' = slow /\ pc' = pc
          /\ stage'[q] = stage[q] /\ grant'[q] = grant[q] /\ copy'[q] = copy[q]
      BY <1>1, <2>1
      DEF Transaction, LoadState, ReapLeases, PickTask, RenewIfOwned, Write, Enter, HookTypeOK, lockVars
    <3> QED
      BY <3>1 DEF PickIsFresh, At
  <2>2. CASE p = q /\ ReapLeases(p)
    <3>1. grant'[q] = Lease
      BY <2>2 DEF ReapLeases, HookTypeOK
    <3>2. CASE Expired(copy[p]) # {}
      <4>1. copy'[q] = Reaped(copy[q]) /\ copy[q] \in [Tasks -> TaskRecord]
        BY <2>2, <3>2 DEF ReapLeases, Write, HookTypeOK
      <4> QED
        BY <3>1, <4>1, NothingExpired
    <3>3. CASE Expired(copy[p]) = {}
      BY <2>2, <3>1, <3>3 DEF ReapLeases
    <3> QED
      BY <3>2, <3>3
  <2>3. CASE p = q /\ ~ReapLeases(p)
    BY <1>1, <2>3 DEF Transaction, LoadState, PickTask, RenewIfOwned, Enter, HookTypeOK
  <2> QED
    BY <2>1, <2>2, <2>3
<1>2. ASSUME NEW p \in Procs, LockStep(p)
      PROVE  Expired(copy'[q]) = {} /\ grant'[q] = Lease
  BY <1>2, EnterAtLoad DEF PickIsFresh, At
<1>3. ASSUME NEW w \in Workers, NEW t \in Tasks, SessionStep(w, t)
      PROVE  Expired(copy'[q]) = {} /\ grant'[q] = Lease
  BY <1>3 DEF SessionStep, PickIsFresh, At, lockVars, hookVars
<1>4. CASE TimeStep
  BY <1>4 DEF TimeStep, At, lockVars
<1>5. CASE UNCHANGED vars \/ \E t \in Tasks : LogStep(t)
  BY <1>5 DEF LogStep, LogGrows, vars, lockVars, boardVars, hookVars, PickIsFresh, At
<1> QED
  BY <1>1, <1>2, <1>3, <1>4, <1>5 DEF Next

(* The invariant of the hooks' steps, on top of that of the lock.           *)
THEOREM HooksKeepTheBoard == Spec => [](HookInv /\ LockInv)
<1>1. Init => HookInv
  BY HookInit
<1>2. HookInv /\ LockInv /\ LockInv' /\ [Next]_vars => HookInv'
  BY HookTypeStep, StageStep, CopyStep, PickStep DEF HookInv, LockInv
<1> QED
  BY <1>1, <1>2, HooksUseTheLock, OwnersMadeIt, PTL DEF Spec

------------------------------------------------------------------------------
(* With nobody robbed, the board as the processes write it moves in the     *)
(* transactions of TaskClaim, and lock steps leave it alone.                *)
LEMMA StepIsATransaction ==
  ASSUME HookInv, LockInv, robbed = {}, ~slow, [Next]_vars
  PROVE  [BoardNext]_boardVars
<1> USE HookAssumption
<1>0. dead = {}
  BY DEF HookInv, StageFits
<1>1. ASSUME NEW p \in Procs, ReapLeases(p), Expired(copy[p]) # {}
      PROVE  ReapOnly(Owner[p])
  <2>1. copy[p] = board
    BY <1>1 DEF ReapLeases, At, HookInv, CopyIsCurrent
  <2> QED
    BY <1>0, <1>1, <2>1 DEF ReapLeases, ReapOnly, Write
<1>2. ASSUME NEW p \in Procs, PickTask(p), ~UNCHANGED <<board, copy, belief, runs>>
      PROVE  \E t \in Tasks : ClaimTask(Owner[p], t)
  <2>1. copy[p] = board /\ Expired(board) = {} /\ grant[p] = Lease
    BY <1>2 DEF PickTask, At, HookInv, CopyIsCurrent, PickIsFresh
  <2>2. Reaped(board) = board
    BY <2>1, NothingExpired DEF HookInv, HookTypeOK, BoardTypeOK
  <2>3. PICK t \in Tasks : /\ IsNext(board, t)
                           /\ Write(p, Leased(board, t, Owner[p], Lease))
                           /\ Tell(Owner[p], t, Lease)
                           /\ Begin(t)
    BY <1>2, <2>1 DEF PickTask
  <2>4. ClaimTask(Owner[p], t)
    BY <1>0, <1>2, <2>2, <2>3 DEF PickTask, ClaimTask, Write
  <2> QED
    BY <2>4
<1>3. ASSUME NEW p \in Procs, RenewIfOwned(p), ~UNCHANGED <<board, copy, belief>>
      PROVE  Target[p] \in Tasks /\ Renew(Owner[p], Target[p])
  <2>1. copy[p] = board /\ Target[p] \in Tasks
    BY <1>3 DEF RenewIfOwned, At, HookInv, CopyIsCurrent, StageFits
  <2> QED
    BY <1>0, <1>3, <2>1 DEF RenewIfOwned, Renew, Write
<1>4. ASSUME NEW p \in Procs, Transaction(p)
      PROVE  [BoardNext]_boardVars
  <2>1. Owner[p] \in Workers
    OBVIOUS
  <2>2. CASE LoadState(p)
    BY <2>2 DEF LoadState
  <2>3. CASE ReapLeases(p)
    BY <1>1, <2>1, <2>3 DEF ReapLeases, BoardNext, boardVars
  <2>4. CASE PickTask(p)
    <3>1. CASE UNCHANGED <<board, copy, belief, runs>>
      BY <2>4, <3>1 DEF PickTask, boardVars
    <3>2. CASE ~UNCHANGED <<board, copy, belief, runs>>
      BY <1>2, <2>1, <2>4, <3>2 DEF BoardNext
    <3> QED
      BY <3>1, <3>2
  <2>5. CASE RenewIfOwned(p)
    <3>1. CASE UNCHANGED <<board, copy, belief>>
      BY <2>5, <3>1 DEF RenewIfOwned, boardVars
    <3>2. CASE ~UNCHANGED <<board, copy, belief>>
      BY <1>3, <2>1, <2>5, <3>2 DEF BoardNext
    <3> QED
      BY <3>1, <3>2
  <2> QED
    BY <1>4, <2>2, <2>3, <2>4, <2>5 DEF Transaction
<1>5. ASSUME NEW p \in Procs, LockStep(p)
      PROVE  [BoardNext]_boardVars
  BY <1>5 DEF LockStep
<1>6. ASSUME NEW w \in Workers, NEW t \in Tasks, SessionStep(w, t)
      PROVE  [BoardNext]_boardVars
  BY <1>6 DEF SessionStep, BoardNext
<1>7. CASE TimeStep
  BY <1>7 DEF TimeStep, BoardNext
<1>8. CASE UNCHANGED vars \/ \E t \in Tasks : LogStep(t)
  BY <1>8 DEF vars, LogStep, BoardNext
<1> QED
  BY <1>4, <1>5, <1>6, <1>7, <1>8 DEF Next

(* Until a lock is robbed, hooks that read, reap, pick and write in steps   *)
(* of their own implement the atomic board: every file replacement is one   *)
(* claim, reap, renewal or nothing.                                         *)
THEOREM HooksAreAtomic == Spec /\ []NotRobbed => AtomicBoard
<1>1. Init => BoardInit
  BY DEF Init
<1>2. HookInv /\ LockInv /\ NotRobbed /\ [Next]_vars => [slow \/ BoardNext]_boardVars
  BY StepIsATransaction DEF NotRobbed
<1> QED
  BY <1>1, <1>2, HooksKeepTheBoard, PTL DEF Spec, AtomicBoard

(* The lease a worker was told is the lease on the board, while no lock is  *)
(* robbed and no transaction takes as long as a tick.  (Without the first   *)
(* condition it is not so: the run HookRace.)                               *)
THEOREM HooksHonourLeases == Spec /\ [](NotRobbed /\ ~slow) => []LeaseHonoured
<1>1. Init => BoardInit
  BY DEF Init
<1>2. HookInv /\ LockInv /\ NotRobbed /\ ~slow /\ [Next]_vars => [BoardNext]_boardVars
  BY StepIsATransaction DEF NotRobbed
<1>3. Spec /\ [](NotRobbed /\ ~slow) => BoardSpec
  BY <1>1, <1>2, HooksKeepTheBoard, PTL DEF Spec, BoardSpec
<1> QED
  BY <1>3, LeasesAreHonoured, PTL

(* A claim leases a task that is waiting, from whatever board it read.      *)
LEMMA PickedIsWaiting ==
  ASSUME NEW b, NEW t \in Tasks, IsNext(b, t)
  PROVE  b[t].status \in {"pending", "failed"}
BY DEF IsNext, Candidates, Pending, Retryable

(* However long its leases have been running, a transaction that is not     *)
(* robbed never takes back the outcome a session has recorded.              *)
THEOREM OutcomesAreFinal == Spec /\ []NotRobbed => OutcomesStand
<1>1. HookInv /\ LockInv /\ NotRobbed /\ [Next]_vars =>
        [\A t \in Tasks : board[t].status = "completed" => board'[t].status = "completed"]_vars
  <2> SUFFICES ASSUME HookInv, LockInv, robbed = {}, Next,
                      NEW u \in Tasks, board[u].status = "completed"
               PROVE  board'[u].status = "completed"
    BY DEF NotRobbed
  <2>0. board \in [Tasks -> TaskRecord]
    BY DEF HookInv, HookTypeOK, BoardTypeOK
  <2>1. ASSUME NEW p \in Procs, Transaction(p)
        PROVE  board'[u].status = "completed"
    <3>1. CASE UNCHANGED board
      BY <3>1
    <3>2. CASE ReapLeases(p) /\ ~UNCHANGED board
      <4>1. board' = Reaped(board)
        BY <3>2 DEF ReapLeases, At, Write, HookInv, CopyIsCurrent
      <4> QED
        BY <4>1, ReapedKeeps
    <3>3. CASE PickTask(p) /\ ~UNCHANGED board
      <4>1. copy[p] = board
        BY <3>3 DEF PickTask, At, HookInv, CopyIsCurrent
      <4>2. PICK t \in Tasks : IsNext(board, t) /\ board' = Leased(board, t, Owner[p], grant[p])
        BY <3>3, <4>1 DEF PickTask, Write
      <4>3. t # u
        BY <4>2, PickedIsWaiting
      <4> QED
        BY <2>0, <4>2, <4>3 DEF Leased
    <3>4. CASE RenewIfOwned(p) /\ ~UNCHANGED board
      <4>1. copy[p] = board
        BY <3>4 DEF RenewIfOwned, At, HookInv, CopyIsCurrent
      <4>2. /\ board' = Leased(board, Target[p], Owner[p], Lease)
            /\ board[Target[p]].status = "in_progress"
        BY <3>4, <4>1 DEF RenewIfOwned, Write
      <4> QED
        BY <2>0, <4>2 DEF Leased
    <3> QED
      BY <2>1, <3>1, <3>2, <3>3, <3>4 DEF Transaction, LoadState, boardVars
  <2>2. ASSUME NEW p \in Procs, LockStep(p)
        PROVE  board'[u].status = "completed"
    BY <2>2 DEF LockStep, boardVars
  <2>3. ASSUME NEW w \in Workers, NEW t \in Tasks, SessionStep(w, t)
        PROVE  board'[u].status = "completed"
    BY <2>0, <2>3 DEF SessionStep, Complete, Fail, MayRecord
  <2>4. CASE TimeStep
    BY <2>4 DEF TimeStep, Tick, Aged, Row
  <2>5. ASSUME NEW t \in Tasks, LogStep(t)
        PROVE  board'[u].status = "completed"
    BY <2>5 DEF LogStep, LogGrows
  <2> QED
    BY <2>1, <2>2, <2>3, <2>4, <2>5 DEF Next
<1> QED
  BY <1>1, HooksKeepTheBoard, PTL DEF Spec, OutcomesStand
================================================================================
