---------------------------- MODULE TaskClaimProofs ----------------------------
(* Proofs about TaskClaim for any tasks, workers, dependencies, lease and   *)
(* retry limit.                                                             *)
EXTENDS TaskClaim, TLAPS

(* One completed task more and none fewer: what a transaction does to the   *)
(* set of completed tasks.                                                  *)
CompletedGrows == Completed(board) \subseteq Completed(board')

(* How the number of starts relates to the two failure counts of a task     *)
(* whose lines are all found.                                               *)
RunsAccounted(t) ==
    /\ board[t].status = "pending" => runs[t] = 0
    /\ board[t].status = "failed" => runs[t] <= board[t].attempts + errors[t]
    /\ board[t].status = "in_progress" => runs[t] <= board[t].attempts + errors[t] + 1
    /\ runs[t] <= 2 * MaxAttempts - 1

(* The same of a task nobody forgets: the self-reported count is exact.     *)
RunsExact(t) ==
    /\ board[t].status = "pending" => runs[t] = 0
    /\ board[t].status = "failed" => runs[t] <= board[t].attempts
    /\ board[t].status = "in_progress" => runs[t] <= board[t].attempts + 1
    /\ runs[t] <= MaxAttempts

AllRunsAccounted == \A t \in Tasks \ Unlogged : RunsAccounted(t)
AllRunsExact == \A t \in Tasks \ Forgetful : RunsExact(t)

------------------------------------------------------------------------------
LEMMA ReapedType ==
  ASSUME BoardTypeOK
  PROVE  Reaped(board) \in [Tasks -> TaskRecord]
BY BoardAssumption DEF BoardTypeOK, Reaped, Row, TaskRecord, Statuses, NoLease

LEMMA LeasedType ==
  ASSUME NEW b \in [Tasks -> TaskRecord], NEW t \in Tasks, NEW w \in Workers,
         NEW ttl \in 0 .. Lease
  PROVE  Leased(b, t, w, ttl) \in [Tasks -> TaskRecord]
BY BoardAssumption DEF Leased, Row, TaskRecord, Statuses, NoLease

LEMMA BeginType ==
  ASSUME BoardTypeOK, NEW t \in Tasks, Begin(t)
  PROVE  runs' \in [Tasks -> Nat]
BY DEF BoardTypeOK, Begin

(* No transaction leaves the ranges of the board's variables.               *)
LEMMA BoardTypeStep ==
  ASSUME BoardTypeOK, [BoardNext]_boardVars
  PROVE  BoardTypeOK'
<1> USE BoardAssumption
<1>1. ASSUME NEW w \in Workers, ReapOnly(w)
      PROVE  BoardTypeOK'
  BY <1>1, ReapedType DEF ReapOnly, BoardTypeOK
<1>2. ASSUME NEW w \in Workers, Die(w)
      PROVE  BoardTypeOK'
  BY <1>2 DEF Die, BoardTypeOK
<1>3. ASSUME NEW w \in Workers, NEW t \in Tasks, ClaimTask(w, t)
      PROVE  BoardTypeOK'
  <2>1. board' \in [Tasks -> TaskRecord]
    BY <1>3, ReapedType, LeasedType DEF ClaimTask
  <2> QED
    BY <1>3, <2>1, BeginType DEF ClaimTask, Tell, BoardTypeOK
<1>4. ASSUME NEW w \in Workers, NEW t \in Tasks, Renew(w, t)
      PROVE  BoardTypeOK'
  <2>1. board' \in [Tasks -> TaskRecord]
    BY <1>4, LeasedType DEF Renew, BoardTypeOK
  <2> QED
    BY <1>4, <2>1 DEF Renew, Tell, BoardTypeOK
<1>5. ASSUME NEW w \in Workers, NEW t \in Tasks, StartByHand(w, t)
      PROVE  BoardTypeOK'
  <2>1. runs' \in [Tasks -> Nat]
    BY <1>5, BeginType DEF StartByHand
  <2>2. board' \in [Tasks -> TaskRecord]
    BY <1>5 DEF StartByHand, Row, BoardTypeOK, TaskRecord, Statuses, NoLease
  <2> QED
    BY <1>5, <2>1, <2>2 DEF StartByHand, BoardTypeOK
<1>6. ASSUME NEW w \in Workers, NEW t \in Tasks, Complete(w, t)
      PROVE  BoardTypeOK'
  BY <1>6 DEF Complete, Row, Tell, BoardTypeOK, TaskRecord, Statuses, NoLease
<1>7. ASSUME NEW w \in Workers, NEW t \in Tasks, Fail(w, t)
      PROVE  BoardTypeOK'
  BY <1>7 DEF Fail, Row, Tell, BoardTypeOK, TaskRecord, Statuses, NoLease
<1>8. CASE Tick
  BY <1>8 DEF Tick, Aged, Elapse, Row, BoardTypeOK, TaskRecord, NoLease
<1>9. CASE UNCHANGED boardVars
  BY <1>9 DEF boardVars, BoardTypeOK
<1>10. ASSUME NEW t \in Tasks, LogGrows(t)
       PROVE  BoardTypeOK'
  BY <1>10 DEF LogGrows, BoardTypeOK
<1> QED
  BY <1>1, <1>2, <1>3, <1>4, <1>5, <1>6, <1>7, <1>8, <1>9, <1>10 DEF BoardNext

(* Type correctness of the board: attempts stay naturals, leases stay       *)
(* between "none" and their full length, a claim names a worker.            *)
THEOREM BoardTypeCorrect == BoardSpec => []BoardTypeOK
<1>1. BoardInit => BoardTypeOK
  BY BoardAssumption DEF BoardInit, BoardTypeOK, Row, TaskRecord, Statuses, NoLease
<1>2. BoardTypeOK /\ [BoardNext]_boardVars => BoardTypeOK'
  BY BoardTypeStep
<1> QED
  BY <1>1, <1>2, PTL DEF BoardSpec

------------------------------------------------------------------------------
(* Reaping completes no task and reopens none, and it leaves alone every    *)
(* task whose lease still runs.                                             *)
LEMMA ReapedKeeps ==
  ASSUME NEW t \in Tasks
  PROVE  /\ (Reaped(board)[t].status = "completed") <=> (board[t].status = "completed")
         /\ Reaped(board)[t].status = "in_progress" => Reaped(board)[t] = board[t]
         /\ Reaped(board)[t].status = "pending" => Reaped(board)[t] = board[t]
         /\ board[t].lease > 0 => Reaped(board)[t] = board[t]
BY DEF Reaped, Expired, Row

LEMMA ReapedCompleted == Completed(Reaped(board)) = Completed(board)
BY ReapedKeeps DEF Completed

(* A task handed out by pick_next is not in progress and has its            *)
(* dependencies behind it.                                                  *)
LEMMA NextIsEligible ==
  ASSUME NEW t \in Tasks, IsNext(Reaped(board), t)
  PROVE  /\ Reaped(board)[t].status \in {"pending", "failed"}
         /\ DepsCompleted(board, t)
BY ReapedCompleted DEF IsNext, Candidates, Pending, Retryable, DepsCompleted

(* A lease that a worker believes in is the worker's on the board, for any  *)
(* number of workers claiming, renewing, failing and dying.                 *)
THEOREM LeasesAreHonoured == BoardSpec => []LeaseHonoured
<1>1. BoardInit => LeaseHonoured
  BY DEF BoardInit, LeaseHonoured
<1>2. BoardTypeOK /\ LeaseHonoured /\ [BoardNext]_boardVars => LeaseHonoured'
  <2> SUFFICES ASSUME BoardTypeOK, LeaseHonoured, [BoardNext]_boardVars,
                      NEW v \in Workers, NEW u \in Tasks, belief'[v][u] > 0
               PROVE  /\ board'[u].status = "in_progress"
                      /\ board'[u].claimed_by = v
                      /\ board'[u].lease >= belief'[v][u]
    BY DEF LeaseHonoured
  <2> DEFINE Kept == board'[u] = board[u] /\ belief'[v][u] = belief[v][u]
  <2>0. Kept => /\ board'[u].status = "in_progress"
                /\ board'[u].claimed_by = v
                /\ board'[u].lease >= belief'[v][u]
    BY DEF LeaseHonoured
  <2>00. belief[v][u] > 0 => /\ board[u].status = "in_progress"
                             /\ board[u].claimed_by = v
                             /\ board[u].lease > 0
    BY BoardAssumption DEF LeaseHonoured, BoardTypeOK, TaskRecord, NoLease
  <2>1. ASSUME NEW w \in Workers, ReapOnly(w)
        PROVE  Kept
    BY <2>1, <2>00, ReapedKeeps DEF ReapOnly
  <2>2. ASSUME NEW w \in Workers, Die(w)
        PROVE  Kept
    BY <2>2 DEF Die, BoardTypeOK
  <2>3. ASSUME NEW w \in Workers, NEW t \in Tasks, ClaimTask(w, t)
        PROVE  Kept \/ (u = t /\ v = w)
    <3>1. CASE u # t
      <4>1. belief'[v][u] = belief[v][u]
        BY <2>3, <3>1 DEF ClaimTask, Tell, BoardTypeOK
      <4>2. board'[u] = Reaped(board)[u]
        BY <2>3, <3>1 DEF ClaimTask, Leased, Reaped
      <4> QED
        BY <4>1, <4>2, <2>00, ReapedKeeps
    <3>2. CASE u = t /\ v # w
      <4>1. belief'[v][u] = belief[v][u]
        BY <2>3, <3>2 DEF ClaimTask, Tell, BoardTypeOK
      <4>2. Reaped(board)[u].status # "in_progress"
        BY <2>3, <3>2, NextIsEligible DEF ClaimTask
      <4> QED
        BY <4>1, <4>2, <2>00, ReapedKeeps
    <3> QED
      BY <3>1, <3>2
  <2>4. ASSUME NEW w \in Workers, NEW t \in Tasks, Renew(w, t)
        PROVE  Kept \/ (u = t /\ v = w)
    BY <2>4, <2>00, BoardAssumption DEF Renew, Leased, Tell, BoardTypeOK
  <2>5. ASSUME NEW w \in Workers, NEW t \in Tasks, StartByHand(w, t)
        PROVE  Kept
    BY <2>5, <2>00 DEF StartByHand, Eligible, Pending, Retryable, BoardTypeOK
  <2>6. ASSUME NEW w \in Workers, NEW t \in Tasks, Complete(w, t) \/ Fail(w, t)
        PROVE  Kept
    BY <2>6, <2>00, BoardAssumption DEF Complete, Fail, MayRecord, Tell, BoardTypeOK
  <2>7. ASSUME NEW w \in Workers, NEW t \in Tasks, u = t, v = w, ClaimTask(w, t) \/ Renew(w, t)
        PROVE  board'[u] = Row("in_progress", board'[u].attempts, v, Lease) /\ belief'[v][u] = Lease
    BY <2>7, ReapedType DEF ClaimTask, Renew, Leased, Row, Tell, BoardTypeOK
  <2>8. CASE Tick
    BY <2>8, <2>00, BoardAssumption
    DEF Tick, Aged, Elapse, Row, LeaseHonoured, BoardTypeOK, TaskRecord, NoLease
  <2>9. CASE UNCHANGED boardVars
    BY <2>0, <2>9 DEF boardVars
  <2>10. ASSUME NEW t \in Tasks, LogGrows(t)
         PROVE  Kept
    BY <2>10 DEF LogGrows
  <2> QED
    BY <2>0, <2>1, <2>2, <2>3, <2>4, <2>5, <2>6, <2>7, <2>8, <2>9, <2>10, BoardAssumption
    DEF BoardNext, Row
<1> QED
  BY <1>1, <1>2, BoardTypeCorrect, PTL DEF BoardSpec

------------------------------------------------------------------------------
(* No step reopens a completed task.                                        *)
LEMMA NextKeepsCompleted ==
  ASSUME BoardTypeOK, [BoardNext]_boardVars
  PROVE  CompletedGrows
<1> SUFFICES ASSUME NEW u \in Tasks, board[u].status = "completed"
             PROVE  board'[u].status = "completed"
  BY DEF CompletedGrows, Completed
<1>1. ASSUME NEW w \in Workers, ReapOnly(w) \/ Die(w)
      PROVE  board'[u].status = "completed"
  BY <1>1, ReapedKeeps DEF ReapOnly, Die
<1>2. ASSUME NEW w \in Workers, NEW t \in Tasks, ClaimTask(w, t)
      PROVE  board'[u].status = "completed"
  <2>1. u # t
    BY <1>2, NextIsEligible, ReapedKeeps DEF ClaimTask
  <2>2. board'[u] = Reaped(board)[u]
    BY <1>2, <2>1 DEF ClaimTask, Leased, Reaped
  <2> QED
    BY <2>2, ReapedKeeps
<1>3. ASSUME NEW w \in Workers, NEW t \in Tasks,
             Renew(w, t) \/ StartByHand(w, t) \/ Complete(w, t) \/ Fail(w, t)
      PROVE  board'[u].status = "completed"
  BY <1>3 DEF Renew, Leased, Row, StartByHand, Eligible, Pending, Retryable, Complete, Fail,
              MayRecord, BoardTypeOK
<1>4. CASE Tick \/ UNCHANGED boardVars \/ \E t \in Tasks : LogGrows(t)
  BY <1>4 DEF Tick, Aged, Row, LogGrows, boardVars
<1> QED
  BY <1>1, <1>2, <1>3, <1>4 DEF BoardNext

(* A task is in progress or completed only after all its dependencies, for  *)
(* any dependency graph.                                                    *)
THEOREM DependenciesComeFirst == BoardSpec => []DepsFirst
<1>1. BoardInit => DepsFirst
  BY DEF BoardInit, DepsFirst, Row
<1>2. BoardTypeOK /\ DepsFirst /\ [BoardNext]_boardVars => DepsFirst'
  <2> SUFFICES ASSUME BoardTypeOK, DepsFirst, [BoardNext]_boardVars, NEW u \in Tasks,
                      board'[u].status \in {"in_progress", "completed"}
               PROVE  DepsCompleted(board, u)
    BY NextKeepsCompleted DEF DepsFirst, DepsCompleted, CompletedGrows
  <2>0. board[u].status \in {"in_progress", "completed"} => DepsCompleted(board, u)
    BY DEF DepsFirst
  <2>1. ASSUME NEW w \in Workers, ReapOnly(w) \/ Die(w)
        PROVE  DepsCompleted(board, u)
    BY <2>0, <2>1, ReapedKeeps DEF ReapOnly, Die
  <2>2. ASSUME NEW w \in Workers, NEW t \in Tasks, ClaimTask(w, t)
        PROVE  DepsCompleted(board, u)
    <3>1. CASE u = t
      BY <2>2, <3>1, NextIsEligible DEF ClaimTask
    <3>2. CASE u # t
      <4>1. board'[u] = Reaped(board)[u]
        BY <2>2, <3>2 DEF ClaimTask, Leased, Reaped
      <4> QED
        BY <4>1, <2>0, ReapedKeeps
    <3> QED
      BY <3>1, <3>2
  <2>3. ASSUME NEW w \in Workers, NEW t \in Tasks,
               Renew(w, t) \/ StartByHand(w, t) \/ Complete(w, t) \/ Fail(w, t)
        PROVE  DepsCompleted(board, u)
    <3>1. CASE u # t
      BY <2>0, <2>3, <3>1 DEF Renew, Leased, StartByHand, Complete, Fail, BoardTypeOK
    <3>2. CASE u = t
      BY <2>0, <2>3, <3>2
      DEF Renew, StartByHand, Eligible, Pending, Retryable, Complete, Fail, MayRecord
    <3> QED
      BY <3>1, <3>2
  <2>4. CASE Tick \/ UNCHANGED boardVars \/ \E t \in Tasks : LogGrows(t)
    BY <2>0, <2>4 DEF Tick, Aged, Row, LogGrows, boardVars
  <2> QED
    BY <2>1, <2>2, <2>3, <2>4 DEF BoardNext
<1> QED
  BY <1>1, <1>2, BoardTypeCorrect, PTL DEF BoardSpec

------------------------------------------------------------------------------
(* No transaction but a completion changes the completed tasks.             *)
LEMMA CompletedSame ==
  ASSUME BoardTypeOK, NEW w \in Workers,
         \/ ReapOnly(w) \/ Tick
         \/ \E t \in Tasks : ClaimTask(w, t) \/ StartByHand(w, t) \/ Fail(w, t)
  PROVE  Completed(board') = Completed(board)
<1>1. CASE ReapOnly(w)
  BY <1>1, ReapedCompleted DEF ReapOnly
<1>2. CASE Tick
  BY <1>2 DEF Tick, Aged, Row, Completed
<1>3. ASSUME NEW t \in Tasks, ClaimTask(w, t)
      PROVE  Completed(board') = Completed(board)
  <2>1. Reaped(board)[t].status # "completed"
    BY <1>3, NextIsEligible DEF ClaimTask
  <2>2. Completed(board') = Completed(Reaped(board))
    BY <1>3, <2>1, ReapedType DEF ClaimTask, Leased, Row, Completed
  <2> QED
    BY <2>2, ReapedCompleted
<1>4. ASSUME NEW t \in Tasks, StartByHand(w, t)
      PROVE  Completed(board') = Completed(board)
  BY <1>4 DEF StartByHand, Row, Completed, Eligible, Pending, Retryable, BoardTypeOK
<1>5. ASSUME NEW t \in Tasks, Fail(w, t)
      PROVE  Completed(board') = Completed(board)
  BY <1>5 DEF Fail, MayRecord, Row, Completed, BoardTypeOK
<1> QED
  BY <1>1, <1>2, <1>3, <1>4, <1>5

(* A settled board is final while the log is read whole: nobody finds       *)
(* anything to do on it.                                                    *)
LEMMA SettledStays ==
  ASSUME BoardTypeOK, Settled, Unlogged = {}, [BoardNext]_boardVars
  PROVE  Settled'
<1> DEFINE Same == /\ \A t \in Tasks : /\ board'[t].status = board[t].status
                                       /\ board'[t].attempts = board[t].attempts
                   /\ errors' = errors
<1>1. ASSUME NEW w \in Workers, ReapOnly(w)
      PROVE  FALSE
  BY <1>1 DEF ReapOnly, Expired, Settled
<1>2. ASSUME NEW w \in Workers, NEW t \in Tasks, ClaimTask(w, t)
      PROVE  FALSE
  <2>1. Reaped(board) = board
    BY DEF Settled, Reaped, Expired, BoardTypeOK
  <2>2. t \in Eligible(board)
    BY <1>2, <2>1 DEF ClaimTask, IsNext, Candidates, Eligible
  <2> QED
    BY <2>2 DEF Settled
<1>3. ASSUME NEW w \in Workers, NEW t \in Tasks,
             Renew(w, t) \/ StartByHand(w, t) \/ Complete(w, t) \/ Fail(w, t)
      PROVE  FALSE
  BY <1>3 DEF Renew, StartByHand, Complete, Fail, MayRecord, Settled
<1>4. ASSUME Tick
      PROVE  Same
  BY <1>4 DEF Tick, Aged, Row
<1>5. ASSUME NEW w \in Workers, Die(w)
      PROVE  Same
  BY <1>5 DEF Die
<1>6. ASSUME UNCHANGED boardVars
      PROVE  Same
  BY <1>6 DEF boardVars
<1>7. Same
  BY <1>1, <1>2, <1>3, <1>4, <1>5, <1>6 DEF BoardNext, LogGrows
<1>8. Completed(board)' = Completed(board)
  BY <1>7 DEF Completed
<1>9. Eligible(board)' = Eligible(board)
  BY <1>7, <1>8 DEF Eligible, Pending, Retryable, Effective, DepsCompleted
<1> QED
  BY <1>7, <1>9 DEF Settled

------------------------------------------------------------------------------
(* What a claim finds before it starts a task: it was never run, or both    *)
(* counts are below the limit.                                              *)
LEMMA NextHasAttemptsLeft ==
  ASSUME BoardTypeOK, NEW t \in Tasks, NEW b \in [Tasks -> TaskRecord],
         IsNext(b, t) \/ t \in Eligible(b)
  PROVE  \/ b[t].status = "pending"
         \/ /\ b[t].status = "failed"
            /\ b[t].attempts < MaxAttempts
            /\ errors[t] < MaxAttempts
BY BoardAssumption
DEF IsNext, Candidates, Eligible, Pending, Retryable, Effective, BoardTypeOK, TaskRecord

(* Reaping keeps the account: a task leaves "in progress" with one more     *)
(* attempt.                                                                 *)
LEMMA ReapedAttempts ==
  ASSUME BoardTypeOK, NEW t \in Tasks
  PROVE  /\ Reaped(board)[t].attempts \in Nat
         /\ Reaped(board)[t] = board[t] \/
            /\ board[t].status = "in_progress"
            /\ Reaped(board)[t].status = "failed"
            /\ Reaped(board)[t].attempts = board[t].attempts + 1
BY DEF BoardTypeOK, TaskRecord, Reaped, Expired, Row

(* A task whose ERROR lines the hooks all find is started at most           *)
(* 2 * max_attempts - 1 times, however often attempts is not bumped.        *)
THEOREM RetriesEnd == BoardSpec => []RetriesBoundedTwice
<1>1. BoardInit => AllRunsAccounted
  BY BoardAssumption DEF BoardInit, AllRunsAccounted, RunsAccounted, Row
<1>2. BoardTypeOK /\ AllRunsAccounted /\ [BoardNext]_boardVars => AllRunsAccounted'
  <2> SUFFICES ASSUME BoardTypeOK, AllRunsAccounted, [BoardNext]_boardVars,
                      NEW u \in Tasks \ Unlogged
               PROVE  RunsAccounted(u)'
    BY DEF AllRunsAccounted
  <2>0. /\ RunsAccounted(u)
        /\ board[u].attempts \in Nat /\ errors[u] \in Nat /\ runs[u] \in Nat
        /\ MaxAttempts \in Nat \ {0}
    BY BoardAssumption DEF AllRunsAccounted, BoardTypeOK, TaskRecord
  <2>1. ASSUME NEW w \in Workers, ReapOnly(w)
        PROVE  RunsAccounted(u)'
    BY <2>0, <2>1, ReapedAttempts DEF ReapOnly, RunsAccounted
  <2>2. ASSUME NEW w \in Workers, NEW t \in Tasks, ClaimTask(w, t)
        PROVE  RunsAccounted(u)'
    <3>1. CASE u # t
      <4>1. board'[u] = Reaped(board)[u] /\ runs'[u] = runs[u] /\ errors'[u] = errors[u]
        BY <2>2, <3>1 DEF ClaimTask, Leased, Reaped, Begin, BoardTypeOK
      <4> QED
        BY <4>1, <2>0, ReapedAttempts DEF RunsAccounted
    <3>2. CASE u = t
      <4>1. /\ board'[u] = Row("in_progress", Reaped(board)[u].attempts, w, Lease)
            /\ runs'[u] = runs[u] + 1 /\ errors'[u] = errors[u]
        BY <2>2, <3>2, ReapedType DEF ClaimTask, Leased, Begin, BoardTypeOK
      <4>2. \/ Reaped(board)[u].status = "pending"
            \/ /\ Reaped(board)[u].status = "failed"
               /\ Reaped(board)[u].attempts < MaxAttempts
               /\ errors[u] < MaxAttempts
        BY <2>2, <3>2, ReapedType, NextHasAttemptsLeft DEF ClaimTask
      <4>3. \/ runs[u] = 0
            \/ /\ Reaped(board)[u].attempts < MaxAttempts
               /\ errors[u] < MaxAttempts
               /\ runs[u] <= Reaped(board)[u].attempts + errors[u]
        BY <4>2, <2>0, ReapedAttempts DEF RunsAccounted
      <4>4. board'[u].status = "in_progress" /\ board'[u].attempts = Reaped(board)[u].attempts
        BY <4>1 DEF Row
      <4> QED
        BY <4>1, <4>3, <4>4, <2>0, ReapedAttempts DEF RunsAccounted
    <3> QED
      BY <3>1, <3>2
  <2>3. ASSUME NEW w \in Workers, NEW t \in Tasks, StartByHand(w, t)
        PROVE  RunsAccounted(u)'
    <3>1. CASE u # t
      BY <2>0, <2>3, <3>1 DEF StartByHand, Begin, RunsAccounted, BoardTypeOK
    <3>2. CASE u = t
      <4>1. /\ board'[u].status = "in_progress" /\ board'[u].attempts = board[u].attempts
            /\ runs'[u] = runs[u] + 1 /\ errors'[u] = errors[u]
        BY <2>3, <3>2 DEF StartByHand, Row, Begin, BoardTypeOK
      <4>2. \/ runs[u] = 0
            \/ /\ board[u].attempts < MaxAttempts
               /\ errors[u] < MaxAttempts
               /\ runs[u] <= board[u].attempts + errors[u]
        BY <2>0, <2>3, <3>2, NextHasAttemptsLeft DEF StartByHand, RunsAccounted, BoardTypeOK
      <4> QED
        BY <4>1, <4>2, <2>0 DEF RunsAccounted
    <3> QED
      BY <3>1, <3>2
  <2>4. ASSUME NEW w \in Workers, NEW t \in Tasks, Renew(w, t) \/ Complete(w, t)
        PROVE  RunsAccounted(u)'
    BY <2>0, <2>4 DEF Renew, Leased, Complete, MayRecord, Row, RunsAccounted, BoardTypeOK
  <2>5. ASSUME NEW w \in Workers, NEW t \in Tasks, Fail(w, t)
        PROVE  RunsAccounted(u)'
    <3>1. PICK bump \in {0, 1}, line \in {0, 1} :
            /\ line = 0 => t \in Unlogged
            /\ board' = [board EXCEPT ![t] = Row("failed", board[t].attempts + bump, NoWorker, NoLease)]
            /\ errors' = [errors EXCEPT ![t] = @ + line]
      BY <2>5 DEF Fail
    <3>2. u = t => line = 1
      BY <3>1
    <3> QED
      BY <2>0, <2>5, <3>1, <3>2 DEF Fail, MayRecord, Row, RunsAccounted, BoardTypeOK
  <2>6. CASE \/ Tick \/ UNCHANGED boardVars
             \/ (\E w \in Workers : Die(w)) \/ (\E t \in Tasks : LogGrows(t))
    BY <2>0, <2>6 DEF Tick, Aged, Row, Die, LogGrows, boardVars, RunsAccounted, BoardTypeOK
  <2> QED
    BY <2>1, <2>2, <2>3, <2>4, <2>5, <2>6 DEF BoardNext
<1>3. AllRunsAccounted => RetriesBoundedTwice
  BY DEF AllRunsAccounted, RunsAccounted, RetriesBoundedTwice
<1> QED
  BY <1>1, <1>2, <1>3, BoardTypeCorrect, PTL DEF BoardSpec

(* A task whose sessions bump attempts when they record a failure is        *)
(* started at most max_attempts times, whatever happens to other tasks.     *)
THEOREM HonestRetriesEnd == BoardSpec => []RetriesBounded
<1>1. BoardInit => AllRunsExact
  BY BoardAssumption DEF BoardInit, AllRunsExact, RunsExact, Row
<1>2. BoardTypeOK /\ AllRunsExact /\ [BoardNext]_boardVars => AllRunsExact'
  <2> SUFFICES ASSUME BoardTypeOK, AllRunsExact, [BoardNext]_boardVars,
                      NEW u \in Tasks \ Forgetful
               PROVE  RunsExact(u)'
    BY DEF AllRunsExact
  <2>0. /\ RunsExact(u)
        /\ board[u].attempts \in Nat /\ runs[u] \in Nat
        /\ MaxAttempts \in Nat \ {0}
    BY BoardAssumption DEF AllRunsExact, BoardTypeOK, TaskRecord
  <2>1. ASSUME NEW w \in Workers, ReapOnly(w)
        PROVE  RunsExact(u)'
    BY <2>0, <2>1, ReapedAttempts DEF ReapOnly, RunsExact
  <2>2. ASSUME NEW w \in Workers, NEW t \in Tasks, ClaimTask(w, t)
        PROVE  RunsExact(u)'
    <3>1. CASE u # t
      <4>1. board'[u] = Reaped(board)[u] /\ runs'[u] = runs[u]
        BY <2>2, <3>1 DEF ClaimTask, Leased, Reaped, Begin, BoardTypeOK
      <4> QED
        BY <4>1, <2>0, ReapedAttempts DEF RunsExact
    <3>2. CASE u = t
      <4>1. /\ board'[u].status = "in_progress"
            /\ board'[u].attempts = Reaped(board)[u].attempts
            /\ runs'[u] = runs[u] + 1
        BY <2>2, <3>2, ReapedType DEF ClaimTask, Leased, Row, Begin, BoardTypeOK
      <4>2. \/ Reaped(board)[u].status = "pending"
            \/ /\ Reaped(board)[u].status = "failed"
               /\ Reaped(board)[u].attempts < MaxAttempts
        BY <2>2, <3>2, ReapedType, NextHasAttemptsLeft DEF ClaimTask
      <4>3. \/ runs[u] = 0
            \/ /\ Reaped(board)[u].attempts < MaxAttempts
               /\ runs[u] <= Reaped(board)[u].attempts
        BY <4>2, <2>0, ReapedAttempts DEF RunsExact
      <4> QED
        BY <4>1, <4>3, <2>0, ReapedAttempts DEF RunsExact
    <3> QED
      BY <3>1, <3>2
  <2>3. ASSUME NEW w \in Workers, NEW t \in Tasks, StartByHand(w, t)
        PROVE  RunsExact(u)'
    <3>1. CASE u # t
      BY <2>0, <2>3, <3>1 DEF StartByHand, Begin, RunsExact, BoardTypeOK
    <3>2. CASE u = t
      <4>1. /\ board'[u].status = "in_progress" /\ board'[u].attempts = board[u].attempts
            /\ runs'[u] = runs[u] + 1
        BY <2>3, <3>2 DEF StartByHand, Row, Begin, BoardTypeOK
      <4>2. \/ runs[u] = 0
            \/ board[u].attempts < MaxAttempts /\ runs[u] <= board[u].attempts
        BY <2>0, <2>3, <3>2, NextHasAttemptsLeft DEF StartByHand, RunsExact, BoardTypeOK
      <4> QED
        BY <4>1, <4>2, <2>0 DEF RunsExact
    <3> QED
      BY <3>1, <3>2
  <2>4. ASSUME NEW w \in Workers, NEW t \in Tasks, Renew(w, t) \/ Complete(w, t)
        PROVE  RunsExact(u)'
    BY <2>0, <2>4 DEF Renew, Leased, Complete, MayRecord, Row, RunsExact, BoardTypeOK
  <2>5. ASSUME NEW w \in Workers, NEW t \in Tasks, Fail(w, t)
        PROVE  RunsExact(u)'
    <3>1. CASE u # t
      BY <2>0, <2>5, <3>1 DEF Fail, RunsExact, BoardTypeOK
    <3>2. CASE u = t
      <4>1. PICK bump \in {0, 1} :
              /\ bump = 0 => t \in Forgetful
              /\ board' = [board EXCEPT ![t] = Row("failed", board[t].attempts + bump, NoWorker, NoLease)]
        BY <2>5 DEF Fail
      <4>2. bump = 1
        BY <3>2, <4>1
      <4> QED
        BY <2>0, <2>5, <3>2, <4>1, <4>2 DEF Fail, MayRecord, Row, RunsExact, BoardTypeOK
    <3> QED
      BY <3>1, <3>2
  <2>6. CASE \/ Tick \/ UNCHANGED boardVars
             \/ (\E w \in Workers : Die(w)) \/ (\E t \in Tasks : LogGrows(t))
    BY <2>0, <2>6 DEF Tick, Aged, Row, Die, LogGrows, boardVars, RunsExact, BoardTypeOK
  <2> QED
    BY <2>1, <2>2, <2>3, <2>4, <2>5, <2>6 DEF BoardNext
<1>3. AllRunsExact => RetriesBounded
  BY DEF AllRunsExact, RunsExact, RetriesBounded
<1> QED
  BY <1>1, <1>2, <1>3, BoardTypeCorrect, PTL DEF BoardSpec

(* The two bounds together: the starts of a task are bounded when one of    *)
(* its two counts is kept, by max_attempts when that is the one on the      *)
(* board.  When neither is, nothing bounds them.                             *)
THEOREM StartsAreBounded == BoardSpec => []StartsBounded
<1>1. RetriesBounded /\ RetriesBoundedTwice => StartsBounded
  BY DEF StartsBounded
<1> QED
  BY <1>1, RetriesEnd, HonestRetriesEnd, PTL
==============================================================================
