--------------------------- MODULE HarnessStopProofs ---------------------------
(* Proofs about HarnessStop for any sessions, tasks, limits and prompts: the *)
(* sessions that went because everything was finished left nothing, the      *)
(* marker goes no earlier than the work, and the safety valve holds.         *)
EXTENDS HarnessStop, TaskClaimProofs, FiniteSetTheorems

(* The session has been let go because it found nothing left.                *)
Done(w) == why[w] = "finished" /\ hook[w] \in {"reset", "touch", "unlink", "allow", "left"}

(* Who is done leaves no task in its own name; what it leaves in the name of *)
(* others is theirs to finish.                                               *)
DoneOwesNothing ==
    \A w \in Workers : Done(w) =>
        \A t \in Tasks : board[t].status = "in_progress" => board[t].claimed_by # w

LastDoneFinished == (\A w \in Workers : Done(w)) => Settled

(* One session, or sessions that answer for each other's tasks.              *)
AnswersForAll == Concurrent => \E w \in Workers : Workers = {w}

(* With them one that is done knows that the campaign is.                    *)
DoneFinished == \A w \in Workers : Done(w) => Settled

TouchersDone == \A w \in Workers : hook[w] \in {"touch", "unlink"} => why[w] = "finished"

Alone == \E w \in Workers : Workers = {w}

(* Reflection only starts on a finished campaign.                            *)
ReflectsFinished ==
    /\ reflect => Settled
    /\ \A w \in Workers : mirror[w] = "block" => Settled

(* A stop that reached the counter found something left.                     *)
CountsUnfinished == \A w \in Workers : hook[w] \in {"read", "write"} => ~Settled

Progress == Cardinality(Completed(board))

(* The counter file knows of all but the first block in a row.               *)
Counted(w) == row[w] <= 1 \/ (row[w] <= counter.blocks + 1 /\ Progress <= counter.done)

RowCounted(w) ==
    /\ row[w] <= MaxBlocks + 1
    /\ ~resumed[w] => row[w] = 0
    /\ hook[w] = "block" => row[w] <= MaxBlocks
    /\ ~Settled =>
        /\ hook[w] \in {"work", "load", "read"} => Counted(w)
        /\ hook[w] \in {"read", "write"} => view[w].done = Progress
        /\ hook[w] = "write" => row[w] <= view[w].blocks /\ view[w].blocks > 0
        /\ hook[w] = "block" =>
              row[w] = 0 \/ (row[w] <= counter.blocks /\ Progress <= counter.done)

AllRowsCounted == \A w \in Workers : RowCounted(w)

------------------------------------------------------------------------------
(* The steps that leave the board alone, and those that are TaskClaim's.    *)
BoardIdle ==
    \/ Corrupt
    \/ \E w \in Workers : StopHook(w) \/ Reflect(w) \/ Stop(w) \/ Resume(w) \/ Leave(w)
                          \/ Prompt(w) \/ CloseCampaign(w)

LEMMA IdleKeepsBoard == BoardIdle => UNCHANGED boardVars
BY DEF BoardIdle, Corrupt, StopHook, Decide, ReadCounter, WriteCounter, ResetCounter,
       TouchReflect, UnlinkActive, Reflect, Stop, Resume, Leave, Prompt, CloseCampaign

LEMMA StopsStepTheBoard == [Next]_vars => [BoardNext]_boardVars
<1>1. ASSUME NEW w \in Workers, Work(w)
      PROVE  BoardNext
  BY <1>1 DEF Work, Record, BoardNext
<1>2. LeaseTick => BoardNext
  BY DEF LeaseTick, BoardNext
<1>3. UNCHANGED vars => UNCHANGED boardVars
  BY DEF vars
<1> QED
  BY <1>1, <1>2, <1>3, IdleKeepsBoard DEF Next, BoardIdle

LEMMA ProgressType == Progress \in Nat
<1>1. Completed(board) \subseteq Tasks
  BY DEF Completed
<1> QED
  BY <1>1, StopAssumption, FS_Subset, FS_CardinalityType DEF Progress

(* The ranges of the hooks' flags.                                          *)
FlagsOK ==
    /\ {onBoard, active, corrupt, reflect} \subseteq BOOLEAN
    /\ hook \in [Workers -> {"work", "load", "read", "write", "reset", "touch", "unlink",
                             "allow", "block", "left"}]
    /\ mirror \in [Workers -> {"off", "due", "allow", "block"}]
    /\ resumed \in [Workers -> BOOLEAN]
    /\ why \in [Workers -> {"none", "corrupt", "inactive", "limit", "finished", "valve"}]

LEMMA FlagsStep ==
  ASSUME FlagsOK, [Next]_vars
  PROVE  FlagsOK'
<1> USE DEF FlagsOK, Hook, LetGo
<1>1. ASSUME NEW w \in Workers, Decide(w)
      PROVE  FlagsOK'
  BY <1>1 DEF Decide, rootVars
<1>2. ASSUME NEW w \in Workers, ReadCounter(w)
      PROVE  FlagsOK'
  BY <1>2 DEF ReadCounter, rootVars
<1>3. ASSUME NEW w \in Workers, WriteCounter(w)
      PROVE  FlagsOK'
  BY <1>3 DEF WriteCounter
<1>4. ASSUME NEW w \in Workers, ResetCounter(w) \/ TouchReflect(w)
      PROVE  FlagsOK'
  BY <1>4 DEF ResetCounter, TouchReflect
<1>5. ASSUME NEW w \in Workers, UnlinkActive(w)
      PROVE  FlagsOK'
  BY <1>5 DEF UnlinkActive
<1>6. ASSUME NEW w \in Workers, Reflect(w)
      PROVE  FlagsOK'
  BY <1>6 DEF Reflect
<1>7. ASSUME NEW w \in Workers, Stop(w) \/ Resume(w) \/ Leave(w)
      PROVE  FlagsOK'
  BY <1>7 DEF Stop, Resume, Leave, rootVars
<1>8. ASSUME NEW w \in Workers, Work(w)
      PROVE  FlagsOK'
  BY <1>8 DEF Work, Record, rootVars, hookVars
<1>9. ASSUME NEW w \in Workers, Prompt(w)
      PROVE  FlagsOK'
  BY <1>9 DEF Prompt
<1>10. ASSUME NEW w \in Workers, CloseCampaign(w)
       PROVE  FlagsOK'
  BY <1>10 DEF CloseCampaign, hookVars
<1>11. CASE Corrupt
  BY <1>11 DEF Corrupt, hookVars
<1>12. CASE LeaseTick \/ UNCHANGED vars
  BY <1>12 DEF LeaseTick, vars, rootVars, hookVars
<1> QED
  BY <1>1, <1>2, <1>3, <1>4, <1>5, <1>6, <1>7, <1>8, <1>9, <1>10, <1>11, <1>12
  DEF Next, StopHook

(* The ranges of the hooks' counts.                                         *)
CountsOK ==
    /\ {sessionCount, prompts} \subseteq Nat /\ outcomes \in 0 .. MaxPerSession
    /\ counter \in Count
    /\ reflected \in [Workers -> 0 .. MaxReflect]
    /\ view \in [Workers -> Count]
    /\ row \in [Workers -> Nat]

LEMMA CountsStep ==
  ASSUME CountsOK, [Next]_vars
  PROVE  CountsOK'
<1> USE DEF CountsOK, Count
<1>1. ASSUME NEW w \in Workers, Decide(w)
      PROVE  CountsOK'
  <2>1. Cardinality(Completed(board)) \in Nat
    BY ProgressType DEF Progress
  <2> QED
    BY <1>1, <2>1 DEF Decide, rootVars
<1>2. ASSUME NEW w \in Workers, ReadCounter(w)
      PROVE  CountsOK'
  BY <1>2 DEF ReadCounter, rootVars
<1>3. ASSUME NEW w \in Workers, WriteCounter(w)
      PROVE  CountsOK'
  BY <1>3 DEF WriteCounter
<1>4. ASSUME NEW w \in Workers, ResetCounter(w) \/ TouchReflect(w) \/ UnlinkActive(w)
      PROVE  CountsOK'
  BY <1>4 DEF ResetCounter, TouchReflect, UnlinkActive, NoBlocks
<1>5. ASSUME NEW w \in Workers, Reflect(w)
      PROVE  CountsOK'
  <2>1. \/ reflected' = reflected
        \/ ~(reflected[w] >= MaxReflect) /\ reflected' = [reflected EXCEPT ![w] = @ + 1]
    BY <1>5 DEF Reflect
  <2>2. reflected[w] \in 0 .. MaxReflect /\ MaxReflect \in Nat
    BY StopAssumption
  <2>3. ~(reflected[w] >= MaxReflect) => reflected[w] + 1 \in 0 .. MaxReflect
    BY <2>2
  <2>4. reflected' \in [Workers -> 0 .. MaxReflect]
    BY <2>1, <2>3
  <2> QED
    BY <1>5, <2>4 DEF Reflect
<1>6. ASSUME NEW w \in Workers, Stop(w) \/ CloseCampaign(w)
      PROVE  CountsOK'
  BY <1>6 DEF Stop, CloseCampaign, rootVars, hookVars
<1>7. ASSUME NEW w \in Workers, Resume(w) \/ Leave(w)
      PROVE  CountsOK'
  BY <1>7 DEF Resume, Leave, rootVars
<1>8. ASSUME NEW w \in Workers, NEW t \in Tasks, Record(w, t)
      PROVE  CountsOK'
  <2>1. outcomes' \in 0 .. MaxPerSession
    <3>1. MaxPerSession \in Nat /\ outcomes \in 0 .. MaxPerSession
      BY StopAssumption
    <3>2. outcomes' = IF outcomes < MaxPerSession THEN outcomes + 1 ELSE outcomes
      BY <1>8 DEF Record
    <3> QED
      BY <3>1, <3>2
  <2> QED
    BY <1>8, <2>1 DEF Record
<1>9. ASSUME NEW w \in Workers, Work(w)
      PROVE  CountsOK'
  BY <1>8, <1>9 DEF Work, rootVars, hookVars
<1>10. ASSUME NEW w \in Workers, Prompt(w)
       PROVE  CountsOK'
  <2>1. outcomes' \in 0 .. MaxPerSession
    BY <1>10, StopAssumption DEF Prompt
  <2>2. reflected' \in [Workers -> 0 .. MaxReflect]
    BY <1>10, StopAssumption DEF Prompt
  <2>3. {sessionCount', prompts'} \subseteq Nat
    BY <1>10 DEF Prompt
  <2>4. row' \in [Workers -> Nat] /\ UNCHANGED <<counter, view>>
    BY <1>10 DEF Prompt
  <2> QED
    BY <2>1, <2>2, <2>3, <2>4
<1>11. CASE Corrupt \/ LeaseTick \/ UNCHANGED vars
  BY <1>11 DEF Corrupt, LeaseTick, vars, rootVars, hookVars
<1> QED
  BY <1>1, <1>2, <1>3, <1>4, <1>5, <1>6, <1>7, <1>9, <1>10, <1>11 DEF Next, StopHook

StopInv == BoardTypeOK /\ FlagsOK /\ CountsOK

(* The ranges of all variables of the stop hooks.                           *)
THEOREM StopTypeCorrect == Spec => []StopTypeOK
<1>1. StopInv <=> StopTypeOK
  BY DEF StopInv, StopTypeOK, FlagsOK, CountsOK
<1>2. Init => StopInv
  <2> SUFFICES ASSUME Init
               PROVE  StopInv
    OBVIOUS
  <2>1. BoardTypeOK
    <3>1. BoardInit
      BY DEF Init
    <3> QED
      BY <3>1, BoardAssumption DEF BoardInit, BoardTypeOK, Row, TaskRecord, Statuses, NoLease
  <2>2. FlagsOK
    BY DEF Init, FlagsOK
  <2>3. CountsOK
    <3>1. 0 \in 0 .. MaxPerSession /\ 0 \in 0 .. MaxReflect
      BY StopAssumption
    <3> QED
      BY <3>1 DEF Init, CountsOK, Count, NoBlocks
  <2> QED
    BY <2>1, <2>2, <2>3 DEF StopInv
<1>3. StopInv /\ [Next]_vars => StopInv'
  BY BoardTypeStep, StopsStepTheBoard, FlagsStep, CountsStep DEF StopInv
<1> QED
  BY <1>1, <1>2, <1>3, PTL DEF Spec

------------------------------------------------------------------------------
(* A session becomes done by one decision: that it has nothing left.        *)
LEMMA DoneByDecision ==
  ASSUME FlagsOK, [Next]_vars, NEW w \in Workers, ~Done(w), Done(w)'
  PROVE  Decide(w) /\ NothingLeft(w)
<1> USE DEF FlagsOK, Done, Hook, LetGo
<1>1. ASSUME NEW v \in Workers, Decide(v)
      PROVE  Decide(w) /\ NothingLeft(w)
  <2>1. v = w
    BY <1>1 DEF Decide
  <2>2. hook[w] = "load"
    BY <1>1, <2>1 DEF Decide
  <2>3. CASE NothingLeft(w)
    BY <1>1, <2>1, <2>3
  <2>4. CASE ~NothingLeft(w)
    BY <1>1, <2>1, <2>2, <2>4 DEF Decide
  <2> QED
    BY <2>3, <2>4
<1>2. ASSUME NEW v \in Workers, ReadCounter(v) \/ WriteCounter(v)
      PROVE  FALSE
  BY <1>2 DEF ReadCounter, WriteCounter
<1>3. ASSUME NEW v \in Workers, ResetCounter(v) \/ TouchReflect(v) \/ UnlinkActive(v)
      PROVE  FALSE
  BY <1>3 DEF ResetCounter, TouchReflect, UnlinkActive
<1>4. ASSUME NEW v \in Workers, Reflect(v) \/ Stop(v)
      PROVE  FALSE
  BY <1>4 DEF Reflect, Stop
<1>5. ASSUME NEW v \in Workers, Resume(v) \/ Leave(v)
      PROVE  FALSE
  BY <1>5 DEF Resume, Leave, Answered
<1>6. ASSUME NEW v \in Workers, Work(v) \/ CloseCampaign(v)
      PROVE  FALSE
  BY <1>6 DEF Work, Record, CloseCampaign, hookVars
<1>7. ASSUME NEW v \in Workers, Prompt(v)
      PROVE  FALSE
  BY <1>7 DEF Prompt
<1>8. Corrupt \/ LeaseTick \/ UNCHANGED vars => FALSE
  BY DEF Corrupt, LeaseTick, vars, hookVars
<1> QED
  BY <1>1, <1>2, <1>3, <1>4, <1>5, <1>6, <1>7, <1>8 DEF Next, StopHook

(* A task in progress was so before for the same owner, or was just started *)
(* by a session at work, in its own name or in nobody's.                    *)
LEMMA StartersWork ==
  ASSUME BoardTypeOK, [Next]_vars, NEW t \in Tasks, board'[t].status = "in_progress"
  PROVE  \/ board[t].status = "in_progress" /\ board'[t].claimed_by = board[t].claimed_by
         \/ \E v \in Workers : hook[v] = "work" /\ board'[t].claimed_by \in {v, NoWorker}
<1>1. ASSUME NEW w \in Workers, ReapOnly(w)
      PROVE  board'[t] = board[t]
  BY <1>1, ReapedKeeps DEF ReapOnly
<1>2. ASSUME NEW w \in Workers, NEW u \in Tasks, ClaimTask(w, u)
      PROVE  board'[t] = board[t] \/ board'[t].claimed_by = w
  <2>1. CASE t = u
    BY <1>2, <2>1, ReapedType DEF ClaimTask, Leased, Row
  <2>2. CASE t # u
    <3>1. board'[t] = Reaped(board)[t]
      BY <1>2, <2>2, ReapedType DEF ClaimTask, Leased
    <3> QED
      BY <3>1, ReapedKeeps
  <2> QED
    BY <2>1, <2>2
<1>3. ASSUME NEW w \in Workers, NEW u \in Tasks, StartByHand(w, u)
      PROVE  board'[t] = board[t] \/ board'[t].claimed_by = NoWorker
  BY <1>3 DEF StartByHand, Row, BoardTypeOK
<1>4. ASSUME NEW w \in Workers, NEW u \in Tasks, Complete(w, u) \/ Fail(w, u)
      PROVE  board'[t] = board[t]
  BY <1>4 DEF Complete, Fail, Row, BoardTypeOK
<1>5. ASSUME NEW w \in Workers, Work(w)
      PROVE  \/ board'[t] = board[t]
             \/ hook[w] = "work" /\ board'[t].claimed_by \in {w, NoWorker}
  BY <1>1, <1>2, <1>3, <1>4, <1>5 DEF Work, Record
<1>6. LeaseTick => board'[t].status = board[t].status /\ board'[t].claimed_by = board[t].claimed_by
  BY DEF LeaseTick, Tick, Aged, Row
<1>7. BoardIdle \/ UNCHANGED vars => board' = board
  BY IdleKeepsBoard DEF vars, boardVars
<1> QED
  BY <1>5, <1>6, <1>7 DEF Next, BoardIdle

LEMMA DoneOwesNothingStep ==
  ASSUME StopInv, DoneOwesNothing, [Next]_vars
  PROVE  DoneOwesNothing'
<1> SUFFICES ASSUME NEW w \in Workers, Done(w)',
                    NEW t \in Tasks, board'[t].status = "in_progress", board'[t].claimed_by = w
             PROVE  FALSE
  BY DEF DoneOwesNothing
<1>1. CASE Done(w)
  <2>1. hook[w] # "work"
    BY <1>1 DEF Done
  <2>2. w # NoWorker
    BY BoardAssumption
  <2>3. \/ board[t].status = "in_progress" /\ board[t].claimed_by = w
        \/ hook[w] = "work"
    BY <2>2, StartersWork DEF StopInv
  <2> QED
    BY <1>1, <2>1, <2>3 DEF DoneOwesNothing
<1>2. CASE ~Done(w)
  <2>1. Decide(w) /\ NothingLeft(w)
    BY <1>2, DoneByDecision DEF StopInv
  <2>2. board' = board
    BY <2>1 DEF Decide, boardVars
  <2> QED
    BY <2>1, <2>2 DEF NothingLeft, Blocking, InProgress
<1> QED
  BY <1>1, <1>2

LEMMA LastDoneStep ==
  ASSUME StopInv, DoneOwesNothing, LastDoneFinished, [Next]_vars
  PROVE  LastDoneFinished'
<1> SUFFICES ASSUME \A w \in Workers : Done(w)'
             PROVE  Settled'
  BY DEF LastDoneFinished
<1>1. CASE \A w \in Workers : Done(w)
  <2>1. Settled
    BY <1>1 DEF LastDoneFinished
  <2> QED
    BY <2>1, SettledStays, StopsStepTheBoard, StopAssumption DEF StopInv
<1>2. ASSUME NEW w \in Workers, ~Done(w)
      PROVE  Settled'
  <2>1. Decide(w) /\ NothingLeft(w)
    BY <1>2, DoneByDecision DEF StopInv
  <2>2. ASSUME NEW t \in Tasks, board[t].status = "in_progress"
        PROVE  FALSE
    <3>1. board' = board
      BY <2>1 DEF Decide, boardVars
    <3>2. board[t].claimed_by \notin {w, NoWorker}
      BY <2>1, <2>2 DEF NothingLeft, Blocking, InProgress
    <3>3. board[t].claimed_by \in Workers \cup {NoWorker}
      BY DEF StopInv, BoardTypeOK, TaskRecord
    <3>4. DoneOwesNothing'
      BY DoneOwesNothingStep
    <3> QED
      BY <2>2, <3>1, <3>2, <3>3, <3>4 DEF DoneOwesNothing
  <2>3. Settled
    BY <2>1, <2>2 DEF Settled, NothingLeft
  <2> QED
    BY <2>3, SettledStays, StopsStepTheBoard, StopAssumption DEF StopInv
<1> QED
  BY <1>1, <1>2

(* The sessions that went because the work was finished did not leave any,  *)
(* in either concurrency mode and in whatever order they went.              *)
THEOREM LastOutLeavesNothing == Spec => []LastOutFinished
<1>1. Init => DoneOwesNothing /\ LastDoneFinished
  <2> SUFFICES ASSUME Init
               PROVE  \A w \in Workers : ~Done(w)
    BY StopAssumption DEF DoneOwesNothing, LastDoneFinished
  <2> QED
    BY DEF Init, Done
<1>2. StopInv /\ DoneOwesNothing /\ LastDoneFinished /\ [Next]_vars
        => (DoneOwesNothing /\ LastDoneFinished)'
  BY DoneOwesNothingStep, LastDoneStep
<1>3. StopInv <=> StopTypeOK
  BY DEF StopInv, StopTypeOK, FlagsOK, CountsOK
<1>4. LastDoneFinished => LastOutFinished
  BY DEF LastDoneFinished, LastOutFinished, Done
<1> QED
  BY <1>1, <1>2, <1>3, <1>4, StopTypeCorrect, PTL DEF Spec

------------------------------------------------------------------------------
LEMMA NothingLeftSettles ==
  ASSUME BoardTypeOK, AnswersForAll, NEW w \in Workers
  PROVE  NothingLeft(w) <=> Settled
<1>1. CASE Blocking(w) = InProgress
  BY <1>1 DEF NothingLeft, Settled, InProgress
<1>2. CASE Concurrent /\ w \notin Anonymous
  <2>1. \A t \in Tasks : board[t].claimed_by \in {w, NoWorker}
    BY <1>2 DEF AnswersForAll, BoardTypeOK, TaskRecord
  <2>2. Blocking(w) = InProgress
    BY <1>2, <2>1 DEF Blocking, InProgress
  <2> QED
    BY <2>2 DEF NothingLeft, Settled, InProgress
<1> QED
  BY <1>1, <1>2 DEF Blocking

LEMMA SettledUnlessWork ==
  ASSUME BoardIdle \/ LeaseTick \/ UNCHANGED vars
  PROVE  Settled' <=> Settled
<1> DEFINE Same == /\ \A t \in Tasks : /\ board'[t].status = board[t].status
                                       /\ board'[t].attempts = board[t].attempts
                   /\ errors' = errors
<1>1. Same
  BY IdleKeepsBoard DEF LeaseTick, Tick, Aged, Row, vars, boardVars
<1>2. Completed(board)' = Completed(board)
  BY <1>1 DEF Completed
<1>3. Eligible(board)' = Eligible(board)
  BY <1>1, <1>2 DEF Eligible, Pending, Retryable, Effective, DepsCompleted
<1> QED
  BY <1>1, <1>3 DEF Settled

LEMMA DoneFinishedStep ==
  ASSUME StopInv, AnswersForAll, DoneFinished, [Next]_vars
  PROVE  DoneFinished'
<1>1. ASSUME NEW w \in Workers, Done(w)'
      PROVE  Settled
  <2>1. CASE Done(w)
    BY <2>1 DEF DoneFinished
  <2>2. CASE ~Done(w)
    BY <1>1, <2>2, DoneByDecision, NothingLeftSettles DEF StopInv
  <2> QED
    BY <2>1, <2>2
<1> QED
  BY <1>1, SettledStays, StopsStepTheBoard, StopAssumption DEF StopInv, DoneFinished

LEMMA TouchersDoneStep ==
  ASSUME FlagsOK, TouchersDone, [Next]_vars
  PROVE  TouchersDone'
<1> USE DEF FlagsOK, TouchersDone, Hook, LetGo
<1>1. ASSUME NEW w \in Workers, Decide(w)
      PROVE  TouchersDone'
  BY <1>1 DEF Decide
<1>2. ASSUME NEW w \in Workers, ReadCounter(w) \/ WriteCounter(w)
      PROVE  TouchersDone'
  BY <1>2 DEF ReadCounter, WriteCounter
<1>3. ASSUME NEW w \in Workers, ResetCounter(w) \/ TouchReflect(w) \/ UnlinkActive(w)
      PROVE  TouchersDone'
  BY <1>3 DEF ResetCounter, TouchReflect, UnlinkActive
<1>4. ASSUME NEW w \in Workers, Reflect(w) \/ Work(w) \/ CloseCampaign(w)
      PROVE  UNCHANGED <<hook, why>>
  BY <1>4 DEF Reflect, Work, Record, CloseCampaign, hookVars
<1>5. ASSUME NEW w \in Workers, Stop(w) \/ Resume(w) \/ Leave(w) \/ Prompt(w)
      PROVE  TouchersDone'
  BY <1>5 DEF Stop, Resume, Leave, Prompt
<1>6. Corrupt \/ LeaseTick \/ UNCHANGED vars => UNCHANGED <<hook, why>>
  BY DEF Corrupt, LeaseTick, vars, hookVars
<1> QED
  BY <1>1, <1>2, <1>3, <1>4, <1>5, <1>6 DEF Next, StopHook

(* Who touches the marker of a legacy root, and who closes a board.         *)
LEMMA ActiveStep ==
  ASSUME FlagsOK, [Next]_vars
  PROVE  /\ onBoard' = onBoard
         /\ \/ active' = active
            \/ \E w \in Workers : hook[w] = "unlink"
            \/ onBoard
<1>1. ASSUME NEW w \in Workers, StopHook(w) \/ Reflect(w)
      PROVE  onBoard' = onBoard /\ (active' = active \/ \E v \in Workers : hook[v] = "unlink")
  BY <1>1 DEF StopHook, Decide, ReadCounter, WriteCounter, ResetCounter, TouchReflect, UnlinkActive,
              Reflect, rootVars
<1>2. ASSUME NEW w \in Workers, Stop(w) \/ Resume(w) \/ Leave(w) \/ Work(w) \/ Prompt(w)
      PROVE  UNCHANGED <<onBoard, active>>
  BY <1>2 DEF Stop, Resume, Leave, Work, Record, Prompt, rootVars
<1>3. ASSUME NEW w \in Workers, CloseCampaign(w)
      PROVE  onBoard' = onBoard /\ onBoard
  BY <1>3 DEF CloseCampaign
<1>4. Corrupt \/ LeaseTick \/ UNCHANGED vars => UNCHANGED <<onBoard, active>>
  BY DEF Corrupt, LeaseTick, vars, rootVars
<1> QED
  BY <1>1, <1>2, <1>3, <1>4 DEF Next

LEMMA GoneMeansFinishedStep ==
  ASSUME StopInv, DoneFinished, TouchersDone, GoneMeansFinished, [Next]_vars
  PROVE  GoneMeansFinished'
<1> SUFFICES ASSUME ~onBoard', ~active'
             PROVE  Settled
  BY SettledStays, StopsStepTheBoard, StopAssumption DEF StopInv, GoneMeansFinished
<1>1. CASE active' = active
  BY <1>1, ActiveStep DEF StopInv, GoneMeansFinished
<1>2. ASSUME NEW w \in Workers, hook[w] = "unlink"
      PROVE  Settled
  BY <1>2 DEF TouchersDone, DoneFinished, Done
<1> QED
  BY <1>1, <1>2, ActiveStep DEF StopInv

(* What the two hooks know of a finished campaign, when one session is alone *)
(* or sessions answer for each other.                                        *)
FinishedInv == DoneFinished /\ TouchersDone /\ GoneMeansFinished

LEMMA FinishedInvariant ==
  ASSUME AnswersForAll
  PROVE  Spec => [](StopInv /\ FinishedInv)
<1>1. Init => FinishedInv
  <2> SUFFICES ASSUME Init
               PROVE  FinishedInv
    OBVIOUS
  <2>1. active /\ \A w \in Workers : hook[w] = "work"
    BY DEF Init
  <2> QED
    BY <2>1 DEF FinishedInv, DoneFinished, TouchersDone, GoneMeansFinished, Done
<1>2. StopInv /\ FinishedInv /\ [Next]_vars => FinishedInv'
  BY DoneFinishedStep, TouchersDoneStep, GoneMeansFinishedStep DEF FinishedInv, StopInv
<1>3. StopInv <=> StopTypeOK
  BY DEF StopInv, StopTypeOK, FlagsOK, CountsOK
<1> QED
  BY <1>1, <1>2, <1>3, StopTypeCorrect, PTL DEF Spec

(* The activation marker of a root without a board goes only when every     *)
(* task is finished.                                                        *)
THEOREM MarkerGoesLast ==
  ASSUME AnswersForAll
  PROVE  Spec => []GoneMeansFinished
<1>1. FinishedInv => GoneMeansFinished
  BY DEF FinishedInv
<1> QED
  BY <1>1, FinishedInvariant, PTL

------------------------------------------------------------------------------
LEMMA ReflectsFinishedStep ==
  ASSUME StopInv, DoneFinished, TouchersDone, ReflectsFinished, [Next]_vars
  PROVE  ReflectsFinished'
<1>0. Settled => Settled'
  BY SettledStays, StopsStepTheBoard, StopAssumption DEF StopInv
<1> USE DEF StopInv, FlagsOK, ReflectsFinished
<1>1. ASSUME NEW w \in Workers, TouchReflect(w)
      PROVE  ReflectsFinished'
  <2>1. Settled
    BY <1>1 DEF TouchReflect, TouchersDone, DoneFinished, Done
  <2> QED
    BY <1>0, <2>1
<1>2. ASSUME NEW w \in Workers, Reflect(w)
      PROVE  ReflectsFinished'
  BY <1>0, <1>2 DEF Reflect
<1>3. ASSUME NEW w \in Workers,
             Decide(w) \/ ReadCounter(w) \/ WriteCounter(w) \/ ResetCounter(w) \/ UnlinkActive(w)
      PROVE  UNCHANGED <<reflect, mirror>>
  BY <1>3 DEF Decide, ReadCounter, WriteCounter, ResetCounter, UnlinkActive, rootVars
<1>4. ASSUME NEW w \in Workers, Stop(w) \/ Resume(w) \/ Leave(w)
      PROVE  ReflectsFinished'
  BY <1>0, <1>4 DEF Stop, Resume, Leave, rootVars
<1>5. ASSUME NEW w \in Workers, Work(w) \/ Prompt(w) \/ CloseCampaign(w)
      PROVE  UNCHANGED <<reflect, mirror>>
  BY <1>5 DEF Work, Record, Prompt, CloseCampaign, rootVars, hookVars
<1>6. Corrupt \/ LeaseTick \/ UNCHANGED vars => UNCHANGED <<reflect, mirror>>
  BY DEF Corrupt, LeaseTick, vars, rootVars, hookVars
<1>7. UNCHANGED <<reflect, mirror>> => ReflectsFinished'
  BY <1>0
<1> QED
  BY <1>1, <1>2, <1>3, <1>4, <1>5, <1>6, <1>7 DEF Next, StopHook

LEMMA CountsUnfinishedStep ==
  ASSUME StopInv, Alone, CountsUnfinished, [Next]_vars
  PROVE  CountsUnfinished'
<1> SUFFICES ASSUME NEW w \in Workers, hook'[w] \in {"read", "write"}
             PROVE  ~Settled'
  BY DEF CountsUnfinished
<1>0. Workers = {w}
  BY DEF Alone
<1> USE DEF StopInv, FlagsOK, Hook
<1>1. ASSUME NEW v \in Workers, Work(v)
      PROVE  FALSE
  <2>1. v = w
    BY <1>0
  <2> QED
    BY <1>1, <2>1 DEF Work, Record, hookVars
<1>2. ~Settled => ~Settled'
  BY <1>1, SettledUnlessWork DEF Next, BoardIdle
<1>3. CASE hook[w] \in {"read", "write"}
  BY <1>2, <1>3 DEF CountsUnfinished
<1>4. CASE hook[w] \notin {"read", "write"}
  <2>1. ASSUME NEW v \in Workers, Decide(v)
        PROVE  ~NothingLeft(v)
    BY <1>4, <2>1 DEF Decide
  <2>2. ASSUME NEW v \in Workers, ReadCounter(v) \/ WriteCounter(v)
        PROVE  FALSE
    BY <1>4, <2>2 DEF ReadCounter, WriteCounter
  <2>3. ASSUME NEW v \in Workers, ResetCounter(v) \/ TouchReflect(v) \/ UnlinkActive(v) \/ Reflect(v)
        PROVE  FALSE
    BY <1>4, <2>3 DEF ResetCounter, TouchReflect, UnlinkActive, Reflect
  <2>4. ASSUME NEW v \in Workers, Stop(v) \/ Resume(v) \/ Leave(v) \/ Prompt(v) \/ CloseCampaign(v)
        PROVE  FALSE
    BY <1>4, <2>4 DEF Stop, Resume, Leave, Prompt, CloseCampaign, hookVars
  <2>5. Corrupt \/ LeaseTick \/ UNCHANGED vars => FALSE
    BY <1>4 DEF Corrupt, LeaseTick, vars, hookVars
  <2>6. \E v \in Workers : Decide(v)
    BY <1>1, <2>2, <2>3, <2>4, <2>5 DEF Next, StopHook
  <2>7. AnswersForAll
    BY DEF AnswersForAll, Alone
  <2> QED
    BY <1>2, <2>1, <2>6, <2>7, NothingLeftSettles
<1> QED
  BY <1>3, <1>4

(* Only a recorded completion makes progress.                               *)
LEMMA ProgressStep ==
  ASSUME StopInv, [Next]_vars
  PROVE  Progress' = Progress \/ \A w \in Workers : row'[w] = 0
<1> USE DEF StopInv
<1>1. ASSUME NEW w \in Workers, NEW t \in Tasks, Record(w, t)
      PROVE  Completed(board') = Completed(board) \/ \A v \in Workers : row'[v] = 0
  <2>1. CASE Fail(w, t)
    BY <2>1, CompletedSame
  <2>2. CASE Complete(w, t)
    <3>1. board'[t].status = "completed"
      BY <2>2 DEF Complete, Row, BoardTypeOK
    <3> QED
      BY <1>1, <3>1 DEF Record
  <2> QED
    BY <1>1, <2>1, <2>2 DEF Record
<1>2. ASSUME NEW w \in Workers, Work(w)
      PROVE  Completed(board') = Completed(board) \/ \A v \in Workers : row'[v] = 0
  BY <1>1, <1>2, CompletedSame DEF Work
<1>3. LeaseTick => Completed(board') = Completed(board)
  <2>1. PICK w : w \in Workers
    BY StopAssumption
  <2> QED
    BY <2>1, CompletedSame DEF LeaseTick
<1>4. BoardIdle \/ UNCHANGED vars => Completed(board') = Completed(board)
  BY IdleKeepsBoard DEF vars, boardVars
<1> QED
  BY <1>2, <1>3, <1>4 DEF Next, BoardIdle, Progress

(* What a lone session's row of blocks has to do with the counter file,     *)
(* step by step of the hook.                                                *)
LEMMA RowCountedStep ==
  ASSUME StopInv, Alone, ReflectsFinished, CountsUnfinished, AllRowsCounted, [Next]_vars
  PROVE  AllRowsCounted'
<1> SUFFICES ASSUME NEW w \in Workers
             PROVE  RowCounted(w)'
  BY DEF AllRowsCounted
<1>a. \A v \in Workers : v = w
  BY DEF Alone
<1>b. ~Settled' => ~Settled
  BY SettledStays, StopsStepTheBoard, StopAssumption DEF StopInv
<1>c. /\ {row[w], view[w].blocks, view[w].done, counter.blocks, counter.done} \subseteq Nat
      /\ Progress \in Nat /\ MaxBlocks \in Nat
  BY StopAssumption, ProgressType DEF StopInv, CountsOK, Count
<1>d. RowCounted(w)
  BY DEF AllRowsCounted
<1>e. Progress' = Progress \/ row'[w] = 0
  BY ProgressStep
<1> USE DEF Hook
<1>1. CASE Decide(w)
  <2>1. hook[w] = "load" /\ row' = row /\ resumed' = resumed /\ counter' = counter
    BY <1>1 DEF Decide, rootVars
  <2>2. Progress' = Progress
    BY <1>1, IdleKeepsBoard DEF BoardIdle, StopHook, Progress, Completed, boardVars
  <2>3. hook'[w] \in {"allow", "reset", "read"} \/ (hook'[w] = "block" /\ ~resumed[w])
    BY <1>1 DEF Decide, StopInv, FlagsOK
  <2>4. hook'[w] = "read" => view'[w].done = Progress
    BY <1>1 DEF Decide, StopInv, FlagsOK, CountsOK, Count, Progress
  <2> QED
    BY <1>b, <1>c, <1>d, <2>1, <2>2, <2>3, <2>4 DEF RowCounted, Counted
<1>2. CASE ReadCounter(w)
  <2>1. hook[w] = "read" /\ row' = row /\ resumed' = resumed /\ counter' = counter
    BY <1>2 DEF ReadCounter, rootVars
  <2>2. Progress' = Progress
    BY <1>2, IdleKeepsBoard DEF BoardIdle, StopHook, Progress, Completed, boardVars
  <2>3. hook'[w] = "write" /\ view'[w].done = view[w].done
    BY <1>2 DEF ReadCounter, StopInv, FlagsOK, CountsOK, Count
  <2>4. view'[w].blocks = (IF view[w].done > counter.done THEN 0 ELSE counter.blocks) + 1
    BY <1>2 DEF ReadCounter, StopInv, CountsOK, Count
  <2> QED
    BY <1>b, <1>c, <1>d, <2>1, <2>2, <2>3, <2>4 DEF RowCounted, Counted
<1>3. CASE WriteCounter(w)
  <2>1. hook[w] = "write" /\ row' = row /\ resumed' = resumed /\ counter' = view[w]
    BY <1>3 DEF WriteCounter
  <2>2. Progress' = Progress
    BY <1>3, IdleKeepsBoard DEF BoardIdle, StopHook, Progress, Completed, boardVars
  <2>3. \/ hook'[w] = "reset"
        \/ hook'[w] = "block" /\ ~(resumed[w] /\ view[w].blocks > MaxBlocks)
    BY <1>3 DEF WriteCounter, StopInv, FlagsOK
  <2>4. ~Settled
    BY <2>1 DEF CountsUnfinished
  <2> QED
    BY <1>b, <1>c, <1>d, <2>1, <2>2, <2>3, <2>4 DEF RowCounted, Counted
<1>4. CASE ResetCounter(w) \/ TouchReflect(w) \/ UnlinkActive(w)
  <2>1. /\ row' = row /\ resumed' = resumed
        /\ hook'[w] \in {"touch", "unlink", "allow"}
    BY <1>4 DEF ResetCounter, TouchReflect, UnlinkActive, StopInv, FlagsOK
  <2> QED
    BY <1>b, <1>c, <1>d, <2>1 DEF RowCounted
<1>5. CASE Stop(w)
  <2>1. /\ hook[w] = "work" /\ hook'[w] = "load"
        /\ row' = row /\ resumed' = resumed /\ counter' = counter
    BY <1>5 DEF Stop, rootVars, StopInv, FlagsOK
  <2> QED
    BY <1>b, <1>c, <1>d, <1>e, <2>1 DEF RowCounted, Counted
<1>6. CASE Resume(w)
  <2>1. hook'[w] = "work" /\ resumed'[w] /\ counter' = counter
    BY <1>6 DEF Resume, rootVars, StopInv, FlagsOK
  <2>2. CASE hook[w] = "block"
    <3>1. row[w] <= MaxBlocks
      BY <1>d, <2>2 DEF RowCounted
    <3>2. row[w] < RowCap
      BY <1>c, <3>1 DEF RowCap
    <3>3. row'[w] = row[w] + 1
      BY <1>6, <2>2, <3>2 DEF Resume, StopInv, CountsOK
    <3> QED
      BY <1>b, <1>c, <1>d, <1>e, <2>1, <2>2, <3>3 DEF RowCounted, Counted
  <2>3. CASE hook[w] # "block"
    <3>1. Settled
      BY <1>6, <2>3 DEF Resume, Answered, ReflectsFinished
    <3>2. row'[w] = row[w]
      BY <1>6, <2>3 DEF Resume, StopInv, CountsOK
    <3> QED
      BY <1>b, <1>c, <1>d, <2>1, <3>1, <3>2 DEF RowCounted
  <2> QED
    BY <2>2, <2>3
<1>7. CASE Leave(w)
  <2>1. hook'[w] = "left" /\ row'[w] = 0
    BY <1>7 DEF Leave, StopInv, FlagsOK, CountsOK
  <2> QED
    BY <1>c, <2>1 DEF RowCounted
<1>8. CASE Work(w)
  <2>1. hook[w] = "work" /\ hook' = hook /\ resumed' = resumed /\ counter' = counter
    BY <1>8 DEF Work, Record, rootVars, hookVars
  <2>2. row'[w] = row[w] \/ row'[w] = 0
    BY <1>8 DEF Work, Record, hookVars
  <2> QED
    BY <1>b, <1>c, <1>d, <1>e, <2>1, <2>2 DEF RowCounted, Counted
<1>9. CASE Prompt(w)
  <2>1. hook'[w] = "work" /\ row'[w] = 0
    BY <1>9 DEF Prompt, StopInv, FlagsOK, CountsOK
  <2> QED
    BY <1>c, <2>1 DEF RowCounted, Counted
<1>10. CASE Reflect(w) \/ CloseCampaign(w) \/ Corrupt \/ LeaseTick \/ UNCHANGED vars
  <2>1. UNCHANGED <<hook, row, resumed, counter, view>>
    BY <1>10 DEF Reflect, CloseCampaign, Corrupt, LeaseTick, vars, rootVars, hookVars
  <2>2. Progress' = Progress
    <3>1. PICK v : v \in Workers
      BY StopAssumption
    <3>2. LeaseTick => Completed(board') = Completed(board)
      BY <3>1, CompletedSame DEF LeaseTick, StopInv
    <3>3. ~LeaseTick => UNCHANGED boardVars
      BY <1>10, IdleKeepsBoard DEF BoardIdle, vars
    <3> QED
      BY <3>2, <3>3 DEF Progress, boardVars
  <2> QED
    BY <1>b, <1>c, <1>d, <2>1, <2>2 DEF RowCounted, Counted
<1> QED
  BY <1>a, <1>1, <1>2, <1>3, <1>4, <1>5, <1>6, <1>7, <1>8, <1>9, <1>10 DEF Next, StopHook

(* The safety valve, for a session that is alone: MaxBlocks blocks in a row *)
(* without a completed task, and one more that was not counted, are the     *)
(* most there ever are, through users' prompts, lost counters and           *)
(* reflection.                                                              *)
THEOREM ValveHolds ==
  ASSUME Alone
  PROVE  Spec => []RowBounded
<1>1. Init => ReflectsFinished /\ CountsUnfinished /\ AllRowsCounted
  <2> SUFFICES ASSUME Init
               PROVE  ReflectsFinished /\ CountsUnfinished /\ AllRowsCounted
    OBVIOUS
  <2>1. /\ ~reflect
        /\ \A w \in Workers : hook[w] = "work" /\ mirror[w] = "off" /\ row[w] = 0
    BY DEF Init
  <2>2. MaxBlocks \in Nat
    BY StopAssumption
  <2> QED
    BY <2>1, <2>2 DEF ReflectsFinished, CountsUnfinished, AllRowsCounted, RowCounted, Counted
<1>2. /\ StopInv /\ FinishedInv /\ ReflectsFinished /\ CountsUnfinished /\ AllRowsCounted
      /\ [Next]_vars
      => (ReflectsFinished /\ CountsUnfinished /\ AllRowsCounted)'
  BY ReflectsFinishedStep, CountsUnfinishedStep, RowCountedStep DEF FinishedInv
<1>3. AllRowsCounted => RowBounded
  BY DEF AllRowsCounted, RowCounted, RowBounded
<1>4. Spec => [](StopInv /\ FinishedInv)
  BY FinishedInvariant DEF AnswersForAll, Alone
<1> QED
  BY <1>1, <1>2, <1>3, <1>4, PTL DEF Spec
================================================================================
