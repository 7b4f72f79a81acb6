------------------------ MODULE ParallelExecutorProofs ------------------------
(***************************************************************************)
(* For every task graph, layering, worker limit and set of exit codes: the *)
(* parallel executor is a run of the task graph, leaks no worker slot, and *)
(* reports every task once.  And for every list of tasks: the sort before  *)
(* it gives the layering that it relies on, or the right error.            *)
(***************************************************************************)
EXTENDS ParallelExecutor, TopoSort, FiniteSetTheorems, TLAPS

------------------------------------------------------------------------------
(* Types. *)

LEMMA TypeInit == ASSUME ExecutorAssumption PROVE Init => ExecTypeOK
<1> SUFFICES ASSUME Init PROVE ExecTypeOK
    OBVIOUS
<1>1. level \in Nat /\ slots \in Nat /\ channel \in Seq(Tasks) /\ results \in Seq(Tasks)
      BY DEF Init
<1>2. step \in [Tasks -> Steps] /\ code \in [Tasks -> Codes \cup {NoCode, 1, 130}]
      BY DEF Init, Steps
<1> QED BY <1>1, <1>2 DEF Init, ExecTypeOK

(* One step of the scheduler or a worker at a time. *)
LEMMA TypeStep == ASSUME ExecutorAssumption PROVE ExecTypeOK /\ [Next]_vars => ExecTypeOK'
<1> SUFFICES ASSUME ExecTypeOK, [Next]_vars PROVE ExecTypeOK'
    OBVIOUS
<1> USE ExecutorAssumption DEF ExecTypeOK, Steps, NoCode
<1>1. ASSUME NEW t \in Tasks, Skip(t) PROVE ExecTypeOK'
      BY <1>1 DEF Skip, Refuse, Move, Decide
<1>2. ASSUME NEW t \in Tasks, CancelBeforeStart(t) PROVE ExecTypeOK'
      BY <1>2 DEF CancelBeforeStart, Refuse, Move, Decide
<1>3. ASSUME NEW t \in Tasks, Spawn(t) PROVE ExecTypeOK'
      BY <1>3 DEF Spawn, Move
<1>4. ASSUME NEW t \in Tasks, AcquireSlot(t) PROVE ExecTypeOK'
      BY <1>4 DEF AcquireSlot, Move
<1>5. ASSUME NEW t \in Tasks, GiveUp(t) PROVE ExecTypeOK'
      BY <1>5 DEF GiveUp, Move, Decide
<1>6. ASSUME NEW t \in Tasks, Settle(t) PROVE ExecTypeOK'
      BY <1>6 DEF Settle, Move, Decide
<1>7. ASSUME NEW t \in Tasks, Send(t) PROVE ExecTypeOK'
      BY <1>7 DEF Send, Move
<1>8. ASSUME NEW t \in Tasks, ReleaseSlot(t) PROVE ExecTypeOK'
      BY <1>8 DEF ReleaseSlot, Move, Freed
<1>9. ASSUME NEW t \in Tasks, Panic(t) PROVE ExecTypeOK'
      BY <1>9 DEF Panic, Move, Decide, Freed
<1>10. ASSUME Collect PROVE ExecTypeOK'
      BY <1>10 DEF Collect, Move
<1>11. CASE NextLayer
      BY <1>11 DEF NextLayer
<1>12. CASE CancelParent
      BY <1>12 DEF CancelParent
<1>13. CASE Interrupt \/ WriteOutput
      BY <1>13 DEF Interrupt, WriteOutput
<1>14. CASE UNCHANGED vars
      BY <1>14 DEF vars
<1> QED BY <1>1, <1>2, <1>3, <1>4, <1>5, <1>6, <1>7, <1>8, <1>9, <1>10, <1>11, <1>12, <1>13, <1>14
        DEF Next, Scheduler, Worker

(* Types: every variable of the executor keeps to its set of values.        *)
THEOREM ExecTypeCorrect == ASSUME ExecutorAssumption PROVE Spec => []ExecTypeOK
  BY TypeInit, TypeStep, PTL DEF Spec

------------------------------------------------------------------------------
(* The inductive invariant.                                                 *)

(* Layers behind are collected, layers ahead are untouched. *)
LayersInOrder ==
    \A t \in Tasks :
        /\ Level[t] < level => step[t] = "collected"
        /\ Level[t] > level => step[t] = "waiting"

(* The map failed holds the collected tasks that did not succeed. *)
FailedAreCollected ==
    \A t \in Tasks : t \in failed <=> step[t] = "collected" /\ code[t] # 0

(* A task with a goroutine depends on collected successes only. *)
LaunchedAreReady ==
    \A t \in Tasks :
        step[t] \in {"spawned", "running", "returning"} =>
            \A d \in Deps[t] : step[d] = "collected" /\ code[d] = 0

(* The channel holds each result that is sent and not collected, once. *)
ChannelHoldsSent ==
    /\ \A i, j \in 1 .. Len(channel) : channel[i] = channel[j] => i = j
    /\ \A t \in Tasks :
          step[t] \in {"sent", "done"} <=> \E i \in 1 .. Len(channel) : channel[i] = t

OrderInv == LayersInOrder /\ FailedAreCollected /\ LaunchedAreReady /\ ChannelHoldsSent

LEMMA OrderInit == ASSUME ExecutorAssumption PROVE Init => OrderInv
  BY DEF Init, OrderInv, LayersInOrder, FailedAreCollected, LaunchedAreReady,
         ChannelHoldsSent, ExecutorAssumption

(* A goroutine that has sent nothing yet sends its result. *)
LEMMA SendKeepsChannel ==
  ASSUME ExecTypeOK, ChannelHoldsSent, NEW t \in Tasks, NEW s \in {"sent", "done"},
         step[t] \in {"spawned", "running", "returning"},
         Move(t, s), channel' = Append(channel, t)
  PROVE  ChannelHoldsSent'
<1>1. channel \in Seq(Tasks) /\ step \in [Tasks -> Steps]
      BY DEF ExecTypeOK
<1>2. ~ \E i \in 1 .. Len(channel) : channel[i] = t
      BY DEF ChannelHoldsSent
<1>3. /\ Len(channel') = Len(channel) + 1 /\ Len(channel) \in Nat
      /\ \A i \in 1 .. Len(channel) : channel'[i] = channel[i]
      /\ channel'[Len(channel) + 1] = t
      BY <1>1
<1>4. \A i, j \in 1 .. Len(channel') : channel'[i] = channel'[j] => i = j
      BY <1>2, <1>3 DEF ChannelHoldsSent
<1>5. ASSUME NEW u \in Tasks
      PROVE  step'[u] \in {"sent", "done"} <=> \E i \in 1 .. Len(channel') : channel'[i] = u
  <2>1. CASE u = t
        BY <1>1, <1>3, <2>1 DEF Move
  <2>2. CASE u # t
        BY <1>1, <1>3, <2>2 DEF Move, ChannelHoldsSent
  <2> QED BY <2>1, <2>2
<1> QED BY <1>4, <1>5 DEF ChannelHoldsSent

(* The collector takes the oldest result. *)
LEMMA CollectKeepsChannel ==
  ASSUME ExecTypeOK, ChannelHoldsSent, Collect
  PROVE  /\ ChannelHoldsSent'
         /\ Head(channel) \in Tasks /\ step[Head(channel)] \in {"sent", "done"}
<1>1. channel \in Seq(Tasks) /\ step \in [Tasks -> Steps] /\ channel # <<>>
      BY DEF ExecTypeOK, Collect
<1>2. /\ Len(channel) \in Nat /\ Len(channel) > 0 /\ Head(channel) = channel[1]
      /\ Len(channel') = Len(channel) - 1
      /\ \A i \in 1 .. Len(channel') : channel'[i] = channel[i + 1]
      BY <1>1 DEF Collect
<1>3. Head(channel) \in Tasks /\ step[Head(channel)] \in {"sent", "done"}
      BY <1>1, <1>2 DEF ChannelHoldsSent
<1>4. \A i, j \in 1 .. Len(channel') : channel'[i] = channel'[j] => i = j
      BY <1>2 DEF ChannelHoldsSent
<1>5. ASSUME NEW u \in Tasks
      PROVE  step'[u] \in {"sent", "done"} <=> \E i \in 1 .. Len(channel') : channel'[i] = u
  <2>1. step' = [step EXCEPT ![Head(channel)] = "collected"]
        BY DEF Collect, Move
  <2>2. CASE u = Head(channel)
        BY <1>1, <1>2, <1>3, <2>1, <2>2 DEF ChannelHoldsSent
  <2>3. CASE u # Head(channel)
    <3>1. step'[u] = step[u]
          BY <1>1, <1>3, <2>1, <2>3
    <3>2. \A i \in 1 .. Len(channel) : channel[i] = u => i - 1 \in 1 .. Len(channel') /\ channel'[i - 1] = u
          BY <1>2, <2>3
    <3>3. \A i \in 1 .. Len(channel') : i + 1 \in 1 .. Len(channel) /\ channel'[i] = channel[i + 1]
          BY <1>2
    <3>4. (\E i \in 1 .. Len(channel) : channel[i] = u) <=> \E i \in 1 .. Len(channel') : channel'[i] = u
          BY <3>2, <3>3
    <3> QED BY <3>1, <3>4 DEF ChannelHoldsSent
  <2> QED BY <2>2, <2>3
<1> QED BY <1>3, <1>4, <1>5 DEF ChannelHoldsSent

(* Nothing is sent and nothing is collected: the channel keeps its meaning. *)
LEMMA ChannelUntouched ==
  ASSUME ExecTypeOK, ChannelHoldsSent, NEW t \in Tasks, NEW s \in Steps, Move(t, s),
         channel' = channel,
         step[t] \in {"sent", "done"} <=> s \in {"sent", "done"}
  PROVE  ChannelHoldsSent'
  BY DEF ChannelHoldsSent, Move, ExecTypeOK

(* A collected task stays as it is, and a task that is launched now comes   *)
(* out of a layer whose predecessors are all collected.                     *)
LEMMA OrderStep ==
  ASSUME ExecutorAssumption
  PROVE  ExecTypeOK /\ OrderInv /\ [Next]_vars => OrderInv'
<1> DEFINE Rest == LayersInOrder /\ FailedAreCollected /\ LaunchedAreReady
<1> SUFFICES ASSUME ExecTypeOK, Rest, ChannelHoldsSent, [Next]_vars
             PROVE  Rest' /\ ChannelHoldsSent'
    BY DEF OrderInv
<1>0. /\ level \in Nat /\ Deps \in [Tasks -> SUBSET Tasks] /\ Level \in [Tasks -> Nat]
      /\ \A t \in Tasks : \A d \in Deps[t] : d \in Tasks /\ Level[d] < Level[t]
      /\ step \in [Tasks -> Steps] /\ code \in [Tasks -> Codes \cup {NoCode, 1, 130}]
      BY DEF ExecTypeOK, ExecutorAssumption
<1> USE <1>0 DEF LayersInOrder, FailedAreCollected, LaunchedAreReady
<1>1. ASSUME NEW t \in Tasks, Skip(t) \/ CancelBeforeStart(t) PROVE Rest' /\ ChannelHoldsSent'
  <2>1. PICK c \in {1, 130} : Level[t] = level /\ step[t] = "waiting" /\ Refuse(t, c)
        BY <1>1 DEF Skip, CancelBeforeStart, Layer
  <2>2. ChannelHoldsSent'
        BY <2>1, ChannelUntouched DEF Refuse, Steps
  <2> QED BY <2>1, <2>2 DEF Refuse, Move, Decide
<1>2. ASSUME NEW t \in Tasks, Spawn(t) PROVE Rest' /\ ChannelHoldsSent'
  <2>1. ChannelHoldsSent'
        BY <1>2, ChannelUntouched DEF Spawn, Steps
  <2> QED BY <1>2, <2>1 DEF Spawn, Move, Layer
<1>3. ASSUME NEW t \in Tasks, AcquireSlot(t) PROVE Rest' /\ ChannelHoldsSent'
  <2>1. ChannelHoldsSent'
        BY <1>3, ChannelUntouched DEF AcquireSlot, Steps
  <2> QED BY <1>3, <2>1 DEF AcquireSlot, Move
<1>4. ASSUME NEW t \in Tasks, GiveUp(t) PROVE Rest' /\ ChannelHoldsSent'
  <2>1. ChannelHoldsSent'
        BY <1>4, SendKeepsChannel DEF GiveUp
  <2> QED BY <1>4, <2>1 DEF GiveUp, Move, Decide
<1>5. ASSUME NEW t \in Tasks, Settle(t) PROVE Rest' /\ ChannelHoldsSent'
  <2>1. ChannelHoldsSent'
        BY <1>5, ChannelUntouched DEF Settle, Steps
  <2> QED BY <1>5, <2>1 DEF Settle, Move, Decide
<1>6. ASSUME NEW t \in Tasks, Send(t) PROVE Rest' /\ ChannelHoldsSent'
  <2>1. ChannelHoldsSent'
        BY <1>6, SendKeepsChannel DEF Send
  <2> QED BY <1>6, <2>1 DEF Send, Move
<1>7. ASSUME NEW t \in Tasks, ReleaseSlot(t) PROVE Rest' /\ ChannelHoldsSent'
  <2>1. ChannelHoldsSent'
        BY <1>7, ChannelUntouched DEF ReleaseSlot, Steps
  <2> QED BY <1>7, <2>1 DEF ReleaseSlot, Move
<1>8. ASSUME NEW t \in Tasks, Panic(t) PROVE Rest' /\ ChannelHoldsSent'
  <2>1. ChannelHoldsSent'
        BY <1>8, SendKeepsChannel DEF Panic
  <2> QED BY <1>8, <2>1 DEF Panic, Move, Decide
<1>9. CASE Collect
  <2> DEFINE h == Head(channel)
  <2>1. ChannelHoldsSent' /\ h \in Tasks /\ step[h] \in {"sent", "done"}
        BY <1>9, CollectKeepsChannel
  <2>2. /\ step' = [step EXCEPT ![h] = "collected"] /\ code' = code /\ level' = level
        /\ failed' = IF code[h] # 0 THEN failed \cup {h} ELSE failed
        BY <1>9 DEF Collect, Move
  <2> HIDE DEF h
  <2> QED BY <2>1, <2>2
<1>10. CASE NextLayer
      BY <1>10 DEF NextLayer, Layer, ChannelHoldsSent
<1>11. CASE CancelParent \/ Interrupt \/ WriteOutput \/ UNCHANGED vars
      BY <1>11 DEF CancelParent, Interrupt, WriteOutput, vars, ChannelHoldsSent
<1> QED BY <1>1, <1>2, <1>3, <1>4, <1>5, <1>6, <1>7, <1>8, <1>9, <1>10, <1>11
        DEF Next, Scheduler, Worker

LEMMA Ordered == ASSUME ExecutorAssumption PROVE Spec => [](ExecTypeOK /\ OrderInv)
  BY TypeInit, TypeStep, OrderInit, OrderStep, PTL DEF Spec

------------------------------------------------------------------------------
(* Results. *)

(* The results hold one entry more, of a task that had none. *)
LEMMA OneMoreResult ==
  ASSUME ExecTypeOK, EachReportedOnce, NEW t \in Tasks, step[t] # "collected",
         Move(t, "collected"), results' = Append(results, t)
  PROVE  EachReportedOnce'
<1>1. results \in Seq(Tasks) /\ step \in [Tasks -> Steps]
      BY DEF ExecTypeOK
<1>2. /\ Len(results') = Len(results) + 1 /\ Len(results) \in Nat
      /\ \A i \in 1 .. Len(results) : results'[i] = results[i]
      /\ results'[Len(results) + 1] = t
      BY <1>1
<1>3. \A i \in 1 .. Len(results) : results[i] # t
      BY DEF EachReportedOnce
<1>4. \A i, j \in 1 .. Len(results') : results'[i] = results'[j] => i = j
      BY <1>2, <1>3 DEF EachReportedOnce
<1>5. {results'[i] : i \in 1 .. Len(results')} = {results[i] : i \in 1 .. Len(results)} \cup {t}
      BY <1>2
<1>6. {u \in Tasks : step'[u] = "collected"} = {u \in Tasks : step[u] = "collected"} \cup {t}
      BY <1>1 DEF Move
<1> QED BY <1>4, <1>5, <1>6 DEF EachReportedOnce

(* Steps that collect nothing. *)
LEMMA NoMoreResults ==
  ASSUME ExecTypeOK, EachReportedOnce, results' = results,
         \A t \in Tasks : step'[t] = "collected" <=> step[t] = "collected"
  PROVE  EachReportedOnce'
  BY DEF EachReportedOnce

LEMMA ReportStep ==
  ASSUME ExecTypeOK, OrderInv, EachReportedOnce, [Next]_vars
  PROVE  EachReportedOnce'
<1>0. step \in [Tasks -> Steps]
      BY DEF ExecTypeOK
<1>1. ASSUME NEW t \in Tasks, Skip(t) \/ CancelBeforeStart(t) PROVE EachReportedOnce'
      BY <1>1, OneMoreResult DEF Skip, CancelBeforeStart, Refuse
<1>2. ASSUME NEW t \in Tasks, Spawn(t) \/ Worker(t) PROVE EachReportedOnce'
      BY <1>0, <1>2, NoMoreResults
         DEF Spawn, Worker, AcquireSlot, GiveUp, Settle, Send, ReleaseSlot, Panic, Move
<1>3. CASE Collect
  <2>1. Head(channel) \in Tasks /\ step[Head(channel)] # "collected"
        BY <1>3, CollectKeepsChannel DEF OrderInv
  <2>2. Move(Head(channel), "collected") /\ results' = Append(results, Head(channel))
        BY <1>3 DEF Collect
  <2> QED BY <2>1, <2>2, OneMoreResult
<1>4. CASE NextLayer \/ CancelParent \/ Interrupt \/ WriteOutput \/ UNCHANGED vars
      BY <1>4 DEF NextLayer, CancelParent, Interrupt, WriteOutput, vars, EachReportedOnce
<1> QED BY <1>1, <1>2, <1>3, <1>4 DEF Next, Scheduler

(* No result is lost or reported twice, for any graph and any number of     *)
(* workers.                                                                 *)
THEOREM ReportedOnce == ASSUME ExecutorAssumption PROVE Spec => []EachReportedOnce
<1>1. Init => EachReportedOnce
      BY DEF Init, EachReportedOnce
<1> QED BY <1>1, Ordered, ReportStep, PTL DEF Spec

------------------------------------------------------------------------------
(* Worker slots. *)

Holding == {t \in Tasks : step[t] \in {"running", "returning", "sent"}}

(* What a move of one task does to the tasks that hold a slot. *)
LEMMA HoldingMoves ==
  ASSUME ExecutorAssumption, ExecTypeOK, NEW t \in Tasks, NEW s \in Steps, Move(t, s)
  PROVE  /\ IsFiniteSet(Holding) /\ Cardinality(Holding) \in Nat
         /\ s \in {"running", "returning", "sent"} /\ t \notin Holding =>
                Cardinality(Holding') = Cardinality(Holding) + 1
         /\ s \notin {"running", "returning", "sent"} /\ t \in Holding =>
                Cardinality(Holding') = Cardinality(Holding) - 1 /\ Cardinality(Holding) > 0
         /\ s \in {"running", "returning", "sent"} <=> t \in Holding => Holding' = Holding
<1>1. IsFiniteSet(Holding)
      BY FS_Subset DEF Holding, ExecutorAssumption
<1>2. step' = [step EXCEPT ![t] = s] /\ step \in [Tasks -> Steps]
      BY DEF Move, ExecTypeOK
<1>3. s \in {"running", "returning", "sent"} => Holding' = Holding \cup {t}
      BY <1>2 DEF Holding
<1>4. s \notin {"running", "returning", "sent"} => Holding' = Holding \ {t}
      BY <1>2 DEF Holding
<1>5. Cardinality(Holding) \in Nat /\ (t \in Holding => Cardinality(Holding) > 0)
      BY <1>1, FS_CardinalityType, FS_EmptySet
<1>6. /\ Cardinality(Holding \cup {t}) =
            IF t \in Holding THEN Cardinality(Holding) ELSE Cardinality(Holding) + 1
      /\ Cardinality(Holding \ {t}) =
            IF t \in Holding THEN Cardinality(Holding) - 1 ELSE Cardinality(Holding)
      BY <1>1, FS_AddElement, FS_RemoveElement
<1>7. s \in {"running", "returning", "sent"} <=> t \in Holding => Holding' = Holding
      BY <1>3, <1>4
<1> QED BY <1>1, <1>3, <1>4, <1>5, <1>6, <1>7

Balanced == workerLimit > 0 => slots = Cardinality(Holding)

(* A result is received after its goroutine has given its slot back. *)
LEMMA CollectsDone ==
  ASSUME ExecutorAssumption, ExecTypeOK, OrderInv, Collect
  PROVE  Head(channel) \in Tasks /\ step[Head(channel)] = "done"
<1>1. Head(channel) \in Tasks /\ step[Head(channel)] \in {"sent", "done"}
      BY CollectKeepsChannel DEF OrderInv
<1>2. Level[Head(channel)] = level
  <2>1. level \in Nat /\ Level[Head(channel)] \in Nat
        BY <1>1 DEF ExecTypeOK, ExecutorAssumption
  <2>2. ~ (Level[Head(channel)] < level) /\ ~ (Level[Head(channel)] > level)
        BY <1>1 DEF OrderInv, LayersInOrder
  <2> QED BY <2>1, <2>2
<1> QED BY <1>1, <1>2 DEF Collect, Layer

LEMMA SlotStep ==
  ASSUME ExecutorAssumption, ExecTypeOK, OrderInv, Balanced, [Next]_vars
  PROVE  Balanced'
<1>0. step \in [Tasks -> Steps] /\ slots \in Nat /\ workerLimit' = workerLimit
      BY DEF ExecTypeOK, workerLimit
<1>1. ASSUME NEW t \in Tasks, Skip(t) \/ CancelBeforeStart(t) PROVE Balanced'
      BY <1>0, <1>1, HoldingMoves DEF Skip, CancelBeforeStart, Refuse, Balanced, Steps, Holding
<1>2. ASSUME NEW t \in Tasks, Spawn(t) PROVE Balanced'
      BY <1>0, <1>2, HoldingMoves DEF Spawn, Balanced, Steps, Holding
<1>3. ASSUME NEW t \in Tasks, AcquireSlot(t) PROVE Balanced'
      BY <1>0, <1>3, HoldingMoves DEF AcquireSlot, Balanced, Steps, Holding
<1>4. ASSUME NEW t \in Tasks, GiveUp(t) PROVE Balanced'
      BY <1>0, <1>4, HoldingMoves DEF GiveUp, Balanced, Steps, Holding
<1>5. ASSUME NEW t \in Tasks, Settle(t) PROVE Balanced'
      BY <1>0, <1>5, HoldingMoves DEF Settle, Balanced, Steps, Holding
<1>6. ASSUME NEW t \in Tasks, Send(t) PROVE Balanced'
      BY <1>0, <1>6, HoldingMoves DEF Send, Balanced, Steps, Holding
<1>7. ASSUME NEW t \in Tasks, ReleaseSlot(t) PROVE Balanced'
      BY <1>0, <1>7, HoldingMoves DEF ReleaseSlot, Freed, Balanced, Steps, Holding
<1>8. ASSUME NEW t \in Tasks, Panic(t) PROVE Balanced'
      BY <1>0, <1>8, HoldingMoves DEF Panic, Freed, Balanced, Steps, Holding
<1>9. CASE Collect
      BY <1>0, <1>9, CollectsDone, HoldingMoves DEF Collect, Balanced, Steps, Holding
<1>10. CASE NextLayer \/ CancelParent \/ Interrupt \/ WriteOutput \/ UNCHANGED vars
      BY <1>0, <1>10 DEF NextLayer, CancelParent, Interrupt, WriteOutput, vars, Balanced, Holding
<1> QED BY <1>1, <1>2, <1>3, <1>4, <1>5, <1>6, <1>7, <1>8, <1>9, <1>10
        DEF Next, Scheduler, Worker

(* Whatever the graph, the limit and the way tasks end, the slots taken are *)
(* the tasks that hold one.                                                 *)
THEOREM NoSlotLeaks == ASSUME ExecutorAssumption PROVE Spec => []SlotsHeld
<1>1. Init => Balanced
  <2> SUFFICES ASSUME Init PROVE slots = Cardinality(Holding)
      BY DEF Balanced
  <2>1. Holding = {} /\ slots = 0
        BY DEF Init, Holding
  <2> QED BY <2>1, FS_EmptySet
<1>2. ExecTypeOK /\ OrderInv /\ Balanced /\ [Next]_vars => Balanced'
      BY SlotStep
<1>3. Balanced => SlotsHeld
      BY DEF Balanced, SlotsHeld, Holding
<1> QED BY <1>1, <1>2, <1>3, Ordered, PTL DEF Spec

------------------------------------------------------------------------------
(* Refinement. *)

fates == [t \in Tasks |-> Fate(t)]

(* A step that moves one task and leaves the fates of the others. *)
LEMMA FateMoves ==
  ASSUME ExecTypeOK, NEW t \in Tasks, NEW s \in Steps, Move(t, s),
         \A u \in Tasks \ {t} : code'[u] = code[u]
  PROVE  fates' = [fates EXCEPT ![t] =
            IF s \in {"waiting", "spawned"} THEN "idle"
            ELSE IF s \in {"running", "returning"} THEN "going"
            ELSE IF code'[t] = 0 THEN "ok" ELSE "bad"]
<1>1. step \in [Tasks -> Steps] /\ step' = [step EXCEPT ![t] = s]
      BY DEF ExecTypeOK, Move
<1>2. \A u \in Tasks \ {t} : Fate(u)' = Fate(u)
      BY <1>1 DEF Fate
<1>3. Fate(t)' = IF s \in {"waiting", "spawned"} THEN "idle"
                 ELSE IF s \in {"running", "returning"} THEN "going"
                 ELSE IF code'[t] = 0 THEN "ok" ELSE "bad"
      BY <1>1 DEF Fate
<1> QED BY <1>2, <1>3 DEF fates

LEMMA DecideTells ==
  ASSUME ExecTypeOK, NEW t \in Tasks, NEW c, Decide(t, c)
  PROVE  code'[t] = c /\ \A u \in Tasks \ {t} : code'[u] = code[u]
  BY DEF ExecTypeOK, Decide

(* A task given up before it ran. *)
LEMMA DroppedFate ==
  ASSUME ExecTypeOK, NEW t \in Tasks, NEW s \in {"done", "collected"}, NEW c \in {1, 130},
         Move(t, s), Decide(t, c)
  PROVE  fates' = [fates EXCEPT ![t] = "bad"]
<1>1. s \in Steps /\ s \notin {"waiting", "spawned", "running", "returning"} /\ c # 0
      BY DEF Steps
<1> QED BY <1>1, DecideTells, FateMoves

(* A step that moves a task without a change of its fate. *)
LEMMA FateStays ==
  ASSUME ExecTypeOK, NEW t \in Tasks, NEW s \in Steps, Move(t, s),
         \A u \in Tasks \ {t} : code'[u] = code[u],
         Fate(t) = IF s \in {"waiting", "spawned"} THEN "idle"
                   ELSE IF s \in {"running", "returning"} THEN "going"
                   ELSE IF code'[t] = 0 THEN "ok" ELSE "bad"
  PROVE  fates' = fates
<1>1. fates' = [fates EXCEPT ![t] = Fate(t)]
      BY FateMoves
<1> QED BY <1>1 DEF fates

(* The instance counts a set the way the executor does. *)
LEMMA SameCount == ASSUME NEW S PROVE Graph!Cardinality(S) = Cardinality(S)
  BY DEF Graph!Cardinality, Cardinality

(* Every step of the executor is a step of the task graph or none. *)
LEMMA GraphStep ==
  ASSUME ExecutorAssumption, ExecTypeOK, OrderInv, Balanced, [Next]_vars
  PROVE  [Graph!GraphNext]_<<fates, cancelled>>
<1>0. /\ step \in [Tasks -> Steps] /\ workerLimit' = workerLimit
      /\ \A t \in Tasks : fates[t] = Fate(t)
      /\ Deps \in [Tasks -> SUBSET Tasks]
      /\ DOMAIN fates = Tasks
      BY DEF ExecTypeOK, workerLimit, fates, ExecutorAssumption
<1> DEFINE Stays == UNCHANGED <<fates, cancelled>>
<1>1. ASSUME NEW t \in Tasks, Skip(t) PROVE Graph!Drop(t)
  <2>1. fates[t] = "idle" /\ fates' = [fates EXCEPT ![t] = "bad"]
        BY <1>0, <1>1, DroppedFate DEF Skip, Refuse, Fate
  <2>2. \E d \in Deps[t] : fates[d] = "bad"
        BY <1>0, <1>1 DEF Skip, OrderInv, FailedAreCollected, Fate
  <2> QED BY <1>1, <2>1, <2>2 DEF Skip, Refuse, Graph!Drop, fates
<1>2. ASSUME NEW t \in Tasks, CancelBeforeStart(t) PROVE Graph!Drop(t)
  <2>1. fates[t] = "idle" /\ fates' = [fates EXCEPT ![t] = "bad"]
        BY <1>0, <1>2, DroppedFate DEF CancelBeforeStart, Refuse, Fate
  <2> QED BY <1>2, <2>1 DEF CancelBeforeStart, Refuse, Graph!Drop, fates
<1>3. ASSUME NEW t \in Tasks, Spawn(t) PROVE Stays
      BY <1>0, <1>3, FateStays DEF Spawn, Steps, Fate
<1>4. ASSUME NEW t \in Tasks, AcquireSlot(t) PROVE Graph!Begin(t)
  <2>1. fates[t] = "idle" /\ fates' = [fates EXCEPT ![t] = "going"]
        BY <1>0, <1>4, FateMoves DEF AcquireSlot, Steps, Fate
  <2>2. \A d \in Deps[t] : fates[d] = "ok"
        BY <1>0, <1>4 DEF AcquireSlot, OrderInv, LaunchedAreReady, Fate
  <2>3. workerLimit > 0 => Cardinality({u \in Tasks : fates[u] = "going"}) < workerLimit
    <3>1. {u \in Tasks : fates[u] = "going"} \subseteq Holding
          BY <1>0 DEF Holding, Fate
    <3>2. IsFiniteSet(Holding)
          BY FS_Subset DEF Holding, ExecutorAssumption
    <3>3. /\ Cardinality({u \in Tasks : fates[u] = "going"}) <= Cardinality(Holding)
          /\ IsFiniteSet({u \in Tasks : fates[u] = "going"})
          BY <3>1, <3>2, FS_Subset
    <3>4. Cardinality({u \in Tasks : fates[u] = "going"}) \in Nat /\ Cardinality(Holding) \in Nat
          BY <3>2, <3>3, FS_CardinalityType
    <3>5. workerLimit > 0 => Cardinality(Holding) < workerLimit
          BY <1>4 DEF AcquireSlot, Balanced
    <3>6. workerLimit \in Nat
          BY DEF workerLimit, ExecutorAssumption
    <3> QED BY <3>3, <3>4, <3>5, <3>6
  <2>4. workerLimit > 0 => Graph!Cardinality(Graph!Going) < workerLimit
        BY <2>3, SameCount DEF Graph!Going, fates
  <2> QED BY <1>4, <2>1, <2>2, <2>4 DEF AcquireSlot, Graph!Begin, fates
<1>5. ASSUME NEW t \in Tasks, GiveUp(t) PROVE Graph!Drop(t)
  <2>1. fates[t] = "idle" /\ fates' = [fates EXCEPT ![t] = "bad"]
        BY <1>0, <1>5, DroppedFate DEF GiveUp, Fate
  <2> QED BY <1>5, <2>1 DEF GiveUp, Graph!Drop, fates
<1>6. ASSUME NEW t \in Tasks, Settle(t) PROVE Stays
  <2>1. PICK c : Decide(t, c)
        BY <1>6 DEF Settle
  <2>2. \A u \in Tasks \ {t} : code'[u] = code[u]
        BY <2>1, DecideTells
  <2> QED BY <1>0, <1>6, <2>2, FateStays DEF Settle, Steps, Fate
<1>7. ASSUME NEW t \in Tasks, Send(t) PROVE Graph!End(t)
  <2>1. fates[t] = "going" /\ \E f \in {"ok", "bad"} : fates' = [fates EXCEPT ![t] = f]
    <3>1. fates[t] = "going" /\ Move(t, "sent") /\ code' = code /\ "sent" \in Steps
          BY <1>0, <1>7 DEF Send, Fate, Steps
    <3>2. fates' = [fates EXCEPT ![t] = IF code'[t] = 0 THEN "ok" ELSE "bad"]
      <4>1. \A u \in Tasks \ {t} : code'[u] = code[u]
            BY <3>1
      <4>2. "sent" \notin {"waiting", "spawned", "running", "returning"}
            OBVIOUS
      <4> QED BY <3>1, <4>1, <4>2, FateMoves
    <3> QED BY <3>1, <3>2
  <2> QED BY <1>7, <2>1 DEF Send, Graph!End, fates
<1>8. ASSUME NEW t \in Tasks, ReleaseSlot(t) PROVE Stays
      BY <1>0, <1>8, FateStays DEF ReleaseSlot, Steps, Fate
<1>9. ASSUME NEW t \in Tasks, Panic(t) PROVE Graph!End(t)
  <2>1. fates[t] = "going" /\ fates' = [fates EXCEPT ![t] = "bad"]
        BY <1>0, <1>9, DroppedFate DEF Panic, Fate
  <2> QED BY <1>9, <2>1 DEF Panic, Graph!End, fates
<1>10. CASE Collect
  <2>1. Head(channel) \in Tasks /\ step[Head(channel)] = "done"
        BY <1>10, CollectsDone
  <2>2. Move(Head(channel), "collected") /\ code' = code /\ cancelled' = cancelled
        BY <1>10 DEF Collect
  <2> QED BY <2>1, <2>2, FateStays DEF Steps, Fate
<1>11. CASE CancelParent
      BY <1>11 DEF CancelParent, Graph!StopRun, Graph!GraphNext, fates, Fate
<1>12. CASE NextLayer \/ Interrupt \/ WriteOutput \/ UNCHANGED vars
      BY <1>12 DEF NextLayer, Interrupt, WriteOutput, vars, fates, Fate
<1> QED BY <1>1, <1>2, <1>3, <1>4, <1>5, <1>6, <1>7, <1>8, <1>9, <1>10, <1>11, <1>12
        DEF Next, Scheduler, Worker, Graph!GraphNext, fates

(* The executor implements the task graph: a call begins after everything   *)
(* it depends on has succeeded, never above the worker limit, and is given  *)
(* up only for a failure or a cancellation.                                 *)
THEOREM ExecutorRunsTheGraph == ASSUME ExecutorAssumption PROVE Spec => RunsTheGraph
<1>1. Init => Graph!GraphInit
      BY DEF Init, Graph!GraphInit, Fate
<1>2. Init => Balanced
  <2> SUFFICES ASSUME Init PROVE slots = Cardinality(Holding)
      BY DEF Balanced
  <2>1. Holding = {} /\ slots = 0
        BY DEF Init, Holding
  <2> QED BY <2>1, FS_EmptySet
<1>3. ExecTypeOK /\ OrderInv /\ Balanced /\ [Next]_vars => Balanced'
      BY SlotStep
<1>4. ExecTypeOK /\ OrderInv /\ Balanced /\ [Next]_vars
        => [Graph!GraphNext]_<<[t \in Tasks |-> Fate(t)], cancelled>>
      BY GraphStep DEF fates
<1> QED BY <1>1, <1>2, <1>3, <1>4, Ordered, PTL DEF Spec, RunsTheGraph, Graph!GraphSpec
------------------------------------------------------------------------------
(* The exit code. *)

(* A set of positions that is not empty has a last one. *)
LEMMA LastPosition ==
  ASSUME NEW n \in Nat, NEW S \in SUBSET (1 .. n), S # {}
  PROVE  \E i \in S : \A j \in S : j <= i
<1> DEFINE Rest(i) == i + 1 .. n
           T == {Rest(i) : i \in S}
           R == StrictSubsetOrdering(1 .. n)
<1>1. \A i \in S : IsFiniteSet(Rest(i)) /\ Rest(i) \in SUBSET (1 .. n)
  BY FS_Interval
<1>2. T \subseteq FiniteSubsetsOf(1 .. n) /\ T # {}
  BY <1>1 DEF FiniteSubsetsOf
<1>3. IsWellFoundedOn(R, FiniteSubsetsOf(1 .. n))
  BY FS_StrictSubsetOrderingWellFounded
<1>4. \E x \in T : \A y \in T : <<y, x>> \notin R
  <2> HIDE DEF T, R
  <2> QED
    BY <1>2, <1>3, WFMin
<1>5. PICK i \in S : \A j \in S : <<Rest(j), Rest(i)>> \notin R
  BY <1>4
<1>6. ASSUME NEW j \in S, j > i PROVE FALSE
  <2>1. Rest(j) \subseteq Rest(i) /\ j \in Rest(i) /\ j \notin Rest(j)
    BY <1>6
  <2>2. <<Rest(j), Rest(i)>> \in R
    BY <1>1, <2>1 DEF StrictSubsetOrdering
  <2> QED
    BY <1>5, <2>2
<1> QED
  BY <1>6

(* RunPlan answers when there is a result for every task.                    *)
LEMMA AnswerAtTheEnd ==
  ASSUME ExecutorAssumption
  PROVE  Spec => [](output # "none" => Finished)
<1> DEFINE Answered == output # "none" => Finished
<1>1. Init => Answered
  BY DEF Init
<1>2. ExecTypeOK /\ Answered /\ [Next]_vars => Answered'
  <2> SUFFICES ASSUME ExecTypeOK, Answered, [Next]_vars PROVE Answered'
    OBVIOUS
  <2>1. CASE WriteOutput
    BY <2>1 DEF WriteOutput, Finished
  <2>2. CASE NextLayer \/ CancelParent \/ Interrupt \/ UNCHANGED vars
    BY <2>2 DEF NextLayer, CancelParent, Interrupt, vars, Finished
  <2>3. CASE Collect
    BY <2>3 DEF Collect, Move, Finished, ExecTypeOK
  <2>4. ASSUME NEW t \in Tasks, Skip(t) \/ CancelBeforeStart(t) \/ Spawn(t) \/ Worker(t)
        PROVE  Answered'
    <3>1. step[t] # "collected" /\ output' = output
      BY <2>4 DEF Skip, CancelBeforeStart, Refuse, Spawn, Worker, AcquireSlot, GiveUp, Settle,
                  Send, ReleaseSlot, Panic
    <3> QED
      BY <3>1 DEF Finished
  <2> QED
    BY <2>1, <2>2, <2>3, <2>4 DEF Next, Scheduler
<1> QED
  BY <1>1, <1>2, ExecTypeCorrect, PTL DEF Spec

(* With a result for every task, the code of the last bad one is 0 only if   *)
(* there is none: the exit code of the process tells whether all went well,  *)
(* and the output is written.                                                *)
THEOREM ExitCodeTells == ASSUME ExecutorAssumption PROVE Spec => []ExitTells
<1>1. ExecTypeOK /\ EachReportedOnce /\ (output # "none" => Finished) => ExitTells
  <2> SUFFICES ASSUME ExecTypeOK, EachReportedOnce, Finished, output # "none"
               PROVE  ExitCode = 0 <=> output = "written" /\ \A t \in Tasks : code[t] = 0
    BY DEF ExitTells
  <2> DEFINE bad == {i \in 1 .. Len(results) : code[results[i]] # 0}
  <2>1. results \in Seq(Tasks) /\ Len(results) \in Nat /\ output \in {"written", "failed"}
    BY DEF ExecTypeOK
  <2>2. {results[i] : i \in 1 .. Len(results)} = Tasks
    BY DEF EachReportedOnce, Finished
  <2>0. CASE output = "failed"
    BY <2>0 DEF ExitCode
  <2>3. CASE output = "written" /\ bad = {}
    BY <2>2, <2>3 DEF ExitCode
  <2>4. CASE output = "written" /\ bad # {}
    <3> DEFINE last == CHOOSE i \in bad : \A j \in bad : j <= i
    <3>1. \E i \in bad : \A j \in bad : j <= i
      <4>1. bad \in SUBSET (1 .. Len(results))
        OBVIOUS
      <4> HIDE DEF bad
      <4> QED
        BY <2>1, <2>4, <4>1, LastPosition
    <3>2. last \in bad
      <4> HIDE DEF bad
      <4> QED
        BY <3>1
    <3>3. ExitCode = code[results[last]]
      BY <2>4 DEF ExitCode
    <3>4. results[last] \in Tasks /\ code[results[last]] # 0
      <4> HIDE DEF last
      <4> QED
        BY <3>2, <2>2
    <3> QED
      BY <3>3, <3>4
  <2> QED
    BY <2>0, <2>1, <2>3, <2>4
<1> QED
  BY <1>1, ExecTypeCorrect, ReportedOnce, AnswerAtTheEnd, PTL

------------------------------------------------------------------------------
(* The sort that makes the layers. *)

(* A set of positions that is not empty has a first one. *)
LEMMA FirstPosition ==
  ASSUME NEW n \in Nat, NEW S \in SUBSET (1 .. n), S # {}
  PROVE  \E i \in S : \A j \in S : i <= j
<1> DEFINE T == {n + 1 - i : i \in S}
<1>1. T \in SUBSET (1 .. n) /\ T # {}
  <2>1. ASSUME NEW i \in S PROVE n + 1 - i \in 1 .. n
    OBVIOUS
  <2>2. PICK i \in S : TRUE
    OBVIOUS
  <2>3. n + 1 - i \in T
    OBVIOUS
  <2> QED
    BY <2>1, <2>3
<1>2. PICK m \in T : \A k \in T : k <= m
  <2> HIDE DEF T
  <2> QED
    BY <1>1, LastPosition
<1>3. PICK i \in S : m = n + 1 - i
  BY <1>2
<1>4. ASSUME NEW j \in S PROVE i <= j
  <2>1. n + 1 - j \in T
    OBVIOUS
  <2>2. n + 1 - j <= n + 1 - i
    BY <1>2, <1>3, <2>1
  <2> QED
    BY <2>2
<1> QED
  BY <1>4

(* Counting the names in a dependency list. *)
LEMMA NamedIsNumber ==
  ASSUME NEW t, Len(deps[t]) \in Nat, DOMAIN deps[t] = 1 .. Len(deps[t]), NEW A
  PROVE  /\ IsFiniteSet({i \in DOMAIN deps[t] : deps[t][i] \in A})
         /\ Named(t, A) \in Nat
         /\ Named(t, A) = 0 <=> Needs(t) \cap A = {}
<1> DEFINE P == {i \in DOMAIN deps[t] : deps[t][i] \in A}
<1>1. IsFiniteSet(P)
  <2>1. IsFiniteSet(1 .. Len(deps[t])) /\ P \in SUBSET (1 .. Len(deps[t]))
    BY FS_Interval
  <2> QED
    BY <2>1, FS_Subset
<1>2. P = {} <=> Needs(t) \cap A = {}
  BY DEF Needs, Range
<1>3. Named(t, A) = Cardinality(P)
  BY DEF Named
<1> HIDE DEF P
<1>4. Cardinality(P) \in Nat /\ (Cardinality(P) = 0 <=> P = {})
  BY <1>1, FS_CardinalityType, FS_EmptySet
<1> QED
  BY <1>1, <1>2, <1>3, <1>4 DEF P

(* Names of these are names of those and of the others. *)
LEMMA NamedApart ==
  ASSUME NEW t, Len(deps[t]) \in Nat, DOMAIN deps[t] = 1 .. Len(deps[t]), NEW A, NEW B \in SUBSET A
  PROVE  Named(t, A \ B) = Named(t, A) - Named(t, B)
<1> DEFINE P(C) == {i \in DOMAIN deps[t] : deps[t][i] \in C}
<1>1. IsFiniteSet(P(A \ B)) /\ IsFiniteSet(P(B))
  BY NamedIsNumber
<1>2. P(A) = P(A \ B) \cup P(B) /\ P(A \ B) \cap P(B) = {}
  OBVIOUS
<1>3. Cardinality(P(A)) = Cardinality(P(A \ B)) + Cardinality(P(B)) - 0
  <2> DEFINE x == P(A \ B)
             y == P(B)
  <2>1. IsFiniteSet(x) /\ IsFiniteSet(y) /\ x \cap y = {} /\ P(A) = x \cup y
    BY <1>1, <1>2
  <2> HIDE DEF P, x, y
  <2>2. Cardinality(x \cup y) = Cardinality(x) + Cardinality(y) - Cardinality(x \cap y)
    BY <2>1, FS_Union
  <2>3. Cardinality(P(A)) = Cardinality(x) + Cardinality(y) - 0
    BY <2>1, <2>2, FS_EmptySet
  <2> QED
    BY <2>3 DEF x, y
<1>4. Cardinality(P(A \ B)) \in Nat /\ Cardinality(P(B)) \in Nat
  BY <1>1, FS_CardinalityType
<1>5. /\ Named(t, A \ B) = Cardinality(P(A \ B))
      /\ Named(t, A) = Cardinality(P(A)) /\ Named(t, B) = Cardinality(P(B))
  BY DEF Named
<1> HIDE DEF P
<1> QED
  BY <1>3, <1>4, <1>5

Taken == UNION {layers[i] : i \in DOMAIN layers}

SortShape ==
    /\ deps \in [Ids -> Lists]
    /\ layers \in Seq(SUBSET Ids)
    /\ queue \subseteq Ids
    /\ outcome \in {"start", "sorting", "layers", "not found", "cycle"}
    /\ outcome \in {"start", "not found"} => layers = <<>> /\ processed = 0 /\ indegree = [t \in Ids |-> 0]
    /\ outcome # "start" => (outcome = "not found" <=> \E t \in Ids : ~ Needs(t) \subseteq Ids)
    /\ outcome \in {"layers", "cycle"} =>
          queue = {} /\ (outcome = "layers" <=> processed = Cardinality(Ids))

(* What a task waits for are the names in its list that are in no layer yet, *)
(* and those are queued that wait for nothing; a layer rests on the ones     *)
(* before it, and so does the queue.                                         *)
Rests(t, i) ==
    /\ \A d \in Needs(t) : \E j \in 1 .. i - 1 : d \in layers[j]
    /\ i > 1 => \E d \in Needs(t) : d \in layers[i - 1]

CountsFit ==
    /\ indegree = [t \in Ids |-> Named(t, Ids \ Taken)]
    /\ queue = {t \in Ids \ Taken : indegree[t] = 0}
    /\ processed = Cardinality(Taken)
    /\ \A i, j \in DOMAIN layers : layers[i] \cap layers[j] # {} => i = j
    /\ \A i \in DOMAIN layers : \A t \in layers[i] : Rests(t, i)
    /\ \A t \in queue : Rests(t, Len(layers) + 1)

SortInv == SortShape /\ (outcome \notin {"start", "not found"} => CountsFit)

LEMMA ListsAre ==
  ASSUME deps \in [Ids -> Lists], NEW t \in Ids, SortAssumption
  PROVE  Len(deps[t]) \in Nat /\ DOMAIN deps[t] = 1 .. Len(deps[t])
<1>1. deps[t] \in Seq(Ids \cup Strangers)
  BY DEF SortAssumption
<1> QED
  BY <1>1

LEMMA SortInvInit == SortInit => SortInv
BY DEF SortInit, SortInv, SortShape

(* The counts at the start, when no task is in a layer. *)
LEMMA CountStep == ASSUME SortInv, CountDependencies, SortAssumption PROVE SortInv'
<1>1. outcome = "start" /\ layers = <<>> /\ processed = 0 /\ UNCHANGED <<deps, layers, processed>>
  BY DEF SortInv, SortShape, CountDependencies
<1>2. CASE \E t \in Ids : ~ Needs(t) \subseteq Ids
  <2>1. outcome' = "not found" /\ UNCHANGED <<indegree, queue>>
    BY <1>2 DEF CountDependencies
  <2> QED
    BY <1>1, <1>2, <2>1 DEF SortInv, SortShape, Needs
<1>3. CASE ~ \E t \in Ids : ~ Needs(t) \subseteq Ids
  <2>1. /\ indegree' = [t \in Ids |-> Named(t, Ids)]
        /\ queue' = {t \in Ids : indegree'[t] = 0}
        /\ outcome' = "sorting"
    BY <1>3 DEF CountDependencies, Count
  <2>2. SortShape'
    BY <1>1, <1>3, <2>1 DEF SortInv, SortShape, Needs
  <2>3. Taken' = {} /\ layers' = <<>>
    BY <1>1 DEF Taken
  <2>4. \A t, A : Named(t, A)' = Named(t, A)
    BY <1>1 DEF Named
  <2>5. ASSUME NEW t \in queue' PROVE Rests(t, Len(layers) + 1)'
    <3>1. t \in Ids /\ Named(t, Ids) = 0
      BY <2>1
    <3>2. Needs(t) \cap Ids = {}
      BY <3>1, ListsAre, NamedIsNumber DEF SortInv, SortShape
    <3>3. Needs(t)' = {}
      BY <1>1, <1>3, <3>1, <3>2 DEF Needs
    <3>4. Len(layers') + 1 = 1
      BY <2>3
    <3> QED
      BY <3>3, <3>4 DEF Rests
  <2>6. processed' = Cardinality(Taken')
    BY <1>1, <2>3, FS_EmptySet
  <2>7. indegree' = [t \in Ids |-> Named(t, Ids \ Taken)]'
    <3>1. indegree' = [t \in Ids |-> Named(t, Ids)']
      BY <2>1, <2>4
    <3> QED
      BY <2>3, <3>1 DEF Named
  <2>8. queue' = {t \in Ids \ Taken' : indegree'[t] = 0}
    BY <2>1, <2>3
  <2>9. \A i, j \in DOMAIN layers' : layers'[i] \cap layers'[j] # {} => i = j
    BY <2>3
  <2>10. \A i \in DOMAIN layers' : \A t \in layers'[i] : Rests(t, i)'
    BY <2>3
  <2>11. CountsFit'
    BY <2>5, <2>6, <2>7, <2>8, <2>9, <2>10 DEF CountsFit
  <2> QED
    BY <2>2, <2>11 DEF SortInv
<1> QED
  BY <1>2, <1>3

LEMMA LayersAre ==
  ASSUME SortShape
  PROVE  /\ layers \in Seq(SUBSET Ids) /\ Len(layers) \in Nat /\ DOMAIN layers = 1 .. Len(layers)
         /\ Taken \subseteq Ids
<1>1. layers \in Seq(SUBSET Ids)
  BY DEF SortShape
<1>2. Len(layers) \in Nat /\ DOMAIN layers = 1 .. Len(layers)
  BY <1>1
<1>3. \A i \in 1 .. Len(layers) : layers[i] \subseteq Ids
  BY <1>1
<1> QED
  BY <1>1, <1>2, <1>3 DEF Taken

LEMMA FitStays ==
  ASSUME CountsFit, UNCHANGED <<deps, indegree, queue, layers, processed>>
  PROVE  CountsFit'
<1>1. Taken' = Taken
  BY DEF Taken
<1>2. [t \in Ids |-> Named(t, Ids \ Taken)]' = [t \in Ids |-> Named(t, Ids \ Taken)]
  BY <1>1 DEF Named
<1>3. \A t, i : Rests(t, i)' <=> Rests(t, i)
  BY DEF Rests, Needs
<1> QED
  BY <1>1, <1>2, <1>3 DEF CountsFit

(* The queue becomes a layer: its tasks are counted no more, and those that  *)
(* named them and wait for nothing else are the new queue.                   *)
LEMMA LayerStep == ASSUME SortInv, TakeLayer, SortAssumption PROVE SortInv'
<1> DEFINE n == Len(layers)
<1>1. /\ SortShape /\ CountsFit /\ outcome = "sorting" /\ outcome' = outcome /\ deps' = deps
      /\ layers' = Append(layers, queue)
      /\ processed' = processed + Cardinality(queue)
      /\ indegree' = [t \in Ids |-> indegree[t] - Named(t, queue)]
      /\ queue' = {t \in Ids : indegree'[t] = 0 /\ Named(t, queue) > 0}
  BY DEF SortInv, TakeLayer
<1>2. /\ deps \in [Ids -> Lists] /\ layers \in Seq(SUBSET Ids) /\ queue \subseteq Ids
      /\ \A t \in Ids : Needs(t) \subseteq Ids
  BY <1>1 DEF SortShape
<1>3. /\ n \in Nat /\ DOMAIN layers = 1 .. n
      /\ layers' \in Seq(SUBSET Ids) /\ DOMAIN layers' = 1 .. n + 1 /\ Len(layers') = n + 1
      /\ \A i \in 1 .. n : layers'[i] = layers[i]
      /\ layers'[n + 1] = queue
  BY <1>1, <1>2
<1>4. Taken' = Taken \cup queue /\ Taken \cap queue = {} /\ Taken \subseteq Ids
  <2>1. Taken' = Taken \cup queue
    <3>1. DOMAIN layers' = (1 .. n) \cup {n + 1}
      BY <1>3
    <3> HIDE DEF n
    <3> QED
      BY <1>3, <3>1 DEF Taken
  <2>2. Taken \cap queue = {}
    BY <1>1 DEF CountsFit
  <2>3. Taken \subseteq Ids
    BY <1>2, <1>3 DEF Taken
  <2> QED
    BY <2>1, <2>2, <2>3
<1>5. \A t, A : Named(t, A)' = Named(t, A) /\ Needs(t)' = Needs(t)
  BY <1>1 DEF Named, Needs
<1>6. ASSUME NEW t \in Ids
      PROVE  /\ indegree[t] = Named(t, Ids \ Taken)
             /\ Named(t, Ids \ Taken') = Named(t, Ids \ Taken) - Named(t, queue)
             /\ Named(t, Ids \ Taken) \in Nat /\ Named(t, queue) \in Nat /\ Named(t, Ids \ Taken') \in Nat
             /\ Named(t, queue) = 0 <=> Needs(t) \cap queue = {}
             /\ Named(t, Ids \ Taken') = 0 <=> Needs(t) \cap (Ids \ Taken') = {}
  <2>1. Len(deps[t]) \in Nat /\ DOMAIN deps[t] = 1 .. Len(deps[t])
    BY <1>2, ListsAre
  <2>2. queue \in SUBSET (Ids \ Taken) /\ (Ids \ Taken) \ queue = Ids \ Taken'
    BY <1>2, <1>4
  <2>3. Named(t, (Ids \ Taken) \ queue) = Named(t, Ids \ Taken) - Named(t, queue)
    BY <2>1, <2>2, NamedApart
  <2>4. indegree[t] = Named(t, Ids \ Taken)
    BY <1>1 DEF CountsFit
  <2> QED
    BY <2>1, <2>2, <2>3, <2>4, NamedIsNumber
<1>7. \A t \in Ids : indegree'[t] = Named(t, Ids \ Taken')
  BY <1>1, <1>6
<1>8. indegree' = [t \in Ids |-> Named(t, Ids \ Taken)]'
  <2>1. \A t \in Ids : Named(t, Ids \ Taken)' = Named(t, Ids \ Taken')
    BY <1>1 DEF Named
  <2> QED
    BY <1>1, <1>7, <2>1
<1>9. queue' = {t \in Ids \ Taken' : indegree'[t] = 0}
  <2>1. ASSUME NEW t \in Ids, indegree'[t] = 0
        PROVE  Named(t, queue) > 0 <=> t \notin Taken'
    <3>1. CASE t \in Taken'
      <4>1. PICK i \in 1 .. n + 1 : t \in layers'[i]
        BY <1>3, <3>1 DEF Taken
      <4>2. Needs(t) \cap queue = {}
        <5>1. Rests(t, i)
          BY <1>1, <1>3, <4>1 DEF CountsFit
        <5>2. Needs(t) \subseteq Taken
          BY <1>3, <5>1 DEF Rests, Taken
        <5> QED
          BY <1>4, <5>2
      <4> QED
        BY <1>6, <3>1, <4>2
    <3>2. CASE t \notin Taken'
      <4>1. indegree[t] # 0
        BY <1>1, <1>4, <3>2 DEF CountsFit
      <4>2. Named(t, queue) = Named(t, Ids \ Taken)
        <5>1. Named(t, Ids \ Taken') = 0
          BY <1>7, <2>1
        <5>2. /\ Named(t, Ids \ Taken') = Named(t, Ids \ Taken) - Named(t, queue)
              /\ Named(t, Ids \ Taken) \in Nat /\ Named(t, queue) \in Nat
          BY <1>6
        <5> QED
          BY <5>1, <5>2
      <4>3. Named(t, queue) \in Nat /\ indegree[t] = Named(t, Ids \ Taken)
        BY <1>6
      <4> QED
        BY <3>2, <4>1, <4>2, <4>3
    <3> QED
      BY <3>1, <3>2
  <2> QED
    BY <1>1, <2>1
<1>10. processed' = Cardinality(Taken')
  <2>1. IsFiniteSet(Taken) /\ IsFiniteSet(queue)
    BY <1>2, <1>4, FS_Subset DEF SortAssumption
  <2>2. Cardinality(Taken \cup queue) = Cardinality(Taken) + Cardinality(queue) - Cardinality(Taken \cap queue)
    BY <2>1, FS_Union
  <2>3. Cardinality(Taken) \in Nat /\ Cardinality(queue) \in Nat /\ Cardinality({}) = 0
    BY <2>1, FS_CardinalityType, FS_EmptySet
  <2>4. Cardinality(Taken') = Cardinality(Taken) + Cardinality(queue)
    <3>1. Taken \cap queue = {} /\ Taken' = Taken \cup queue
      BY <1>4
    <3>2. Cardinality(Taken \cap queue) = 0
      BY <2>3, <3>1
    <3>3. Cardinality(Taken \cup queue) = Cardinality(Taken) + Cardinality(queue)
      BY <2>2, <2>3, <3>2
    <3> QED
      BY <3>1, <3>3
  <2> QED
    BY <1>1, <2>4 DEF CountsFit
<1>11. \A i, j \in DOMAIN layers' : layers'[i] \cap layers'[j] # {} => i = j
  <2> SUFFICES ASSUME NEW i \in 1 .. n + 1, NEW j \in 1 .. n + 1, NEW t, t \in layers'[i], t \in layers'[j]
               PROVE  i = j
    BY <1>3
  <2>1. \A k \in 1 .. n : t \in layers[k] => t \in Taken
    BY <1>3 DEF Taken
  <2>2. t \in queue <=> i = n + 1
    BY <1>3, <1>4, <2>1
  <2>3. t \in queue <=> j = n + 1
    BY <1>3, <1>4, <2>1
  <2>4. \A k, l \in 1 .. n : t \in layers[k] /\ t \in layers[l] => k = l
    BY <1>1, <1>3 DEF CountsFit
  <2> HIDE DEF n
  <2> QED
    BY <1>3, <2>2, <2>3, <2>4
<1>12. ASSUME NEW t, NEW i \in 1 .. n + 1, Rests(t, i) PROVE Rests(t, i)'
  <2>1. \A j \in 1 .. i - 1 : j \in 1 .. n /\ layers'[j] = layers[j]
    BY <1>3
  <2>2. i > 1 => i - 1 \in 1 .. i - 1
    BY <1>3
  <2>3. Needs(t)' = Needs(t)
    BY <1>5
  <2> QED
    BY <1>12, <2>1, <2>2, <2>3 DEF Rests
<1>13. \A i \in DOMAIN layers' : \A t \in layers'[i] : Rests(t, i)'
  <2> SUFFICES ASSUME NEW i \in 1 .. n + 1, NEW t \in layers'[i] PROVE Rests(t, i)
    BY <1>3, <1>12
  <2> QED
    <3>1. CASE i \in 1 .. n
      BY <1>1, <1>3, <3>1 DEF CountsFit
    <3>2. CASE i = n + 1
      BY <1>1, <1>3, <3>2 DEF CountsFit
    <3> QED
      BY <1>3, <3>1, <3>2
<1>14. \A t \in queue' : Rests(t, Len(layers) + 1)'
  <2> SUFFICES ASSUME NEW t \in queue' PROVE Rests(t, Len(layers) + 1)'
    OBVIOUS
  <2>1. t \in Ids /\ Named(t, queue) > 0 /\ Named(t, Ids \ Taken') = 0
    BY <1>1, <1>7
  <2>2. Needs(t) \cap queue # {} /\ Needs(t) \cap (Ids \ Taken') = {} /\ Needs(t) \subseteq Ids
    BY <1>2, <1>6, <2>1
  <2>3. \A d \in Needs(t) : \E j \in 1 .. n + 1 : d \in layers'[j]
    BY <1>3, <2>2 DEF Taken
  <2>4. \E d \in Needs(t) : d \in layers'[n + 1]
    BY <1>3, <2>2
  <2>5. Needs(t)' = Needs(t)
    BY <1>5
  <2>6. Len(layers') + 1 = n + 2 /\ (n + 2) - 1 = n + 1
    BY <1>3
  <2> HIDE DEF n
  <2> QED
    BY <2>3, <2>4, <2>5, <2>6 DEF Rests
<1>15. SortShape'
  <2>1. queue' \subseteq Ids
    BY <1>1
  <2> QED
    BY <1>1, <1>3, <1>5, <2>1 DEF SortShape
<1>16. CountsFit'
  BY <1>8, <1>9, <1>10, <1>11, <1>13, <1>14 DEF CountsFit
<1> QED
  BY <1>15, <1>16 DEF SortInv

LEMMA AnswerStep == ASSUME SortInv, Report, SortAssumption PROVE SortInv'
<1>1. /\ SortShape /\ CountsFit /\ outcome = "sorting" /\ queue = {}
      /\ outcome' = IF processed = Cardinality(Ids) THEN "layers" ELSE "cycle"
      /\ UNCHANGED <<deps, indegree, queue, layers, processed>>
  BY DEF SortInv, Report
<1>2. CountsFit'
  BY <1>1, FitStays
<1>3. SortShape'
  BY <1>1 DEF SortShape, Needs
<1> QED
  BY <1>2, <1>3 DEF SortInv

LEMMA SortInvNext == ASSUME SortAssumption PROVE SortInv /\ [SortNext]_sortVars => SortInv'
<1> SUFFICES ASSUME SortInv, [SortNext]_sortVars PROVE SortInv'
  OBVIOUS
<1>1. CASE UNCHANGED sortVars
  <2>1. CountsFit => CountsFit'
    BY <1>1, FitStays DEF sortVars
  <2>2. SortShape'
    BY <1>1 DEF sortVars, SortInv, SortShape, Needs
  <2> QED
    BY <1>1, <2>1, <2>2 DEF SortInv, sortVars
<1> QED
  BY <1>1, CountStep, LayerStep, AnswerStep DEF SortNext

(* With every task taken there is no cycle: of a set of tasks each of which  *)
(* waits for another, one is taken first.                                    *)
LEMMA TakenHaveNoCycle ==
  ASSUME SortShape, CountsFit, Taken = Ids PROVE ~Cyclic
<1> SUFFICES ASSUME NEW S \in (SUBSET Ids) \ {{}}, \A t \in S : Needs(t) \cap S # {} PROVE FALSE
  BY DEF Cyclic
<1> DEFINE n == Len(layers)
           J == {i \in 1 .. n : layers[i] \cap S # {}}
<1>1. n \in Nat /\ DOMAIN layers = 1 .. n
  BY LayersAre
<1>2. J \in SUBSET (1 .. n) /\ J # {}
  <2>0. S \subseteq Ids /\ S # {}
    OBVIOUS
  <2>1. PICK t \in S : t \in Taken
    BY <2>0
  <2>2. PICK i \in 1 .. n : t \in layers[i]
    BY <1>1, <2>1 DEF Taken
  <2> QED
    BY <2>1, <2>2
<1>3. PICK i \in J : \A j \in J : i <= j
  <2> HIDE DEF J, n
  <2> QED
    BY <1>1, <1>2, FirstPosition
<1>4. PICK t \in S : t \in layers[i]
  BY <1>3
<1>5. PICK d \in S : d \in Needs(t)
  BY <1>4
<1>6. PICK j \in 1 .. i - 1 : d \in layers[j]
  BY <1>1, <1>3, <1>4, <1>5 DEF CountsFit, Rests
<1>7. j \in J /\ j < i
  BY <1>1, <1>3, <1>5, <1>6
<1> QED
  BY <1>1, <1>3, <1>7

(* When the queue is empty, either all tasks are taken or each of the others *)
(* waits for one of the others.                                              *)
LEMMA SortInvAnswers == ASSUME SortAssumption, SortInv PROVE SortAnswers
<1>1. CASE outcome \in {"start", "not found"}
  <2>1. outcome # "layers" /\ outcome # "cycle"
    BY <1>1
  <2> QED
    BY <1>1, <2>1 DEF SortInv, SortShape, SortAnswers, LayersAreTight, SortedWhenPossible
<1>2. CASE outcome = "sorting"
  BY <1>2 DEF SortInv, SortShape, SortAnswers, LayersAreTight, SortedWhenPossible
<1>3. CASE outcome = "layers"
  <2>1. SortShape /\ CountsFit /\ processed = Cardinality(Ids)
    BY <1>3 DEF SortInv, SortShape
  <2>2. Taken \subseteq Ids /\ \A i \in DOMAIN layers : i \in Nat
    BY <2>1, LayersAre
  <2>3. Taken = Ids
    BY <2>1, <2>2, FS_Subset DEF CountsFit, SortAssumption
  <2>4. ~Cyclic
    BY <2>1, <2>3, TakenHaveNoCycle
  <2>5. LayersAreTight
    <3> SUFFICES ASSUME NEW t \in Ids
                 PROVE  \E i \in DOMAIN layers :
                           /\ LayerOf(t) = {i}
                           /\ \A d \in Needs(t) : \E j \in LayerOf(d) : j < i
                           /\ i > 1 => \E d \in Needs(t) : d \in layers[i - 1]
      BY DEF LayersAreTight
    <3>1. PICK i \in DOMAIN layers : t \in layers[i]
      BY <2>3 DEF Taken
    <3>2. LayerOf(t) = {i}
      BY <2>1, <3>1 DEF CountsFit, LayerOf
    <3>3. Rests(t, i)
      BY <2>1, <3>1 DEF CountsFit
    <3>4. \A j \in 1 .. i - 1 : j \in DOMAIN layers /\ j < i
      BY <2>1, <3>1, LayersAre
    <3>5. \A d \in Needs(t) : \E j \in LayerOf(d) : j < i
      BY <3>3, <3>4 DEF Rests, LayerOf
    <3> QED
      BY <3>2, <3>3, <3>5 DEF Rests
  <2> QED
    BY <1>3, <2>1, <2>4, <2>5 DEF SortShape, SortAnswers, SortedWhenPossible
<1>4. CASE outcome = "cycle"
  <2>1. SortShape /\ CountsFit /\ processed # Cardinality(Ids) /\ queue = {}
    BY <1>4 DEF SortInv, SortShape
  <2> DEFINE S == Ids \ Taken
  <2>2. S \in (SUBSET Ids) \ {{}}
    <3>1. Taken \subseteq Ids
      BY <2>1, LayersAre
    <3>2. Taken # Ids
      BY <2>1 DEF CountsFit
    <3>3. S # {}
      BY <3>1, <3>2
    <3> QED
      <4>1. S \subseteq Ids
        OBVIOUS
      <4> HIDE DEF S
      <4> QED
        BY <3>3, <4>1
  <2>3. \A t \in S : Needs(t) \cap S # {}
    <3> SUFFICES ASSUME NEW t \in S PROVE Needs(t) \cap S # {}
      OBVIOUS
    <3>1. indegree[t] = Named(t, S) /\ indegree[t] # 0
      BY <2>1 DEF CountsFit
    <3>2. Len(deps[t]) \in Nat /\ DOMAIN deps[t] = 1 .. Len(deps[t])
      BY <2>1, ListsAre DEF SortShape
    <3> HIDE DEF S
    <3> QED
      BY <3>1, <3>2, NamedIsNumber
  <2>4. Cyclic
    <3> HIDE DEF S
    <3> QED
      BY <2>2, <2>3 DEF Cyclic
  <2> QED
    BY <1>4, <2>1, <2>4 DEF SortShape, SortAnswers, SortedWhenPossible, LayersAreTight
<1> QED
  BY <1>1, <1>2, <1>3, <1>4 DEF SortInv, SortShape

(* Type correctness of the sort: no count falls below zero, also where a     *)
(* dependency is named twice, and no task is processed twice.                *)
THEOREM SortTypeCorrect == ASSUME SortAssumption PROVE SortSpec => []SortTypeOK
<1>1. SortInv => SortTypeOK
  <2> SUFFICES ASSUME SortInv PROVE SortTypeOK
    OBVIOUS
  <2>1. SortShape /\ IsFiniteSet(Ids) /\ Cardinality(Ids) \in Nat
    BY FS_CardinalityType DEF SortInv, SortAssumption
  <2>2. CASE outcome \in {"start", "not found"}
    <3>1. processed = 0 /\ indegree = [t \in Ids |-> 0]
      BY <2>1, <2>2 DEF SortShape
    <3>2. processed \in 0 .. Cardinality(Ids) /\ indegree \in [Ids -> Nat]
      BY <2>1, <3>1
    <3> QED
      BY <2>1, <3>2 DEF SortShape, SortTypeOK
  <2>3. CASE outcome \notin {"start", "not found"}
    <3>1. CountsFit
      BY <2>3 DEF SortInv
    <3>2. \A t \in Ids : Named(t, Ids \ Taken) \in Nat
      BY <2>1, ListsAre, NamedIsNumber DEF SortShape
    <3>3. indegree \in [Ids -> Nat]
      BY <3>1, <3>2 DEF CountsFit
    <3>4. Taken \subseteq Ids
      BY <2>1, LayersAre
    <3>5. Cardinality(Taken) \in Nat /\ Cardinality(Taken) <= Cardinality(Ids)
      BY <2>1, <3>4, FS_Subset, FS_CardinalityType
    <3>6. processed \in 0 .. Cardinality(Ids)
      BY <2>1, <3>1, <3>5 DEF CountsFit
    <3> QED
      BY <2>1, <3>3, <3>6 DEF SortShape, SortTypeOK
  <2> QED
    BY <2>2, <2>3
<1> QED
  BY <1>1, SortInvInit, SortInvNext, PTL DEF SortSpec

(* TopologicalSort answers a list of tasks with layers in which every task   *)
(* comes once and as early as its dependencies let it, whenever there are    *)
(* such layers, and with the right error for every other list, however often *)
(* a dependency is named.                                                    *)
THEOREM SortIsRight == ASSUME SortAssumption PROVE SortSpec => []SortAnswers
<1>1. SortInv => SortAnswers
  BY SortInvAnswers
<1> QED
  BY <1>1, SortInvInit, SortInvNext, PTL DEF SortSpec

(* What ParallelExecutor assumes of Level is what the sort gives: a task has  *)
(* one layer, and those of its dependencies are lower.                       *)
THEOREM LayersSuitTheExecutor ==
  ASSUME SortAssumption
  PROVE  SortSpec => [](outcome = "layers" =>
            \E level_of \in [Ids -> Nat] :
                /\ \A t \in Ids : LayerOf(t) = {level_of[t] + 1}
                /\ \A t \in Ids : \A d \in Needs(t) : level_of[d] < level_of[t])
<1> DEFINE Suits == outcome = "layers" =>
            \E level_of \in [Ids -> Nat] :
                /\ \A t \in Ids : LayerOf(t) = {level_of[t] + 1}
                /\ \A t \in Ids : \A d \in Needs(t) : level_of[d] < level_of[t]
<1>1. SortInv => Suits
  <2> SUFFICES ASSUME SortInv, outcome = "layers"
               PROVE  \E level_of \in [Ids -> Nat] :
                          /\ \A t \in Ids : LayerOf(t) = {level_of[t] + 1}
                          /\ \A t \in Ids : \A d \in Needs(t) : level_of[d] < level_of[t]
    OBVIOUS
  <2>1. DOMAIN layers = 1 .. Len(layers) /\ \A t \in Ids : Needs(t) \subseteq Ids
    BY LayersAre DEF SortInv, SortShape
  <2>2. \A t \in Ids : \E i \in DOMAIN layers :
           LayerOf(t) = {i} /\ \A d \in Needs(t) : \E j \in LayerOf(d) : j < i
    BY SortInvAnswers DEF SortAnswers, LayersAreTight
  <2> DEFINE f == [t \in Ids |-> (CHOOSE i \in DOMAIN layers : LayerOf(t) = {i}) - 1]
  <2>3. ASSUME NEW t \in Ids PROVE f[t] \in Nat /\ LayerOf(t) = {f[t] + 1}
    <3>1. PICK i \in 1 .. Len(layers) : LayerOf(t) = {i}
      BY <2>1, <2>2
    <3>2. (CHOOSE k \in DOMAIN layers : LayerOf(t) = {k}) = i
      BY <2>1, <3>1
    <3>3. f[t] = i - 1
      BY <3>2
    <3> HIDE DEF f
    <3> QED
      BY <3>1, <3>3
  <2>4. f \in [Ids -> Nat]
    BY <2>3
  <2> HIDE DEF f
  <2>5. ASSUME NEW t \in Ids, NEW d \in Needs(t) PROVE f[d] < f[t]
    <3>1. d \in Ids
      BY <2>1
    <3>2. PICK i \in DOMAIN layers : LayerOf(t) = {i} /\ \E j \in LayerOf(d) : j < i
      BY <2>2
    <3>3. i = f[t] + 1 /\ LayerOf(d) = {f[d] + 1} /\ f[t] \in Nat /\ f[d] \in Nat
      BY <2>3, <3>1, <3>2
    <3> QED
      BY <3>2, <3>3
  <2> QED
    BY <2>3, <2>4, <2>5
<1>2. SortSpec => []SortInv
  BY SortInvInit, SortInvNext, PTL DEF SortSpec
<1>3. []SortInv => []Suits
  BY <1>1, PTL
<1> QED
  BY <1>2, <1>3, PTL

===============================================================================
