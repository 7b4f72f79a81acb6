--------------------------- MODULE ParallelExecutor ---------------------------
(***************************************************************************)
(* ExecuteConcurrentWithContext of codeagent-wrapper/internal/executor:    *)
(* the layers of a task graph, one after the other, each task of a layer   *)
(* in a goroutine that waits for a worker slot, runs its vendor call and   *)
(* sends its result; and RunPlan, which turns the results into the exit    *)
(* code of the process.  Every vendor call listens for SIGINT on its own.  *)
(***************************************************************************)
EXTENDS Integers, Sequences, FiniteSets

CONSTANTS
    Tasks,
    Deps,          \* Dependencies of each task
    Level,         \* the layer TopologicalSort put each task in
    MaxWorkers,    \* maxWorkers as given; 0 or less is no limit
    Codes,         \* exit codes a call may settle on by itself
    EarlyCodes,    \* those it may settle on before its vendor is started
    ParentCancels, \* the caller may cancel the context it passes
    OutputFails    \* the file of --output may be impossible to write

NoCode == -1

ASSUME ExecutorAssumption ==
    /\ IsFiniteSet(Tasks)
    /\ Deps \in [Tasks -> SUBSET Tasks]
    /\ Level \in [Tasks -> Nat]
    /\ \A t \in Tasks : \A d \in Deps[t] : Level[d] < Level[t]
    /\ MaxWorkers \in Int
    /\ Codes \subseteq Int /\ EarlyCodes \subseteq Codes
    /\ ParentCancels \in BOOLEAN /\ OutputFails \in BOOLEAN

VARIABLES
    level,         \* the layer being run
    step,          \* where each task, or its goroutine, is
    code,          \* the exit code of its result
    channel,       \* resultsCh
    results,       \* results, in the order they are appended
    failed,        \* the keys of the map failed
    slots,         \* slots taken of the channel sem
    cancelled,     \* ctx.Err() is not nil
    interrupted,   \* calls that received an interrupt while they listened
    killed,        \* the process died of an interrupt nobody listened for
    output         \* the structured output at the end

vars ==
    <<level, step, code, channel, results, failed, slots, cancelled, interrupted, killed, output>>

Steps == {"waiting", "spawned", "running", "returning", "sent", "done", "collected"}

ExecTypeOK ==
    /\ level \in Nat
    /\ step \in [Tasks -> Steps]
    /\ code \in [Tasks -> Codes \cup {NoCode, 1, 130}]
    /\ channel \in Seq(Tasks) /\ results \in Seq(Tasks)
    /\ failed \subseteq Tasks /\ interrupted \subseteq Tasks
    /\ slots \in Nat
    /\ cancelled \in BOOLEAN /\ killed \in BOOLEAN
    /\ output \in {"none", "written", "failed"}

Init ==
    /\ level = 0
    /\ step = [t \in Tasks |-> "waiting"]
    /\ code = [t \in Tasks |-> NoCode]
    /\ channel = <<>> /\ results = <<>>
    /\ failed = {} /\ interrupted = {}
    /\ slots = 0
    /\ cancelled = FALSE /\ killed = FALSE
    /\ output = "none"

workerLimit == IF MaxWorkers < 0 THEN 0 ELSE MaxWorkers

Move(t, s) == step' = [step EXCEPT ![t] = s]

Decide(t, c) == code' = [code EXCEPT ![t] = c]

Layer == {t \in Tasks : Level[t] = level}

------------------------------------------------------------------------------
(* The loop over a layer: a result on the spot, or a goroutine.             *)

RefuseAndLaunch(t, c) ==
    /\ Move(t, "spawned")
    /\ results' = Append(results, t)
    /\ failed' = failed \cup {t}
    /\ UNCHANGED <<level, code, channel, slots, cancelled, interrupted, killed, output>>

Refuse(t, c) ==
    /\ Move(t, "collected") /\ Decide(t, c)
    /\ results' = Append(results, t)
    /\ failed' = failed \cup {t}
    /\ UNCHANGED <<level, channel, slots, cancelled, interrupted, killed, output>>

Skip(t) ==
    /\ t \in Layer /\ step[t] = "waiting"
    /\ Deps[t] \cap failed # {}
    /\ Refuse(t, 1)

CancelBeforeStart(t) ==
    /\ t \in Layer /\ step[t] = "waiting"
    /\ Deps[t] \cap failed = {}
    /\ cancelled
    /\ Refuse(t, 130)

SpawnUnchecked(t) ==
    /\ t \in Layer /\ step[t] = "waiting"
    /\ ~cancelled
    /\ Move(t, "spawned")
    /\ UNCHANGED <<level, code, channel, results, failed, slots, cancelled, interrupted, killed, output>>

Spawn(t) ==
    /\ t \in Layer /\ step[t] = "waiting"
    /\ Deps[t] \cap failed = {}
    /\ ~cancelled
    /\ Move(t, "spawned")
    /\ UNCHANGED <<level, code, channel, results, failed, slots, cancelled, interrupted, killed, output>>

------------------------------------------------------------------------------
(* The goroutine of a task.                                                 *)

(* acquireSlot: a free slot, or the cancelled context; when both are ready  *)
(* the select picks either.                                                 *)
AcquireSlot(t) ==
    /\ step[t] = "spawned"
    /\ workerLimit > 0 => slots < workerLimit
    /\ slots' = IF workerLimit > 0 THEN slots + 1 ELSE slots
    /\ Move(t, "running")
    /\ UNCHANGED <<level, code, channel, results, failed, cancelled, interrupted, killed, output>>

(* No slot before the cancellation: a result without a run, and nothing to  *)
(* release.                                                                 *)
GiveUp(t) ==
    /\ step[t] = "spawned"
    /\ workerLimit > 0 /\ cancelled
    /\ Move(t, "done") /\ Decide(t, 130)
    /\ channel' = Append(channel, t)
    /\ UNCHANGED <<level, results, failed, slots, cancelled, interrupted, killed, output>>

(* runTask settles on a result: whatever the vendor reports, but 130 when   *)
(* the context of the call is cancelled by then; a call that ends before    *)
(* its vendor is started has a code of its own.                             *)
SettleUnsent(t) ==
    /\ step[t] = "running"
    /\ \E c \in Codes : Decide(t, c)
    /\ Move(t, "sent")
    /\ UNCHANGED <<level, channel, results, failed, slots, cancelled, interrupted, killed, output>>

Settle(t) ==
    /\ step[t] = "running"
    /\ \E c \in IF cancelled \/ t \in interrupted THEN {130} \cup EarlyCodes ELSE Codes : Decide(t, c)
    /\ Move(t, "returning")
    /\ UNCHANGED <<level, channel, results, failed, slots, cancelled, interrupted, killed, output>>

Send(t) ==
    /\ step[t] = "returning"
    /\ Move(t, "sent")
    /\ channel' = Append(channel, t)
    /\ UNCHANGED <<level, code, results, failed, slots, cancelled, interrupted, killed, output>>

Freed == IF slots > 0 THEN slots - 1 ELSE slots

(* The deferred calls: releaseSlot, wg.Done.                                *)
ReleaseSlotKept(t) ==
    /\ step[t] = "sent"
    /\ Move(t, "done")
    /\ UNCHANGED <<level, code, channel, results, failed, slots, cancelled, interrupted, killed, output>>

ReleaseSlot(t) ==
    /\ step[t] = "sent"
    /\ slots' = Freed
    /\ Move(t, "done")
    /\ UNCHANGED <<level, code, channel, results, failed, cancelled, interrupted, killed, output>>

(* A panic of the call: the slot is released, the recovery sends a result.  *)
Panic(t) ==
    /\ step[t] = "running"
    /\ slots' = Freed
    /\ Move(t, "done") /\ Decide(t, 1)
    /\ channel' = Append(channel, t)
    /\ UNCHANGED <<level, results, failed, cancelled, interrupted, killed, output>>

Worker(t) ==
    AcquireSlot(t) \/ GiveUp(t) \/ Settle(t) \/ Send(t) \/ ReleaseSlot(t) \/ Panic(t)

------------------------------------------------------------------------------
(* After wg.Wait: one receive for every goroutine of the layer.             *)
Collect ==
    LET t == Head(channel)
    IN  /\ channel # <<>>
        /\ \A u \in Layer : step[u] \in {"done", "collected"}
        /\ Move(t, "collected")
        /\ channel' = Tail(channel)
        /\ results' = Append(results, t)
        /\ failed' = IF code[t] # 0 THEN failed \cup {t} ELSE failed
        /\ UNCHANGED <<level, code, slots, cancelled, interrupted, killed, output>>

NextLayer ==
    /\ \A t \in Layer : step[t] = "collected"
    /\ \E t \in Tasks : Level[t] > level
    /\ level' = level + 1
    /\ UNCHANGED <<step, code, channel, results, failed, slots, cancelled, interrupted, killed, output>>

Finished == \A t \in Tasks : step[t] = "collected"

(* RunPlan writes the results to the file of --output, and then only says   *)
(* how it ended.                                                            *)
WriteOutput ==
    /\ Finished /\ output = "none"
    /\ output' \in {"written"} \cup (IF OutputFails THEN {"failed"} ELSE {})
    /\ UNCHANGED <<level, step, code, channel, results, failed, slots, cancelled, interrupted, killed>>

(* The caller cancels the context all calls are derived from.               *)
CancelParent ==
    /\ ParentCancels /\ ~cancelled
    /\ cancelled' = TRUE
    /\ UNCHANGED <<level, step, code, channel, results, failed, slots, interrupted, killed, output>>

(* SIGINT: each call that has got to signal.NotifyContext is interrupted,   *)
(* and the process lives; without any of them it dies.  Nobody tells the    *)
(* scheduler.                                                               *)
Interrupt ==
    /\ \E listening \in SUBSET {t \in Tasks : step[t] \in {"running", "returning"}} :
          /\ interrupted' = interrupted \cup listening
          /\ killed' = (listening = {})
    /\ UNCHANGED <<level, step, code, channel, results, failed, slots, cancelled, output>>

Scheduler ==
    \/ \E t \in Tasks : Skip(t) \/ CancelBeforeStart(t) \/ Spawn(t)
    \/ Collect
    \/ NextLayer
    \/ WriteOutput

Next ==
    /\ ~killed
    /\ \/ Scheduler
       \/ \E t \in Tasks : Worker(t)
       \/ CancelParent
       \/ Interrupt

Spec == Init /\ [][Next]_vars

(* Goroutines are scheduled, and every vendor call returns some time.       *)
Fairness ==
    /\ WF_vars(~killed /\ Scheduler)
    /\ \A t \in Tasks : WF_vars(~killed /\ Worker(t))

FairSpec == Spec /\ Fairness

------------------------------------------------------------------------------
(* The exit code: 1 where the output could not be written, or else that of  *)
(* the last result that is not 0.                                           *)
ExitCodeOfFirst ==
    IF Len(results) > 0 THEN code[results[1]] ELSE 0

ExitCode ==
    LET bad == {i \in 1 .. Len(results) : code[results[i]] # 0}
    IN  IF output = "failed" THEN 1
        ELSE IF bad = {} THEN 0
        ELSE code[results[CHOOSE i \in bad : \A j \in bad : j <= i]]

(* The run is a run of the plain task graph: calls begin after what they    *)
(* depend on has succeeded, never more of them than there are workers, and  *)
(* none is dropped but for a failure or a cancellation.                     *)
Fate(t) ==
    CASE step[t] \in {"waiting", "spawned"} -> "idle"
      [] step[t] = "running" \/ step[t] = "returning" -> "going"
      [] OTHER -> IF code[t] = 0 THEN "ok" ELSE "bad"

Graph == INSTANCE TaskGraph WITH
            fate <- [t \in Tasks |-> Fate(t)], stopped <- cancelled, Limit <- workerLimit

RunsTheGraph == Graph!GraphSpec

(* Every taken slot has a goroutine that will give it back: neither a panic *)
(* nor a cancellation nor an interrupt leaks a slot or frees one twice.     *)
SlotsHeld ==
    workerLimit > 0 =>
        slots = Cardinality({t \in Tasks : step[t] \in {"running", "returning", "sent"}})

(* No result is lost or reported twice, whatever way a task ends.           *)
EachReportedOnce ==
    /\ \A i, j \in 1 .. Len(results) : results[i] = results[j] => i = j
    /\ {results[i] : i \in 1 .. Len(results)} = {t \in Tasks : step[t] = "collected"}

(* The exit code is 0 exactly when every task succeeded and the output is   *)
(* written.                                                                 *)
ExitTells ==
    output # "none" =>
        (ExitCode = 0 <=> output = "written" /\ \A t \in Tasks : code[t] = 0)

(* The run ends with a result for every task and an answer, or with the      *)
(* process.                                                                  *)
Terminates == <>((Finished /\ output # "none") \/ killed)
==============================================================================
