------------------------------- MODULE VendorCall -------------------------------
(***************************************************************************)
(* One vendor call of codeagent-wrapper, RunCodexTaskWithContext: the main *)
(* goroutine that starts the vendor CLI and waits for it, the goroutines   *)
(* that wait for the process, parse its stdout and drain its stderr, the   *)
(* force-kill timer, and beside them the vendor, its descendants, whoever  *)
(* cancels the call, and what os/exec does on its own account.             *)
(***************************************************************************)
EXTENDS Integers, Sequences

CONSTANTS
    VendorCodes,   \* exit codes a vendor ends with; 0 is success
    MaxMessages    \* bound: messages the vendor writes

ASSUME CallAssumption == VendorCodes \subseteq Nat /\ MaxMessages \in Nat

VARIABLES
    heir,          \* rigid: a descendant of the vendor keeps its pipes open
    ctx,           \* the context is done: a signal, or the parent's end
    vendor,        \* the process
    status,        \* its exit code, -1 when a signal ended it
    sig,           \* the strongest signal the wrapper has sent it
    said,          \* messages it has written to stdout
    pipes,         \* read ends the wrapper has open
    pc,            \* the main goroutine
    waiter, parser, drainer, timer,
    heard,         \* messages the parser has got
    waitErr,       \* what cmd.Wait came back with
    scratch,       \* the nested temporary directory is there
    result,        \* what the call came to
    ledger         \* rows of calls.jsonl

outside == <<heir, ctx, vendor, status, sig, said>>
routines == <<waiter, parser, drainer, timer, heard, waitErr>>
ends == <<scratch, result, ledger>>
vars == <<outside, pipes, pc, routines, ends>>

Signalled == -1
Codes == VendorCodes \cup {Signalled, 0, 1, 127, 130}
Pending == [end |-> "none", code |-> 0, message |-> 0]

CallTypeOK ==
    /\ {heir, ctx, scratch} \subseteq BOOLEAN
    /\ vendor \in {"none", "running", "exited", "reaped"}
    /\ status \in VendorCodes \cup {Signalled, 0}
    /\ sig \in {"none", "term", "kill"}
    /\ said \in 0 .. MaxMessages /\ heard \in 0 .. said
    /\ pipes \subseteq {"stdout", "stderr"}
    /\ pc \in {"setup", "start", "loop", "kill", "timer", "close", "collect", "drain",
               "report", "done"}
    /\ {waiter, parser, drainer} \subseteq {"none", "busy", "closing", "sent", "taken"}
    /\ timer \in {"none", "armed", "firing", "fired", "stopped"}
    /\ waitErr \in {"none", "exit", "io"}
    /\ result \in [end : {"none", "returned", "panicked"}, code : Codes, message : 0 .. said]
    /\ ledger \in Seq([exit : Codes, ok : BOOLEAN])

Init ==
    /\ heir \in BOOLEAN
    /\ ctx \in BOOLEAN
    /\ vendor = "none" /\ status = 0 /\ sig = "none" /\ said = 0
    /\ pipes = {}
    /\ pc = "setup"
    /\ waiter = "none" /\ parser = "none" /\ drainer = "none" /\ timer = "none"
    /\ heard = 0 /\ waitErr = "none"
    /\ scratch = FALSE
    /\ result = Pending
    /\ ledger = <<>>

------------------------------------------------------------------------------
(* The ways out.  The deferred calls remove the nested directory and record *)
(* the call, a panic as a failure with code 1 before it goes on.            *)
RecordAsReturned(r) ==
    ledger' = Append(ledger, [exit |-> r.code, ok |-> r.code = 0])

Record(r) ==
    LET code == IF r.end = "panicked" THEN 1 ELSE r.code
    IN  ledger' = Append(ledger, [exit |-> code, ok |-> code = 0])

End(r) ==
    /\ result' = r
    /\ Record(r)
    /\ scratch' = FALSE
    /\ pc' = "done"

Return(code, message) == End([end |-> "returned", code |-> code, message |-> message])

(* No worktree, or nothing to resume; or building the arguments panics.     *)
Refuse ==
    /\ pc = "setup"
    /\ Return(1, 0) \/ End([Pending EXCEPT !.end = "panicked"])
    /\ UNCHANGED <<outside, pipes, routines>>

(* Claude gets a temporary directory of its own if there can be one; then   *)
(* the pipes are made, and closed again when one of them fails.             *)
OpenPipes ==
    /\ pc = "setup"
    /\ \/ /\ scratch' \in BOOLEAN
          /\ pipes' = {"stdout", "stderr"}
          /\ pc' = "start"
          /\ UNCHANGED <<result, ledger>>
       \/ Return(1, 0) /\ UNCHANGED pipes
    /\ UNCHANGED <<outside, routines>>

(* os/exec starts nothing for a context that is done. *)
Start ==
    /\ pc = "start"
    /\ \/ /\ ~ctx
          /\ vendor' = "running"
          /\ waiter' = "busy" /\ parser' = "busy" /\ drainer' = "busy"
          /\ pc' = "loop"
          /\ UNCHANGED <<pipes, ends>>
       \/ /\ \E code \in {1, 127} : Return(code, 0)
          /\ pipes' = {}
          /\ UNCHANGED <<vendor, waiter, parser, drainer>>
    /\ UNCHANGED <<heir, ctx, status, sig, said, timer, heard, waitErr>>

------------------------------------------------------------------------------
(* The wait loop: whichever of the two is ready first. *)

(* SIGTERM does not outdo a SIGKILL; none reaches a process that is gone.   *)
Send(s) ==
    sig' = IF vendor # "running" \/ sig = "kill" THEN sig ELSE s

TakeWait ==
    /\ pc \in {"loop", "kill"}
    /\ waiter = "sent"
    /\ waiter' = "taken"
    /\ pc' = "timer"
    /\ UNCHANGED <<outside, pipes, parser, drainer, timer, heard, waitErr, ends>>

Terminate ==
    /\ pc = "loop"
    /\ ctx
    /\ Send("term")
    /\ timer' = "armed"
    /\ pc' = "kill"
    /\ UNCHANGED <<heir, ctx, vendor, status, said, pipes, waiter, parser, drainer, heard,
                   waitErr, ends>>

(* Every forceKillWaitTimeout without an end. *)
KillAgain ==
    /\ pc = "kill"
    /\ Send("kill")
    /\ UNCHANGED <<heir, ctx, vendor, status, said, pipes, pc, routines, ends>>

(* A timer that has fired is waited for. *)
StopTimerAtOnce ==
    /\ pc = "timer"
    /\ timer' = IF timer = "armed" THEN "stopped" ELSE timer
    /\ pc' = "close"
    /\ UNCHANGED <<outside, pipes, waiter, parser, drainer, heard, waitErr, ends>>

StopTimerAfterDone ==
    /\ pc = "timer" /\ timer \in {"none", "fired"}
    /\ pc' = "close"
    /\ UNCHANGED <<outside, pipes, routines, ends>>

StopTimer ==
    /\ pc = "timer" /\ timer # "firing"
    /\ timer' = IF timer = "armed" THEN "stopped" ELSE timer
    /\ pc' = "close"
    /\ UNCHANGED <<outside, pipes, waiter, parser, drainer, heard, waitErr, ends>>

CloseStdout ==
    /\ pc = "close"
    /\ pipes' = pipes \ {"stdout"}
    /\ pc' = "collect"
    /\ UNCHANGED <<outside, routines, ends>>

TakeParsed ==
    /\ pc = "collect" /\ parser = "sent"
    /\ parser' = "taken"
    /\ pipes' = pipes \ {"stderr"}
    /\ pc' = "drain"
    /\ UNCHANGED <<outside, waiter, drainer, timer, heard, waitErr, ends>>

TakeDrained ==
    /\ pc = "drain" /\ drainer = "sent"
    /\ drainer' = "taken"
    /\ pc' = "report"
    /\ UNCHANGED <<outside, pipes, waiter, parser, timer, heard, waitErr, ends>>

(* A cancelled call is that whatever else it is; a failed one passes on     *)
(* what was parsed; one without a message is a failure.                     *)
ReportOwnView ==
    /\ pc = "report"
    /\ IF timer # "none" THEN Return(130, 0)
       ELSE IF waitErr = "exit" THEN Return(status, heard)
       ELSE IF waitErr = "io" \/ heard = 0 THEN Return(1, 0)
       ELSE Return(0, heard)
    /\ UNCHANGED <<outside, pipes, routines>>

Report ==
    /\ pc = "report"
    /\ IF ctx THEN Return(130, 0)
       ELSE IF waitErr = "exit" THEN Return(status, heard)
       ELSE IF waitErr = "io" \/ heard = 0 THEN Return(1, 0)
       ELSE Return(0, heard)
    /\ UNCHANGED <<outside, pipes, routines>>

Main ==
    \/ Refuse \/ OpenPipes \/ Start \/ TakeWait \/ Terminate \/ StopTimer
    \/ CloseStdout \/ TakeParsed \/ TakeDrained \/ Report

------------------------------------------------------------------------------
(* The timer of terminateCommand. *)
Fire ==
    /\ timer = "armed"
    /\ timer' = "firing"
    /\ UNCHANGED <<outside, pipes, pc, waiter, parser, drainer, heard, waitErr, ends>>

ForceKill ==
    /\ timer = "firing"
    /\ Send("kill")
    /\ timer' = "fired"
    /\ UNCHANGED <<heir, ctx, vendor, status, said, pipes, pc, waiter, parser, drainer, heard,
                   waitErr, ends>>

(* End of file comes with the last writer's end, an error with the reader's *)
(* own: what was not read by then is lost.                                  *)
Over(pipe) == pipe \notin pipes \/ (vendor \in {"exited", "reaped"} /\ ~heir)

ParseLine ==
    /\ parser = "busy" /\ "stdout" \in pipes
    /\ heard < said
    /\ heard' = heard + 1
    /\ UNCHANGED <<outside, pipes, pc, waiter, parser, drainer, timer, waitErr, ends>>

ParseEnd ==
    /\ parser = "busy" /\ Over("stdout")
    /\ "stdout" \in pipes => heard = said
    /\ parser' = "sent"
    /\ UNCHANGED <<outside, pipes, pc, waiter, drainer, timer, heard, waitErr, ends>>

Drain ==
    /\ drainer = "busy" /\ Over("stderr")
    /\ drainer' = "sent"
    /\ UNCHANGED <<outside, pipes, pc, waiter, parser, timer, heard, waitErr, ends>>

------------------------------------------------------------------------------
(* os/exec: cmd.Wait reaps the process and then closes the read ends of its *)
(* pipes; and as the command was made with the context, the end of the      *)
(* context kills the process without any grace.                             *)
Reap ==
    /\ waiter = "busy" /\ vendor = "exited"
    /\ vendor' = "reaped"
    /\ waitErr' \in {IF status = 0 THEN "none" ELSE "exit", "io"}
    /\ waiter' = "closing"
    /\ UNCHANGED <<heir, ctx, status, sig, said, pipes, pc, parser, drainer, timer, heard, ends>>

ClosePipes ==
    /\ waiter = "closing"
    /\ pipes' = {}
    /\ waiter' = "sent"
    /\ UNCHANGED <<outside, pc, parser, drainer, timer, heard, waitErr, ends>>

KillOnDone ==
    /\ ctx /\ vendor = "running"
    /\ Send("kill")
    /\ UNCHANGED <<heir, ctx, vendor, status, said, pipes, pc, routines, ends>>

(* The world: a vendor that writes and exits as it likes, the kernel, and   *)
(* whoever interrupts the call.                                             *)
Say ==
    /\ vendor = "running" /\ said < MaxMessages
    /\ said' = said + 1
    /\ UNCHANGED <<heir, ctx, vendor, status, sig, pipes, pc, routines, ends>>

Exit ==
    /\ vendor = "running"
    /\ vendor' = "exited"
    /\ status' \in VendorCodes \cup {Signalled}
    /\ UNCHANGED <<heir, ctx, sig, said, pipes, pc, routines, ends>>

Die ==
    /\ vendor = "running" /\ sig = "kill"
    /\ vendor' = "exited"
    /\ status' = Signalled
    /\ UNCHANGED <<heir, ctx, sig, said, pipes, pc, routines, ends>>

Interrupt ==
    /\ pc # "done" /\ ~ctx
    /\ ctx' = TRUE
    /\ UNCHANGED <<heir, vendor, status, sig, said, pipes, pc, routines, ends>>

Next ==
    \/ Main \/ KillAgain \/ Fire \/ ForceKill
    \/ ParseLine \/ ParseEnd \/ Drain
    \/ Reap \/ ClosePipes \/ KillOnDone
    \/ Say \/ Exit \/ Die \/ Interrupt

Spec == Init /\ [][Next]_vars

(* Every goroutine runs, a timer fires, and SIGKILL ends a process.  A      *)
(* vendor need not end, and nobody need interrupt it.                       *)
Fairness ==
    /\ WF_vars(Main) /\ WF_vars(ForceKill)
    /\ WF_vars(ParseLine \/ ParseEnd) /\ WF_vars(Drain)
    /\ WF_vars(Reap \/ ClosePipes) /\ WF_vars(KillOnDone) /\ WF_vars(Die)

FairSpec == Spec /\ Fairness

------------------------------------------------------------------------------
(* A call returns once its vendor has ended or it was cancelled, with a     *)
(* descendant of the vendor still holding the pipes, and with the timer     *)
(* going off while it is being stopped.                                     *)
EveryCallReturns ==
    (vendor \in {"exited", "reaped"} \/ (vendor = "running" /\ ctx)) ~> pc = "done"

(* A call that has returned leaves nothing behind: no process, no goroutine *)
(* with a pipe of its, no kill still to come, no temporary directory.  The  *)
(* next call of the same wrapper finds the process table it expects.        *)
CleanReturn ==
    pc = "done" =>
        /\ vendor \in {"none", "reaped"}
        /\ {waiter, parser, drainer} \subseteq {"none", "taken"}
        /\ timer \notin {"armed", "firing"}
        /\ pipes = {} /\ ~scratch

(* A vendor the wrapper sent a signal is reported as interrupted, not as    *)
(* failed and not as done, also when its end and the cancellation were      *)
(* there at once and the wait loop looked at the end first.                 *)
SignalledMeans130 == pc = "done" /\ sig # "none" => result.code = 130

(* The ledger counts a call as good only if a vendor ended with success and *)
(* without interruption, and there is a message of its to show for it: not  *)
(* after a panic, whose named result is all zeros.                          *)
OkIsEarned ==
    \A i \in 1 .. Len(ledger) : ledger[i].ok =>
        /\ result.end = "returned" /\ result.message \in 1 .. said
        /\ vendor = "reaped" /\ status = 0 /\ waitErr = "none" /\ sig = "none"

(* "WaitsForFinalMessageBeforeNaturalExit": a call that succeeds returns    *)
(* the last message the vendor wrote.                                       *)
FinalMessageKept ==
    pc = "done" /\ result.end = "returned" /\ result.code = 0 => result.message = said
================================================================================
