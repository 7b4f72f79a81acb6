------------------------------ MODULE MCWrapper ------------------------------
(* The two concurrent parts of one wrapper process that share no state: a    *)
(* vendor call and the logger.  While one is at work the other is at rest: a *)
(* call that is over, or a logger that has been closed.                      *)
EXTENDS VendorCall, AsyncLogger

CallAtRest ==
    /\ heir = FALSE /\ ctx = FALSE
    /\ vendor = "none" /\ status = 0 /\ sig = "none" /\ said = 0
    /\ pipes = {} /\ pc = "done"
    /\ waiter = "none" /\ parser = "none" /\ drainer = "none" /\ timer = "none"
    /\ heard = 0 /\ waitErr = "none" /\ scratch = FALSE
    /\ result = [end |-> "returned", code |-> 1, message |-> 0]
    /\ ledger = <<[exit |-> 1, ok |-> FALSE]>>

LoggerAtRest ==
    /\ sender = [s \in Senders |-> "idle"] /\ logged = [s \in Senders |-> MaxLogs]
    /\ queue = <<>> /\ pending = 0
    /\ flusher = [f \in Flushers |-> "gave up"]
    /\ flushMu = Nobody /\ request = Nobody
    /\ worker = "ended"
    /\ buffer = {} /\ file = {} /\ early = {}
    /\ promised = [f \in Flushers |-> {}]
    /\ closed = TRUE /\ done = TRUE
    /\ closer = [c \in Closers |-> "returned"]

WrapperInit == (Init /\ LoggerAtRest) \/ (CallAtRest /\ LoggerInit)

WrapperNext == (Next /\ UNCHANGED logVars) \/ (LoggerNext /\ UNCHANGED vars)

WrapperSpec ==
    /\ WrapperInit /\ [][WrapperNext]_<<vars, logVars>>
    /\ Fairness /\ LoggerFairness
==============================================================================
