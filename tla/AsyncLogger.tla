----------------------------- MODULE AsyncLogger -----------------------------
(***************************************************************************)
(* logger.go: goroutines log through a buffered channel to a worker that   *)
(* writes into a bufio.Writer; Flush waits for what is pending and asks    *)
(* the worker to flush; Close tells the worker to drain and end.           *)
(***************************************************************************)
EXTENDS Integers, Sequences, FiniteSets, Functions

CONSTANTS
    Senders, Flushers, Closers,   \* goroutines that log, flush, close
    MaxLogs,                      \* entries each sender logs
    Capacity,                     \* of the channel
    Nobody

ASSUME LoggerAssumption ==
    /\ IsFiniteSet(Senders) /\ MaxLogs \in Nat \ {0} /\ Capacity \in Nat \ {0}
    /\ Nobody \notin Flushers \cup Closers

Entries == Senders \X (1 .. MaxLogs)

VARIABLES
    sender,      \* where a sender is
    logged,      \* how many calls it has begun
    queue,       \* the channel
    pending,     \* pendingWG
    flusher,     \* where a flusher is
    flushMu,     \* the flusher that holds the mutex
    worker,      \* where the worker is
    request,     \* flushReq, a channel of one: whose request waits in it
    buffer,      \* entries in the bufio.Writer
    file,        \* entries in the file
    closed,      \* the atomic flag
    done,        \* the done channel is closed
    closer,      \* where a closer is
    early,       \* history: entries sent before done was closed
    promised     \* history: entries pending or written when a Flush began

senderVars == <<sender, logged>>
flushVars == <<flusher, flushMu, promised>>
closeVars == <<closed, done, closer>>
outVars == <<buffer, file>>
logVars == <<senderVars, queue, pending, flushVars, worker, request, outVars, closeVars, early>>

LoggerTypeOK ==
    /\ sender \in [Senders -> {"idle", "checked", "sending"}]
    /\ logged \in [Senders -> 0 .. MaxLogs]
    /\ queue \in Seq(Entries) /\ Len(queue) <= Capacity
    /\ pending \in Nat
    /\ flusher \in [Flushers -> {"idle", "waiting", "asking", "asked", "flushed", "gave up"}]
    /\ flushMu \in Flushers \cup {Nobody} /\ request \in Flushers \cup {Nobody}
    /\ worker \in {"loop", "drain", "ended"}
    /\ buffer \subseteq Entries /\ file \subseteq Entries /\ early \subseteq Entries
    /\ promised \in [Flushers -> SUBSET Entries]
    /\ closed \in BOOLEAN /\ done \in BOOLEAN
    /\ closer \in [Closers -> {"idle", "stored", "waiting", "returned"}]

LoggerInit ==
    /\ sender = [s \in Senders |-> "idle"] /\ logged = [s \in Senders |-> 0]
    /\ queue = <<>> /\ pending = 0
    /\ flusher = [f \in Flushers |-> "idle"]
    /\ flushMu = Nobody /\ request = Nobody
    /\ worker = "loop"
    /\ buffer = {} /\ file = {} /\ early = {}
    /\ promised = [f \in Flushers |-> {}]
    /\ closed = FALSE /\ done = FALSE
    /\ closer = [c \in Closers |-> "idle"]

Entry(s) == <<s, logged[s]>>

------------------------------------------------------------------------------
(* logWithLevel *)

Call(s) ==
    /\ sender[s] = "idle" /\ logged[s] < MaxLogs
    /\ logged' = [logged EXCEPT ![s] = @ + 1]
    /\ sender' = [sender EXCEPT ![s] = IF closed THEN "idle" ELSE "checked"]
    /\ UNCHANGED <<queue, pending, flushVars, worker, request, outVars, closeVars, early>>

Register(s) ==
    /\ sender[s] = "checked" /\ flushMu = Nobody
    /\ pending' = pending + 1
    /\ sender' = [sender EXCEPT ![s] = "sending"]
    /\ UNCHANGED <<logged, queue, flushVars, worker, request, outVars, closeVars, early>>

(* With done closed and room in the channel the select takes either case.   *)
Enqueue(s) ==
    /\ sender[s] = "sending" /\ Len(queue) < Capacity
    /\ queue' = Append(queue, Entry(s))
    /\ early' = IF done THEN early ELSE early \cup {Entry(s)}
    /\ sender' = [sender EXCEPT ![s] = "idle"]
    /\ UNCHANGED <<logged, pending, flushVars, worker, request, outVars, closeVars>>

DropNever(s) == FALSE /\ UNCHANGED logVars

Drop(s) ==
    /\ sender[s] = "sending" /\ done
    /\ pending' = pending - 1
    /\ sender' = [sender EXCEPT ![s] = "idle"]
    /\ UNCHANGED <<logged, queue, flushVars, worker, request, outVars, closeVars, early>>

------------------------------------------------------------------------------
(* run *)

Take ==
    /\ worker \in {"loop", "drain"} /\ queue # <<>>
    /\ queue' = Tail(queue)
    /\ buffer' = buffer \cup {Head(queue)}
    /\ pending' = pending - 1
    /\ UNCHANGED <<senderVars, flushVars, worker, request, file, closeVars, early>>

WriteOut == file' = file \cup buffer /\ buffer' = {}

Ticker ==
    /\ worker = "loop" /\ buffer # {}
    /\ WriteOut
    /\ UNCHANGED <<senderVars, queue, pending, flushVars, worker, request, closeVars, early>>

(* The flusher may have given up by now. *)
Serve ==
    /\ worker = "loop" /\ request # Nobody
    /\ WriteOut
    /\ request' = Nobody
    /\ flusher' = IF flusher[request] = "asked"
                  THEN [flusher EXCEPT ![request] = "flushed"] ELSE flusher
    /\ flushMu' = IF flusher[request] = "asked" THEN Nobody ELSE flushMu
    /\ UNCHANGED <<senderVars, queue, pending, promised, worker, closeVars, early>>

SeeDone ==
    /\ worker = "loop" /\ done
    /\ worker' = "drain"
    /\ UNCHANGED <<senderVars, queue, pending, flushVars, request, outVars, closeVars, early>>

FinalizeAtOnce ==
    /\ worker = "drain"
    /\ WriteOut
    /\ worker' = "ended"
    /\ UNCHANGED <<senderVars, queue, pending, flushVars, request, closeVars, early>>

Finalize ==
    /\ worker = "drain" /\ queue = <<>>
    /\ WriteOut
    /\ worker' = "ended"
    /\ UNCHANGED <<senderVars, queue, pending, flushVars, request, closeVars, early>>

------------------------------------------------------------------------------
(* Flush *)

Registered ==
    buffer \cup file \cup Range(queue)
        \cup {Entry(s) : s \in {r \in Senders : sender[r] = "sending"}}

Lock(f) ==
    /\ flusher[f] = "idle" /\ flushMu = Nobody
    /\ flushMu' = f
    /\ flusher' = [flusher EXCEPT ![f] = "waiting"]
    /\ promised' = [promised EXCEPT ![f] = Registered]
    /\ UNCHANGED <<senderVars, queue, pending, worker, request, outVars, closeVars, early>>

AskAtOnce(f) ==
    /\ flusher[f] = "waiting"
    /\ flusher' = [flusher EXCEPT ![f] = "asking"]
    /\ UNCHANGED <<senderVars, queue, pending, flushMu, promised, worker, request, outVars,
                   closeVars, early>>

Ask(f) ==
    /\ flusher[f] = "waiting" /\ pending = 0
    /\ flusher' = [flusher EXCEPT ![f] = "asking"]
    /\ UNCHANGED <<senderVars, queue, pending, flushMu, promised, worker, request, outVars,
                   closeVars, early>>

PostRequest(f) ==
    /\ flusher[f] = "asking" /\ request = Nobody
    /\ request' = f
    /\ flusher' = [flusher EXCEPT ![f] = "asked"]
    /\ UNCHANGED <<senderVars, queue, pending, flushMu, promised, worker, outVars, closeVars, early>>

GiveUp(f) ==
    /\ flusher' = [flusher EXCEPT ![f] = "gave up"]
    /\ flushMu' = Nobody
    /\ UNCHANGED <<senderVars, queue, pending, promised, worker, request, outVars, closeVars, early>>

SeesClosing(f) == flusher[f] = "asking" /\ done /\ GiveUp(f)

(* Five seconds for what is pending, one for each half of the exchange.     *)
TimeOut(f) == flusher[f] \in {"waiting", "asking", "asked"} /\ GiveUp(f)

------------------------------------------------------------------------------
(* Close: one goroutine runs the body, others wait for it in closeOnce. *)

Store(c) ==
    /\ closer[c] = "idle" /\ \A d \in Closers : closer[d] = "idle"
    /\ closed' = TRUE
    /\ closer' = [closer EXCEPT ![c] = "stored"]
    /\ UNCHANGED <<senderVars, queue, pending, flushVars, worker, request, outVars, done, early>>

CloseDone(c) ==
    /\ closer[c] = "stored"
    /\ done' = TRUE
    /\ closer' = [closer EXCEPT ![c] = "waiting"]
    /\ UNCHANGED <<senderVars, queue, pending, flushVars, worker, request, outVars, closed, early>>

ReturnFromClose(c) ==
    /\ \/ closer[c] = "waiting" /\ worker = "ended"
       \/ closer[c] = "idle" /\ \E d \in Closers : closer[d] = "returned"
    /\ closer' = [closer EXCEPT ![c] = "returned"]
    /\ UNCHANGED <<senderVars, queue, pending, flushVars, worker, request, outVars, closed, done,
                   early>>

SenderStep(s) == Register(s) \/ Enqueue(s) \/ Drop(s)
WorkerStep == Take \/ Ticker \/ Serve \/ SeeDone \/ Finalize
FlusherStep(f) == Ask(f) \/ PostRequest(f) \/ SeesClosing(f)
CloserStep(c) == CloseDone(c) \/ ReturnFromClose(c)

LoggerNext ==
    \/ \E s \in Senders : Call(s) \/ SenderStep(s)
    \/ WorkerStep
    \/ \E f \in Flushers : Lock(f) \/ FlusherStep(f) \/ TimeOut(f)
    \/ \E c \in Closers : Store(c) \/ CloserStep(c)

LoggerSpec == LoggerInit /\ [][LoggerNext]_logVars

(* Goroutines run; nobody need log, flush or close.  Time-outs are counted  *)
(* on only after a close.                                                   *)
LoggerFairness ==
    /\ \A s \in Senders : WF_logVars(SenderStep(s))
    /\ WF_logVars(WorkerStep)
    /\ \A f \in Flushers : WF_logVars(FlusherStep(f)) /\ WF_logVars(closed /\ TimeOut(f))
    /\ \A c \in Closers : WF_logVars(CloserStep(c))

LoggerFairSpec == LoggerSpec /\ LoggerFairness

------------------------------------------------------------------------------
(* An entry that was in the channel when Close closed done is in the file   *)
(* when Close returns.  One that is sent later may be in the channel for    *)
(* ever: Info has returned, and the entry is neither written nor counted.   *)
ClosedMeansWritten ==
    (\E c \in Closers : closer[c] = "returned") => early \subseteq file

(* A Flush that came to its end without giving up has put into the file     *)
(* whatever a logging call had registered before, unless it was dropped     *)
(* for a close.                                                             *)
Dropped(e) == e \notin Registered
FlushedMeansWritten ==
    \A f \in Flushers :
        flusher[f] = "flushed" => \A e \in promised[f] : e \in file \/ Dropped(e)

(* Every call of the logger returns, and as long as nobody closes it without *)
(* the help of a time-out.                                                   *)
LogCallsReturn ==
    <>[](/\ \A s \in Senders : sender[s] = "idle"
         /\ \A f \in Flushers : flusher[f] \in {"idle", "flushed", "gave up"}
         /\ \A c \in Closers : closer[c] \in {"idle", "returned"})
================================================================================
