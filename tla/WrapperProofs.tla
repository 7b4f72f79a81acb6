----------------------------- MODULE WrapperProofs -----------------------------
(***************************************************************************)
(* The two concurrent parts of one wrapper process.  What holds of a       *)
(* vendor call for every set of exit codes and any number of messages:     *)
(* that it leaves nothing behind, that an interrupted vendor is never      *)
(* reported as anything else, and that success is earned.  What Close and  *)
(* Flush promise of the logger, for any number of goroutines, entries and  *)
(* places in the channel.                                                  *)
(***************************************************************************)
EXTENDS VendorCall, AsyncLogger, SequenceTheorems, FiniteSetTheorems, TLAPS

------------------------------------------------------------------------------
(* The vendor call                                                          *)

Ahead == {"setup", "start"}
Waiting == {"loop", "kill"}
Ending == {"timer", "close", "collect", "drain", "report"}
Gone == {"exited", "reaped"}

(* Which processes, goroutines, pipes and timers there can be at each point *)
(* of the main goroutine.                                                   *)
AheadOfTheVendor ==
    /\ pc \in Ahead =>
         /\ vendor = "none" /\ timer = "none" /\ sig = "none"
         /\ waiter = "none" /\ parser = "none" /\ drainer = "none"
    /\ pc = "setup" => pipes = {} /\ ~scratch

WithTheVendor ==
    /\ pc \in Waiting \cup Ending =>
         vendor # "none" /\ waiter # "none" /\ parser # "none" /\ drainer # "none"
    /\ pc \in Waiting => waiter # "taken"
    /\ pc = "loop" => timer = "none"

AfterTheVendor ==
    /\ pc \in Ending => waiter = "taken"
    /\ pc \in Ending \ {"timer"} => timer \notin {"armed", "firing"}
    /\ pc \in {"drain", "report"} => parser = "taken"
    /\ pc = "report" => drainer = "taken"

(* The process is reaped before its exit is known, and the pipes are closed *)
(* before that is passed on.                                                *)
WaitTells ==
    /\ waiter \in {"none", "busy", "closing", "sent", "taken"}
    /\ waiter \in {"closing", "sent", "taken"} =>
         /\ vendor = "reaped"
         /\ waitErr = "none" => status = 0
         /\ waitErr = "exit" => status # 0
    /\ waiter \in {"sent", "taken"} => pipes = {}

(* The wrapper signals its vendor only when its context is done. *)
OnlyWhenDone == (sig # "none" \/ timer # "none" \/ pc = "kill") => ctx

(* Nothing is recorded before the call is over, and one row when it is. *)
RecordedOnce ==
    /\ pc # "done" => ledger = <<>>
    /\ OkIsEarned

(* Shape is what keeps the three properties inductive. *)
Shape == AheadOfTheVendor /\ WithTheVendor /\ AfterTheVendor /\ WaitTells /\ OnlyWhenDone

CallInv == CallTypeOK /\ Shape /\ CleanReturn /\ SignalledMeans130 /\ RecordedOnce

------------------------------------------------------------------------------
(* A way out sets the result it is given and records one row. *)
LEMMA EndTyped ==
  ASSUME CallTypeOK, UNCHANGED outside,
         NEW r \in [end : {"none", "returned", "panicked"}, code : Codes, message : 0 .. said],
         End(r)
  PROVE  /\ {heir', ctx', scratch'} \subseteq BOOLEAN
         /\ pc' = "done"
         /\ result' \in [end : {"none", "returned", "panicked"}, code : Codes,
                         message : 0 .. said']
         /\ ledger' \in Seq([exit : Codes, ok : BOOLEAN])
<1> DEFINE code == IF r.end = "panicked" THEN 1 ELSE r.code
           row == [exit |-> code, ok |-> code = 0]
<1>1. code \in Codes
  BY DEF Codes
<1>2. row \in [exit : Codes, ok : BOOLEAN]
  BY <1>1
<1>3. ledger' = Append(ledger, row)
  BY DEF End, Record
<1>4. ledger' \in Seq([exit : Codes, ok : BOOLEAN])
  <2> HIDE DEF row
  <2> QED
    BY <1>2, <1>3 DEF CallTypeOK
<1>5. {heir', ctx', scratch'} \subseteq BOOLEAN
  <2>1. scratch' \in BOOLEAN
    BY DEF End
  <2> QED
    BY <2>1 DEF CallTypeOK, outside
<1> QED
  BY <1>4, <1>5 DEF End, outside

(* And so does a return with a code and a message. *)
LEMMA ReturnTyped ==
  ASSUME CallTypeOK, UNCHANGED outside, NEW code \in Codes, NEW message \in 0 .. said,
         Return(code, message)
  PROVE  /\ {heir', ctx', scratch'} \subseteq BOOLEAN
         /\ pc' = "done"
         /\ result' \in [end : {"none", "returned", "panicked"}, code : Codes,
                         message : 0 .. said']
         /\ ledger' \in Seq([exit : Codes, ok : BOOLEAN])
BY EndTyped DEF Return

(* A call starts in range. *)
LEMMA InitTyped == Init => CallTypeOK
<1> SUFFICES ASSUME Init
             PROVE  CallTypeOK
  OBVIOUS
<1>1. result \in [end : {"none", "returned", "panicked"}, code : Codes, message : 0 .. said]
  BY DEF Init, Pending, Codes
<1>2. {heir, ctx, scratch} \subseteq BOOLEAN
  BY DEF Init
<1>3. ledger \in Seq([exit : Codes, ok : BOOLEAN])
  BY DEF Init
<1> QED
  BY <1>1, <1>2, <1>3, CallAssumption DEF Init, CallTypeOK

(* Type correctness: every variable of a call stays in its range. *)
THEOREM CallTypeCorrect == Spec => []CallTypeOK
<1>1. Init => CallTypeOK
  BY InitTyped
<1>2. CallTypeOK /\ [Next]_vars => CallTypeOK'
  <2> SUFFICES ASSUME CallTypeOK, [Next]_vars
               PROVE  CallTypeOK'
    OBVIOUS
  <2> USE CallAssumption DEF CallTypeOK, Signalled
  <2>1. CASE Main
    <3>1. CASE Refuse
      <4>1. 0 \in Codes /\ 1 \in Codes /\ 0 \in 0 .. said
        BY DEF Codes
      <4>2. CASE Return(1, 0)
        BY <3>1, <4>1, <4>2, ReturnTyped DEF Refuse, outside, routines
      <4>3. CASE End([Pending EXCEPT !.end = "panicked"])
        <5> DEFINE r == [Pending EXCEPT !.end = "panicked"]
        <5>1. r \in [end : {"none", "returned", "panicked"}, code : Codes, message : 0 .. said]
          BY <4>1 DEF Pending
        <5> HIDE DEF r
        <5> QED
          BY <3>1, <4>3, <5>1, EndTyped DEF Refuse, outside, routines, r
      <4> QED
        BY <3>1, <4>2, <4>3 DEF Refuse
    <3>2. CASE OpenPipes
      <4>1. CASE Return(1, 0) /\ UNCHANGED pipes
        <5>1. 1 \in Codes /\ 0 \in 0 .. said
          BY DEF Codes
        <5> QED
          BY <3>2, <4>1, <5>1, ReturnTyped DEF OpenPipes, outside, routines
      <4>2. CASE /\ scratch' \in BOOLEAN
                 /\ pipes' = {"stdout", "stderr"}
                 /\ pc' = "start"
                 /\ UNCHANGED <<result, ledger>>
        BY <3>2, <4>2 DEF OpenPipes, outside, routines
      <4> QED
        BY <3>2, <4>1, <4>2 DEF OpenPipes
    <3>3. CASE Start
      <4>1. CASE /\ vendor' = "running"
                 /\ waiter' = "busy" /\ parser' = "busy" /\ drainer' = "busy"
                 /\ pc' = "loop"
                 /\ UNCHANGED <<pipes, ends>>
        BY <3>3, <4>1 DEF Start, ends
      <4>2. ASSUME NEW code \in {1, 127}, Return(code, 0),
                   pipes' = {}, UNCHANGED <<vendor, waiter, parser, drainer>>
            PROVE  CallTypeOK'
        <5>1. code \in Codes /\ 0 \in 0 .. said
          BY DEF Codes
        <5>2. UNCHANGED outside /\ UNCHANGED routines
          BY <3>3, <4>2 DEF Start, outside, routines
        <5>3. UNCHANGED <<vendor, status, sig, said, waiter, parser, drainer, timer, heard, waitErr>>
          BY <5>2 DEF outside, routines
        <5>4. /\ {heir', ctx', scratch'} \subseteq BOOLEAN
              /\ pc' = "done"
              /\ result' \in [end : {"none", "returned", "panicked"}, code : Codes,
                              message : 0 .. said']
              /\ ledger' \in Seq([exit : Codes, ok : BOOLEAN])
          BY <4>2, <5>1, <5>2, ReturnTyped
        <5> QED
          BY <4>2, <5>3, <5>4
      <4> QED
        BY <3>3, <4>1, <4>2 DEF Start
    <3>4. CASE TakeWait
      BY <3>4 DEF TakeWait, outside, ends
    <3>5. CASE Terminate
      BY <3>5 DEF Terminate, Send, ends
    <3>6. CASE StopTimer
      BY <3>6 DEF StopTimer, outside, ends
    <3>7. CASE CloseStdout
      BY <3>7 DEF CloseStdout, outside, routines, ends
    <3>8. CASE TakeParsed
      BY <3>8 DEF TakeParsed, outside, ends
    <3>9. CASE TakeDrained
      BY <3>9 DEF TakeDrained, outside, ends
    <3>10. CASE Report
      <4>1. PICK code \in Codes, message \in 0 .. said : Return(code, message)
        BY <3>10 DEF Report, Codes
      <4> QED
        BY <3>10, <4>1, ReturnTyped DEF Report, outside, routines
    <3> QED
      BY <2>1, <3>1, <3>2, <3>3, <3>4, <3>5, <3>6, <3>7, <3>8, <3>9, <3>10 DEF Main
  <2>2. CASE KillAgain
    BY <2>2 DEF KillAgain, Send, routines, ends
  <2>3. CASE Fire
    BY <2>3 DEF Fire, outside, ends
  <2>4. CASE ForceKill
    BY <2>4 DEF ForceKill, Send, ends
  <2>5. CASE ParseLine
    BY <2>5 DEF ParseLine, outside, ends
  <2>6. CASE ParseEnd
    BY <2>6 DEF ParseEnd, outside, ends
  <2>7. CASE Drain
    BY <2>7 DEF Drain, outside, ends
  <2>8. CASE Reap
    BY <2>8 DEF Reap, ends
  <2>9. CASE ClosePipes
    BY <2>9 DEF ClosePipes, outside, ends
  <2>10. CASE KillOnDone
    BY <2>10 DEF KillOnDone, Send, routines, ends
  <2>11. CASE Say
    BY <2>11 DEF Say, routines, ends
  <2>12. CASE Exit
    BY <2>12 DEF Exit, routines, ends
  <2>13. CASE Die
    BY <2>13 DEF Die, routines, ends
  <2>14. CASE Interrupt
    BY <2>14 DEF Interrupt, routines, ends
  <2>15. CASE UNCHANGED vars
    BY <2>15 DEF vars, outside, routines, ends
  <2> QED
    BY <2>1, <2>2, <2>3, <2>4, <2>5, <2>6, <2>7, <2>8, <2>9, <2>10, <2>11, <2>12, <2>13, <2>14, <2>15 DEF Next
<1> QED
  BY <1>1, <1>2, PTL DEF Spec

------------------------------------------------------------------------------
(* A call that is over takes no further step: nothing it started can still  *)
(* move.                                                                    *)
LEMMA DoneIsTheEnd ==
  ASSUME CallInv, pc = "done", [Next]_vars
  PROVE  UNCHANGED vars
<1>1. ~Main /\ ~KillAgain
  BY DEF Main, Refuse, OpenPipes, Start, TakeWait, Terminate, StopTimer, CloseStdout,
         TakeParsed, TakeDrained, Report, KillAgain
<1>2. ~Fire /\ ~ForceKill
  BY DEF CallInv, CleanReturn, Fire, ForceKill
<1>3. ~ParseLine /\ ~ParseEnd /\ ~Drain
  BY DEF CallInv, CleanReturn, ParseLine, ParseEnd, Drain
<1>4. ~Reap /\ ~ClosePipes /\ ~KillOnDone
  BY DEF CallInv, CleanReturn, Reap, ClosePipes, KillOnDone
<1>5. ~Say /\ ~Exit /\ ~Die /\ ~Interrupt
  BY DEF CallInv, CleanReturn, Say, Exit, Die, Interrupt
<1> QED
  BY <1>1, <1>2, <1>3, <1>4, <1>5 DEF Next

(* As long as the call is not over there is nothing to say of its end. *)
LEMMA NotOverYet ==
  ASSUME CallInv, pc # "done", pc' # "done", UNCHANGED ledger
  PROVE  CleanReturn' /\ SignalledMeans130' /\ RecordedOnce'
BY DEF CallInv, CleanReturn, SignalledMeans130, RecordedOnce, OkIsEarned

(* The end of a call, with whatever result, records one row that is good    *)
(* only if the result is.                                                   *)
LEMMA EndRecords ==
  ASSUME CallInv, pc # "done", NEW r, End(r),
         r.end = "panicked" \/ r.code # 0 \/
           /\ r.end = "returned" /\ r.message \in 1 .. said'
           /\ vendor' = "reaped" /\ status' = 0 /\ waitErr' = "none" /\ sig' = "none"
  PROVE  RecordedOnce'
<1>1. ledger = <<>>
  BY DEF CallInv, RecordedOnce
<1> DEFINE code == IF r.end = "panicked" THEN 1 ELSE r.code
           row == [exit |-> code, ok |-> code = 0]
<1>2. ledger' = <<row>>
  BY <1>1 DEF End, Record
<1>3. ASSUME row.ok
      PROVE  /\ result'.end = "returned" /\ result'.message \in 1 .. said'
             /\ vendor' = "reaped" /\ status' = 0 /\ waitErr' = "none" /\ sig' = "none"
  <2>1. code = 0
    BY <1>3, Zenon
  <2>2. r.end # "panicked" /\ r.code = 0
    BY <2>1
  <2> QED
    BY <2>2 DEF End
<1>4. ASSUME NEW i \in 1 .. Len(ledger'), ledger'[i].ok
      PROVE  row.ok
  <2> HIDE DEF row
  <2> QED
    BY <1>2, <1>4
<1> QED
  BY <1>3, <1>4 DEF RecordedOnce, OkIsEarned, End

(* Every step keeps the invariant: the quiet ones its shape, the ends of    *)
(* the call also what is promised of them.                                  *)
LEMMA CallStep ==
  ASSUME CallInv, [Next]_vars, CallTypeOK'
  PROVE  CallInv'
<1> DEFINE Kept == Shape' /\ CleanReturn' /\ SignalledMeans130' /\ RecordedOnce'
<1> SUFFICES Kept
  BY DEF CallInv
<1> SUFFICES ASSUME pc # "done"
             PROVE  Kept
  <2> SUFFICES ASSUME pc = "done"
               PROVE  Kept
    OBVIOUS
  <2>1. UNCHANGED vars
    BY DoneIsTheEnd
  <2> QED
    BY <2>1 DEF vars, outside, routines, ends, CallInv, Shape, AheadOfTheVendor, WithTheVendor,
       AfterTheVendor, WaitTells, OnlyWhenDone, CleanReturn, SignalledMeans130, RecordedOnce,
       OkIsEarned
<1> USE DEF CallInv, Shape, AheadOfTheVendor, WithTheVendor, AfterTheVendor, WaitTells,
            OnlyWhenDone, Ahead, Waiting, Ending
<1>1. CASE Refuse
  <2>1. UNCHANGED <<vendor, status, sig, said, pipes, waiter, parser, drainer, timer, waitErr, ctx>>
    BY <1>1 DEF Refuse, outside, routines
  <2>2. PICK r : End(r) /\ (r.end = "panicked" \/ r.code # 0)
    <3>1. CASE Return(1, 0)
      BY <3>1 DEF Return
    <3>2. CASE End([Pending EXCEPT !.end = "panicked"])
      BY <3>2 DEF Pending
    <3> QED
      BY <1>1, <3>1, <3>2 DEF Refuse
  <2>3. RecordedOnce'
    BY <2>2, EndRecords
  <2> QED
    BY <1>1, <2>1, <2>2, <2>3 DEF Refuse, End, CleanReturn, SignalledMeans130
<1>2. CASE OpenPipes
  <2>1. UNCHANGED <<vendor, status, sig, said, waiter, parser, drainer, timer, waitErr, ctx>>
    BY <1>2 DEF OpenPipes, outside, routines
  <2>2. CASE Return(1, 0) /\ UNCHANGED pipes
    <3>1. RecordedOnce'
      BY <2>2, EndRecords DEF Return
    <3> QED
      BY <1>2, <2>1, <2>2, <3>1 DEF OpenPipes, Return, End, CleanReturn, SignalledMeans130
  <2>3. CASE pc' = "start" /\ UNCHANGED ledger
    BY <1>2, <2>1, <2>3, NotOverYet DEF OpenPipes
  <2> QED
    BY <1>2, <2>2, <2>3 DEF OpenPipes
<1>3. CASE Start
  <2>1. UNCHANGED <<status, sig, said, timer, waitErr, ctx>>
    BY <1>3 DEF Start
  <2>2. ASSUME NEW code \in {1, 127}, Return(code, 0),
               pipes' = {}, UNCHANGED <<vendor, waiter, parser, drainer>>
        PROVE  Kept
    <3>1. RecordedOnce'
      BY <1>3, <2>2, EndRecords DEF Return
    <3> QED
      BY <1>3, <2>1, <2>2, <3>1 DEF Start, Return, End, CleanReturn, SignalledMeans130
  <2>3. CASE /\ vendor' = "running"
             /\ waiter' = "busy" /\ parser' = "busy" /\ drainer' = "busy"
             /\ pc' = "loop" /\ UNCHANGED ledger
    BY <1>3, <2>1, <2>3, NotOverYet DEF Start
  <2> QED
    BY <1>3, <2>2, <2>3 DEF Start, ends
<1>4. CASE Report
  <2>1. UNCHANGED <<vendor, status, sig, said, pipes, waiter, parser, drainer, timer, waitErr, ctx,
                    heard>>
    BY <1>4 DEF Report, outside, routines
  <2>2. vendor = "reaped" /\ pipes = {} /\ waiter = "taken" /\ parser = "taken"
          /\ drainer = "taken" /\ timer \notin {"armed", "firing"}
    BY <1>4 DEF Report
  <2>3. PICK code, message :
          /\ Return(code, message)
          /\ ctx => code = 130
          /\ code = 0 => ~ctx /\ status = 0 /\ waitErr = "none" /\ message \in 1 .. said
    BY <1>4, <2>2 DEF Report, CallTypeOK
  <2>4. RecordedOnce'
    BY <1>4, <2>1, <2>2, <2>3, EndRecords DEF Report, Return
  <2> QED
    BY <1>4, <2>1, <2>2, <2>3, <2>4 DEF Return, End, CleanReturn, SignalledMeans130
<1>5. CASE TakeWait
  BY <1>5, NotOverYet DEF TakeWait, outside, ends, CallTypeOK
<1>6. CASE Terminate
  BY <1>6, NotOverYet DEF Terminate, Send, ends, CallTypeOK
<1>7. CASE StopTimer
  BY <1>7, NotOverYet DEF StopTimer, outside, ends, CallTypeOK
<1>8. CASE CloseStdout
  BY <1>8, NotOverYet DEF CloseStdout, outside, routines, ends, CallTypeOK
<1>9. CASE TakeParsed
  BY <1>9, NotOverYet DEF TakeParsed, outside, ends, CallTypeOK
<1>10. CASE TakeDrained
  BY <1>10, NotOverYet DEF TakeDrained, outside, ends, CallTypeOK
<1>11. CASE KillAgain
  BY <1>11, NotOverYet DEF KillAgain, Send, routines, ends, CallTypeOK
<1>12. CASE Fire
  BY <1>12, NotOverYet DEF Fire, outside, ends, CallTypeOK
<1>13. CASE ForceKill
  BY <1>13, NotOverYet DEF ForceKill, Send, ends, CallTypeOK
<1>14. CASE ParseLine
  BY <1>14, NotOverYet DEF ParseLine, outside, ends, CallTypeOK
<1>15. CASE ParseEnd
  BY <1>15, NotOverYet DEF ParseEnd, outside, ends, CallTypeOK
<1>16. CASE Drain
  BY <1>16, NotOverYet DEF Drain, outside, ends, CallTypeOK
<1>17. CASE Reap
  BY <1>17, NotOverYet DEF Reap, ends, CallTypeOK
<1>18. CASE ClosePipes
  BY <1>18, NotOverYet DEF ClosePipes, outside, ends, CallTypeOK
<1>19. CASE KillOnDone
  BY <1>19, NotOverYet DEF KillOnDone, Send, routines, ends, CallTypeOK
<1>20. CASE Say
  BY <1>20, NotOverYet DEF Say, routines, ends, CallTypeOK
<1>21. CASE Exit
  BY <1>21, NotOverYet DEF Exit, routines, ends, CallTypeOK
<1>22. CASE Die
  BY <1>22, NotOverYet DEF Die, routines, ends, CallTypeOK
<1>23. CASE Interrupt
  BY <1>23, NotOverYet DEF Interrupt, routines, ends, CallTypeOK
<1>24. CASE UNCHANGED vars
  BY <1>24, NotOverYet DEF vars, outside, routines, ends, CallTypeOK
<1> QED
  BY <1>1, <1>2, <1>3, <1>4, <1>5, <1>6, <1>7, <1>8, <1>9, <1>10, <1>11, <1>12,
     <1>13, <1>14, <1>15, <1>16, <1>17, <1>18, <1>19, <1>20, <1>21, <1>22, <1>23, <1>24 DEF Next, Main

(* The invariant holds of every call, at every point of it. *)
THEOREM CallInvariant == Spec => []CallInv
<1>1. Init => CallInv
  <2> SUFFICES ASSUME Init
               PROVE  CallInv
    OBVIOUS
  <2>1. CallTypeOK
    BY InitTyped
  <2> QED
    BY <2>1 DEF Init, CallInv, Shape, AheadOfTheVendor, WithTheVendor, AfterTheVendor, WaitTells,
       OnlyWhenDone, Ahead, Waiting, Ending, CleanReturn, SignalledMeans130, RecordedOnce,
       OkIsEarned
<1>2. CallInv /\ [Next]_vars /\ CallTypeOK' => CallInv'
  BY CallStep
<1> QED
  BY <1>1, <1>2, CallTypeCorrect, PTL DEF Spec

(* A call that has returned leaves no process, goroutine, pipe, timer or    *)
(* temporary directory behind, whichever way it came to return.             *)
THEOREM CallsEndClean == Spec => []CleanReturn
<1>1. CallInv => CleanReturn
  BY DEF CallInv
<1> QED
  BY <1>1, CallInvariant, PTL

(* A vendor that was sent a signal is always reported as interrupted. *)
THEOREM SignalsAreReported == Spec => []SignalledMeans130
<1>1. CallInv => SignalledMeans130
  BY DEF CallInv
<1> QED
  BY <1>1, CallInvariant, PTL

(* A row of the ledger is good only for a call that really succeeded. *)
THEOREM GoodRowsAreEarned == Spec => []OkIsEarned
<1>1. CallInv => OkIsEarned
  BY DEF CallInv, RecordedOnce
<1> QED
  BY <1>1, CallInvariant, PTL

------------------------------------------------------------------------------
(* The logger                                                               *)

(* The part of the type invariant that the proof needs. *)
QueueType ==
    /\ queue \in Seq(Entries)
    /\ logged \in [Senders -> 0 .. MaxLogs]
    /\ sender \in [Senders -> {"idle", "checked", "sending"}]
    /\ \A s \in Senders : sender[s] # "idle" => logged[s] \in 1 .. MaxLogs
    /\ closer \in [Closers -> {"idle", "stored", "waiting", "returned"}]

(* Where an early entry can be, and what has come about before the worker    *)
(* drains, before it ends, and before anybody returns from Close.            *)
EarlyKept ==
    /\ early \subseteq Range(queue) \cup buffer \cup file
    /\ worker \in {"loop", "drain", "ended"}
    /\ worker # "loop" => done
    /\ worker = "ended" => early \subseteq file
    /\ \A c \in Closers : closer[c] = "returned" => worker = "ended"

CloseInv == QueueType /\ EarlyKept

(* What the channel holds after an entry was sent, and before one was taken. *)
LEMMA SentIsIn ==
  ASSUME NEW q \in Seq(Entries), NEW e \in Entries
  PROVE  Append(q, e) \in Seq(Entries) /\ Range(Append(q, e)) = Range(q) \cup {e}
<1> DEFINE r == Append(q, e)
<1>1. r \in Seq(Entries) /\ Len(q) \in Nat
  OBVIOUS
<1>2. /\ DOMAIN q = 1 .. Len(q) /\ DOMAIN r = 1 .. Len(q) + 1
      /\ r[Len(q) + 1] = e /\ \A i \in 1 .. Len(q) : r[i] = q[i]
  OBVIOUS
<1> HIDE DEF r
<1>3. Range(r) \subseteq Range(q) \cup {e}
  <2> SUFFICES ASSUME NEW i \in 1 .. Len(q) + 1, i # Len(q) + 1
               PROVE  r[i] \in Range(q)
    BY <1>2 DEF Range
  <2>1. i \in 1 .. Len(q)
    BY <1>1
  <2> QED
    BY <2>1, <1>2 DEF Range
<1>4. Range(q) \cup {e} \subseteq Range(r)
  BY <1>1, <1>2 DEF Range
<1> QED
  BY <1>1, <1>3, <1>4 DEF r

LEMMA TakenWasIn ==
  ASSUME NEW q \in Seq(Entries), q # <<>>
  PROVE  /\ Head(q) \in Entries /\ Tail(q) \in Seq(Entries)
         /\ Range(q) = Range(Tail(q)) \cup {Head(q)}
<1>1. Head(q) \in Entries /\ Tail(q) \in Seq(Entries) /\ Len(q) \in Nat \ {0}
  OBVIOUS
<1>2. /\ DOMAIN q = 1 .. Len(q) /\ DOMAIN Tail(q) = 1 .. Len(q) - 1
      /\ q[1] = Head(q) /\ \A i \in 1 .. Len(q) - 1 : Tail(q)[i] = q[i + 1]
  OBVIOUS
<1>3. Range(q) \subseteq Range(Tail(q)) \cup {Head(q)}
  <2> SUFFICES ASSUME NEW i \in 1 .. Len(q), i # 1
               PROVE  q[i] \in Range(Tail(q))
    BY <1>1, <1>2 DEF Range
  <2>1. i - 1 \in 1 .. Len(q) - 1 /\ q[i] = Tail(q)[i - 1]
    BY <1>1, <1>2
  <2> QED
    BY <2>1, <1>2 DEF Range
<1>4. Range(Tail(q)) \cup {Head(q)} \subseteq Range(q)
  BY <1>1, <1>2 DEF Range
<1> QED
  BY <1>1, <1>3, <1>4

(* Where early entries are, while the logger runs and after it is closed.    *)
THEOREM EarlyEntriesAreKept == LoggerSpec => []CloseInv
<1>1. LoggerInit => CloseInv
  BY LoggerAssumption DEF LoggerInit, CloseInv, QueueType, EarlyKept, Range
<1>2. CloseInv /\ [LoggerNext]_logVars => CloseInv'
  <2> SUFFICES ASSUME CloseInv, [LoggerNext]_logVars PROVE CloseInv'
    OBVIOUS
  <2> USE LoggerAssumption DEF CloseInv, QueueType, EarlyKept
  <2>1. ASSUME NEW s \in Senders, Call(s) PROVE CloseInv'
    <3>1. logged[s] + 1 \in 1 .. MaxLogs
      BY <2>1 DEF Call
    <3>2. \A r \in Senders : sender'[r] # "idle" => logged'[r] \in 1 .. MaxLogs
      <4> SUFFICES ASSUME NEW r \in Senders, sender'[r] # "idle"
                   PROVE  logged'[r] \in 1 .. MaxLogs
        OBVIOUS
      <4>1. CASE r = s
        BY <2>1, <3>1, <4>1 DEF Call
      <4>2. CASE r # s
        BY <2>1, <4>2 DEF Call
      <4> QED
        BY <4>1, <4>2
    <3>3. logged' \in [Senders -> 0 .. MaxLogs]
      BY <2>1, <3>1 DEF Call
    <3>4. sender' \in [Senders -> {"idle", "checked", "sending"}]
      BY <2>1 DEF Call
    <3>5. UNCHANGED <<queue, worker, buffer, file, done, closer, early>>
      BY <2>1 DEF Call, outVars, closeVars
    <3> QED
      BY <3>2, <3>3, <3>4, <3>5
  <2>2. ASSUME NEW s \in Senders, Register(s) PROVE CloseInv'
    BY <2>2 DEF Register, flushVars, outVars, closeVars
  <2>3. ASSUME NEW s \in Senders, Enqueue(s) PROVE CloseInv'
    <3>1. Entry(s) \in Entries
      BY <2>3 DEF Enqueue, Entry, Entries
    <3>2. queue' \in Seq(Entries) /\ Range(queue') = Range(queue) \cup {Entry(s)}
      BY <2>3, <3>1, SentIsIn DEF Enqueue
    <3> QED
      BY <2>3, <3>2 DEF Enqueue, flushVars, outVars, closeVars
  <2>4. ASSUME NEW s \in Senders, Drop(s) PROVE CloseInv'
    BY <2>4 DEF Drop, flushVars, outVars, closeVars
  <2>5. CASE Take
    <3>1. queue' \in Seq(Entries) /\ Range(queue) = Range(queue') \cup {Head(queue)}
      BY <2>5, TakenWasIn DEF Take
    <3> QED
      BY <2>5, <3>1 DEF Take, senderVars, flushVars, closeVars
  <2>6. CASE Ticker \/ Serve
    BY <2>6 DEF Ticker, Serve, WriteOut, senderVars, flushVars, closeVars
  <2>7. CASE SeeDone
    BY <2>7 DEF SeeDone, senderVars, flushVars, outVars, closeVars
  <2>8. CASE Finalize
    <3>1. Range(queue) = {}
      BY <2>8 DEF Finalize, Range
    <3> QED
      BY <2>8, <3>1 DEF Finalize, WriteOut, senderVars, flushVars, closeVars
  <2>9. ASSUME NEW f \in Flushers, Lock(f) \/ FlusherStep(f) \/ TimeOut(f) PROVE CloseInv'
    BY <2>9 DEF Lock, FlusherStep, Ask, PostRequest, SeesClosing, TimeOut, GiveUp,
                senderVars, outVars, closeVars
  <2>10. ASSUME NEW c \in Closers, Store(c) \/ CloserStep(c) PROVE CloseInv'
    <3>1. closer' \in [Closers -> {"idle", "stored", "waiting", "returned"}]
      BY <2>10 DEF Store, CloserStep, CloseDone, ReturnFromClose
    <3>2. \A d \in Closers : closer'[d] = "returned" => worker = "ended"
      <4>1. CASE Store(c) \/ CloseDone(c)
        BY <4>1 DEF Store, CloseDone
      <4>2. CASE ReturnFromClose(c)
        BY <4>2 DEF ReturnFromClose
      <4> QED
        BY <2>10, <4>1, <4>2 DEF CloserStep
    <3>3. /\ done => done'
          /\ UNCHANGED <<sender, logged, queue, worker, buffer, file, early>>
      BY <2>10 DEF Store, CloserStep, CloseDone, ReturnFromClose, senderVars, outVars
    <3> QED
      BY <3>1, <3>2, <3>3
  <2>11. CASE UNCHANGED logVars
    BY <2>11 DEF logVars, senderVars, flushVars, outVars, closeVars
  <2> QED
    BY <2>1, <2>2, <2>3, <2>4, <2>5, <2>6, <2>7, <2>8, <2>9, <2>10, <2>11
       DEF LoggerNext, SenderStep, WorkerStep
<1> QED
  BY <1>1, <1>2, PTL DEF LoggerSpec

(* An entry that was in the channel when Close closed done is in the file    *)
(* when Close returns.                                                       *)
THEOREM NoEarlyEntryIsLost == LoggerSpec => []ClosedMeansWritten
<1>1. CloseInv => ClosedMeansWritten
  BY DEF CloseInv, EarlyKept, ClosedMeansWritten
<1> QED
  BY <1>1, EarlyEntriesAreKept, PTL

------------------------------------------------------------------------------
(* The ranges that the account of the flushes relies on. *)
FlushType ==
    /\ buffer \subseteq Entries /\ file \subseteq Entries
    /\ flusher \in [Flushers -> {"idle", "waiting", "asking", "asked", "flushed", "gave up"}]
    /\ request \in Flushers \cup {Nobody}
    /\ promised \in [Flushers -> SUBSET Entries]

Sending == {s \in Senders : sender[s] = "sending"}

(* pendingWG counts the entries on their way to the buffer. *)
PendingCounts == pending = Len(queue) + Cardinality(Sending)

(* Entries that were registered already; the entry of a call that has not    *)
(* come to pendingWG yet is not among them.                                  *)
Past ==
    {e \in Entries : /\ e[2] <= logged[e[1]]
                     /\ sender[e[1]] = "checked" => e[2] < logged[e[1]]}

PastOnly == Registered \subseteq Past /\ \A f \in Flushers : promised[f] \subseteq Past

(* A Flush under way holds the mutex, which keeps new calls from registering,*)
(* and once it has seen pendingWG at zero nothing is under way.              *)
FlushAlone ==
    \A f \in Flushers :
        /\ flusher[f] \in {"waiting", "asking", "asked"} => flushMu = f
        /\ flusher[f] \in {"asking", "asked"} => queue = <<>> /\ Sending = {}

FlushInv ==
    QueueType /\ FlushType /\ PendingCounts /\ PastOnly /\ FlushAlone /\ FlushedMeansWritten

(* A channel of length zero is the empty channel.                            *)
LEMMA EmptyQueue ==
  ASSUME NEW q \in Seq(Entries), Len(q) = 0
  PROVE  q = <<>>
OBVIOUS

(* What a step does to the set of senders on their way into the channel, and *)
(* to the count of it.                                                       *)
LEMMA SendingFinite == IsFiniteSet(Sending) /\ Cardinality(Sending) \in Nat
<1>1. Sending \subseteq Senders
  BY DEF Sending
<1> QED
  BY <1>1, LoggerAssumption, FS_Subset, FS_CardinalityType

LEMMA SendingGrows ==
  ASSUME QueueType, NEW s \in Senders, sender[s] = "checked",
         sender' = [sender EXCEPT ![s] = "sending"]
  PROVE  Sending' = Sending \cup {s} /\ Cardinality(Sending') = Cardinality(Sending) + 1
<1>1. Sending' = Sending \cup {s} /\ s \notin Sending
  BY DEF Sending, QueueType
<1> QED
  BY <1>1, SendingFinite, FS_AddElement

LEMMA SendingShrinks ==
  ASSUME QueueType, NEW s \in Senders, sender[s] = "sending",
         sender' = [sender EXCEPT ![s] = "idle"]
  PROVE  Sending' = Sending \ {s} /\ Cardinality(Sending') = Cardinality(Sending) - 1
<1>1. Sending' = Sending \ {s} /\ s \in Sending
  BY DEF Sending, QueueType
<1> QED
  BY <1>1, SendingFinite, FS_RemoveElement

(* Who is registered after a step.                                           *)
LEMMA RegisteredByCall ==
  ASSUME QueueType, NEW s \in Senders, Register(s)
  PROVE  Registered' = Registered \cup {Entry(s)}
BY DEF QueueType, Register, Registered, Entry, outVars

(* The entry of a call under way is one of the entries.                      *)
LEMMA SendingEntry ==
  ASSUME QueueType, NEW s \in Senders, sender[s] # "idle"
  PROVE  Entry(s) \in Entries
BY DEF QueueType, Entry, Entries

LEMMA RegisteredKept ==
  ASSUME QueueType, [LoggerNext]_logVars, \A s \in Senders : ~Register(s)
  PROVE  Registered' \subseteq Registered
<1>1. ASSUME NEW s \in Senders, Call(s) \/ Drop(s)
      PROVE  Registered' \subseteq Registered
  BY <1>1 DEF QueueType, Call, Drop, Registered, Entry, outVars
<1>2. ASSUME NEW s \in Senders, Enqueue(s)
      PROVE  Registered' \subseteq Registered
  <2>1. Range(queue') = Range(queue) \cup {Entry(s)}
    BY <1>2, SentIsIn, SendingEntry DEF Enqueue, QueueType
  <2> QED
    BY <1>2, <2>1 DEF QueueType, Enqueue, Registered, Entry, outVars
<1>3. CASE Take
  <2>1. Range(queue) = Range(queue') \cup {Head(queue)}
    BY <1>3, TakenWasIn DEF Take, QueueType
  <2> QED
    BY <1>3, <2>1 DEF Take, Registered, Entry, senderVars
<1>4. CASE Ticker \/ Serve \/ SeeDone \/ Finalize
  BY <1>4 DEF Ticker, Serve, SeeDone, Finalize, WriteOut, Registered, Entry, senderVars, outVars
<1>5. ASSUME NEW f \in Flushers, Lock(f) \/ FlusherStep(f) \/ TimeOut(f)
      PROVE  Registered' = Registered
  BY <1>5 DEF Lock, FlusherStep, Ask, PostRequest, SeesClosing, TimeOut, GiveUp, Registered,
              Entry, senderVars, outVars
<1>6. ASSUME NEW c \in Closers, Store(c) \/ CloserStep(c)
      PROVE  Registered' = Registered
  BY <1>6 DEF Store, CloserStep, CloseDone, ReturnFromClose, Registered, Entry, senderVars, outVars
<1>7. CASE UNCHANGED logVars
  BY <1>7 DEF logVars, senderVars, outVars, Registered, Entry
<1> QED
  BY <1>1, <1>2, <1>3, <1>4, <1>5, <1>6, <1>7 DEF LoggerNext, SenderStep, WorkerStep

(* The ranges are kept. *)
LEMMA FlushTypeStep ==
  ASSUME QueueType, FlushType, [LoggerNext]_logVars
  PROVE  FlushType'
<1>1. ASSUME NEW s \in Senders, Call(s) \/ SenderStep(s)
      PROVE  FlushType'
  <2>1. UNCHANGED <<flushVars, outVars, request>>
    BY <1>1 DEF Call, SenderStep, Register, Enqueue, Drop
  <2> QED
    BY <2>1 DEF FlushType, flushVars, outVars
<1>2. CASE Take
  <2>1. Head(queue) \in Entries
    BY <1>2, TakenWasIn DEF Take, QueueType
  <2> QED
    BY <1>2, <2>1 DEF Take, FlushType, flushVars
<1>3. CASE Ticker \/ Serve \/ SeeDone \/ Finalize
  BY <1>3 DEF FlushType, Ticker, Serve, SeeDone, Finalize, WriteOut, flushVars, outVars
<1>4. ASSUME NEW f \in Flushers, Lock(f)
      PROVE  FlushType'
  <2>1. Range(queue) \subseteq Entries
    <3>1. queue \in Seq(Entries)
      BY DEF QueueType
    <3>2. \A i \in DOMAIN queue : queue[i] \in Entries
      BY <3>1
    <3> QED
      BY <3>2 DEF Range
  <2>2. \A s \in Senders : sender[s] = "sending" => Entry(s) \in Entries
    BY SendingEntry
  <2>3. Registered \subseteq Entries
    BY <2>1, <2>2 DEF FlushType, Registered
  <2> QED
    BY <1>4, <2>3 DEF FlushType, Lock, outVars
<1>5. ASSUME NEW f \in Flushers, FlusherStep(f) \/ TimeOut(f)
      PROVE  FlushType'
  BY <1>5 DEF FlushType, FlusherStep, Ask, PostRequest, SeesClosing, TimeOut, GiveUp, outVars
<1>6. ASSUME NEW c \in Closers, Store(c) \/ CloserStep(c)
      PROVE  FlushType'
  BY <1>6 DEF FlushType, Store, CloserStep, CloseDone, ReturnFromClose, flushVars, outVars
<1>7. CASE UNCHANGED logVars
  BY <1>7 DEF FlushType, logVars, flushVars, outVars
<1> QED
  BY <1>1, <1>2, <1>3, <1>4, <1>5, <1>6, <1>7 DEF LoggerNext, WorkerStep

(* pendingWG.Add and Done come in pairs around the way of an entry.          *)
LEMMA PendingStep ==
  ASSUME QueueType, FlushType, PendingCounts, [LoggerNext]_logVars
  PROVE  PendingCounts'
<1> USE DEF PendingCounts
<1>0. Len(queue) \in Nat /\ Cardinality(Sending) \in Nat
  BY SendingFinite DEF QueueType
<1>1. ASSUME NEW s \in Senders, Call(s)
      PROVE  PendingCounts'
  <2>1. Sending' = Sending
    BY <1>1 DEF Call, Sending, QueueType
  <2> QED
    BY <1>1, <2>1 DEF Call
<1>2. ASSUME NEW s \in Senders, Register(s)
      PROVE  PendingCounts'
  <2>1. Cardinality(Sending') = Cardinality(Sending) + 1
    BY <1>2, SendingGrows DEF Register
  <2> QED
    BY <1>0, <1>2, <2>1 DEF Register
<1>3. ASSUME NEW s \in Senders, Enqueue(s)
      PROVE  PendingCounts'
  <2>1. Len(queue') = Len(queue) + 1
    BY <1>3, SendingEntry DEF Enqueue, QueueType
  <2>2. Cardinality(Sending') = Cardinality(Sending) - 1
    BY <1>3, SendingShrinks DEF Enqueue
  <2> QED
    BY <1>0, <1>3, <2>1, <2>2 DEF Enqueue
<1>4. ASSUME NEW s \in Senders, Drop(s)
      PROVE  PendingCounts'
  <2>1. Cardinality(Sending') = Cardinality(Sending) - 1
    BY <1>4, SendingShrinks DEF Drop
  <2> QED
    BY <1>0, <1>4, <2>1 DEF Drop
<1>5. CASE Take
  <2>1. Len(queue') = Len(queue) - 1
    BY <1>5 DEF Take, QueueType
  <2>2. Sending' = Sending
    BY <1>5 DEF Take, senderVars, Sending
  <2> QED
    BY <1>0, <1>5, <2>1, <2>2 DEF Take
<1>6. CASE UNCHANGED <<sender, queue, pending>>
  BY <1>6 DEF Sending
<1> QED
  BY <1>1, <1>2, <1>3, <1>4, <1>5, <1>6
  DEF LoggerNext, SenderStep, WorkerStep, Ticker, Serve, SeeDone, Finalize, Lock, FlusherStep, Ask,
      PostRequest, SeesClosing, TimeOut, GiveUp, Store, CloserStep, CloseDone, ReturnFromClose,
      logVars, senderVars

(* What is past stays past, and a call that registers becomes so.            *)
LEMMA PastGrows ==
  ASSUME QueueType, [LoggerNext]_logVars
  PROVE  Past \subseteq Past'
<1> SUFFICES ASSUME NEW e \in Entries, e \in Past
             PROVE  e \in Past'
  BY DEF Past
<1>0. e[1] \in Senders /\ e[2] \in Nat /\ logged[e[1]] \in Nat
  BY DEF Entries, QueueType
<1>1. ASSUME NEW s \in Senders, Call(s)
      PROVE  e \in Past'
  BY <1>0, <1>1 DEF Call, Past, QueueType
<1>2. ASSUME NEW s \in Senders, SenderStep(s)
      PROVE  e \in Past'
  BY <1>0, <1>2 DEF SenderStep, Register, Enqueue, Drop, Past, QueueType
<1>3. CASE UNCHANGED senderVars
  BY <1>3 DEF senderVars, Past
<1> QED
  BY <1>1, <1>2, <1>3
  DEF LoggerNext, WorkerStep, Take, Ticker, Serve, SeeDone, Finalize, Lock, FlusherStep, Ask,
      PostRequest, SeesClosing, TimeOut, GiveUp, Store, CloserStep, CloseDone, ReturnFromClose,
      logVars

LEMMA PastStep ==
  ASSUME QueueType, FlushType, PastOnly, [LoggerNext]_logVars
  PROVE  PastOnly'
<1>1. Registered' \subseteq Past'
  <2>1. ASSUME NEW s \in Senders, Register(s)
        PROVE  Entry(s) \in Past'
    <3>1. Entry(s) \in Entries
      BY <2>1, SendingEntry DEF Register
    <3>2. sender'[s] = "sending" /\ logged' = logged /\ logged[s] \in Nat
      BY <2>1 DEF Register, QueueType
    <3> QED
      BY <3>1, <3>2 DEF Past, Entry
  <2> QED
    BY <2>1, PastGrows, RegisteredByCall, RegisteredKept DEF PastOnly
<1>2. ASSUME NEW f \in Flushers
      PROVE  promised'[f] = promised[f] \/ promised'[f] = Registered
  BY DEF FlushType, LoggerNext, SenderStep, Call, Register, Enqueue, Drop, WorkerStep, Take, Ticker,
         Serve, SeeDone, Finalize, Lock, FlusherStep, Ask, PostRequest, SeesClosing, TimeOut, GiveUp,
         Store, CloserStep, CloseDone, ReturnFromClose, logVars, flushVars
<1> QED
  BY <1>1, <1>2, PastGrows DEF PastOnly

(* While a Flush holds the mutex nobody registers; what it saw pending when  *)
(* it took the mutex is written to the buffer before it asks.                *)
LEMMA AloneStep ==
  ASSUME QueueType, FlushType, PendingCounts, FlushAlone, [LoggerNext]_logVars
  PROVE  FlushAlone'
<1>00. Len(queue) \in Nat /\ Cardinality(Sending) \in Nat
  BY SendingFinite DEF QueueType
<1>0. Nobody \notin Flushers
  BY LoggerAssumption
<1>1. ASSUME NEW s \in Senders, Call(s)
      PROVE  FlushAlone'
  <2>1. Sending' = Sending
    BY <1>1 DEF Call, Sending, QueueType
  <2> QED
    BY <1>1, <2>1 DEF FlushAlone, FlushType, Call, flushVars
<1>2. ASSUME NEW s \in Senders, Register(s)
      PROVE  FlushAlone'
  BY <1>0, <1>2 DEF FlushAlone, FlushType, Register, flushVars
<1>3. ASSUME NEW s \in Senders, Enqueue(s) \/ Drop(s)
      PROVE  FlushAlone'
  <2>1. s \in Sending
    BY <1>3 DEF Enqueue, Drop, Sending
  <2> QED
    BY <1>3, <2>1 DEF FlushAlone, FlushType, Enqueue, Drop, flushVars
<1>4. CASE Take
  BY <1>4 DEF FlushAlone, FlushType, Take, Sending, senderVars, flushVars
<1>5. CASE Ticker \/ SeeDone \/ Finalize
  BY <1>5 DEF FlushAlone, FlushType, Ticker, SeeDone, Finalize, Sending, senderVars, flushVars
<1>6. CASE Serve
  BY <1>0, <1>6 DEF FlushAlone, FlushType, Serve, Sending, senderVars
<1>7. ASSUME NEW f \in Flushers, Lock(f)
      PROVE  FlushAlone'
  BY <1>0, <1>7 DEF FlushAlone, FlushType, Lock, Sending, senderVars
<1>8. ASSUME NEW f \in Flushers, Ask(f)
      PROVE  FlushAlone'
  <2>1. queue = <<>> /\ Sending = {}
    <3>1. Len(queue) + Cardinality(Sending) = 0
      BY <1>8 DEF Ask, PendingCounts
    <3>2. Len(queue) = 0 /\ Cardinality(Sending) = 0
      BY <1>00, <3>1
    <3> QED
      BY <3>2, SendingFinite, FS_EmptySet, EmptyQueue DEF QueueType
  <2> QED
    BY <1>8, <2>1 DEF FlushAlone, FlushType, Ask, Sending, senderVars
<1>9. ASSUME NEW f \in Flushers, PostRequest(f) \/ SeesClosing(f) \/ TimeOut(f)
      PROVE  FlushAlone'
  BY <1>0, <1>9 DEF FlushAlone, FlushType, PostRequest, SeesClosing, TimeOut, GiveUp, Sending, senderVars
<1>10. ASSUME NEW c \in Closers, Store(c) \/ CloserStep(c)
       PROVE  FlushAlone'
  BY <1>10 DEF FlushAlone, FlushType, Store, CloserStep, CloseDone, ReturnFromClose, flushVars, Sending, senderVars
<1>11. CASE UNCHANGED logVars
  BY <1>11 DEF FlushAlone, FlushType, logVars, senderVars, flushVars, Sending
<1> QED
  BY <1>1, <1>2, <1>3, <1>4, <1>5, <1>6, <1>7, <1>8, <1>9, <1>10, <1>11
  DEF LoggerNext, SenderStep, WorkerStep, FlusherStep

(* A Flush that is served finds everything registered in the buffer or the   *)
(* file; what is registered after it began was not promised.                 *)
LEMMA FlushedStep ==
  ASSUME QueueType, FlushType, PastOnly, FlushAlone, FlushedMeansWritten, [LoggerNext]_logVars
  PROVE  FlushedMeansWritten'
<1> SUFFICES ASSUME NEW f \in Flushers, flusher'[f] = "flushed",
                    NEW e \in promised'[f], e \in Registered'
             PROVE  e \in file'
  BY DEF FlushedMeansWritten, Dropped
<1>1. file \subseteq file'
  BY DEF LoggerNext, SenderStep, Call, Register, Enqueue, Drop, WorkerStep, Take, Ticker,
         Serve, SeeDone, Finalize, WriteOut, Lock, FlusherStep, Ask, PostRequest, SeesClosing,
         TimeOut, GiveUp, Store, CloserStep, CloseDone, ReturnFromClose, logVars, outVars
<1>2. CASE flusher[f] = "flushed"
  <2>1. promised'[f] = promised[f]
    BY <1>2 DEF FlushType, LoggerNext, SenderStep, Call, Register, Enqueue, Drop, WorkerStep, Take,
           Ticker, Serve, SeeDone, Finalize, Lock, FlusherStep, Ask, PostRequest, SeesClosing,
           TimeOut, GiveUp, Store, CloserStep, CloseDone, ReturnFromClose, logVars, flushVars
  <2>2. e \in Registered
    <3>1. ASSUME NEW s \in Senders, Register(s), e = Entry(s)
          PROVE  FALSE
      <4>1. e \in Past /\ sender[s] = "checked" /\ logged[s] \in Nat
        BY <2>1, <3>1 DEF PastOnly, Register, QueueType
      <4> QED
        BY <3>1, <4>1 DEF Past, Entry
    <3> QED
      BY <3>1, RegisteredByCall, RegisteredKept
  <2> QED
    BY <1>1, <1>2, <2>1, <2>2 DEF FlushedMeansWritten, Dropped
<1>3. CASE flusher[f] # "flushed"
  <2>1. Serve /\ request = f /\ flusher[f] = "asked"
    BY <1>3 DEF FlushType, LoggerNext, SenderStep, Call, Register, Enqueue, Drop, WorkerStep, Take,
           Ticker, Serve, SeeDone, Finalize, Lock, FlusherStep, Ask, PostRequest, SeesClosing,
           TimeOut, GiveUp, Store, CloserStep, CloseDone, ReturnFromClose, logVars, flushVars
  <2>2. queue = <<>> /\ Sending = {}
    BY <2>1 DEF FlushAlone
  <2>3. Range(queue) = {}
    BY <2>2 DEF Range
  <2>4. Registered' \subseteq Registered
    BY <2>1, RegisteredKept DEF Serve, Register, senderVars
  <2>5. Registered = buffer \cup file
    BY <2>2, <2>3 DEF Registered, Sending
  <2> QED
    BY <2>1, <2>4, <2>5 DEF Serve, WriteOut
<1> QED
  BY <1>2, <1>3

(* A Flush that came to its end without giving up has put into the file      *)
(* whatever was registered before it, unless it was dropped for a close.     *)
THEOREM FlushKeepsItsPromise == LoggerSpec => []FlushedMeansWritten
<1>1. LoggerInit => FlushInv
  <2> SUFFICES ASSUME LoggerInit
               PROVE  FlushInv
    OBVIOUS
  <2> USE LoggerAssumption DEF LoggerInit
  <2>1. QueueType /\ FlushType
    BY DEF QueueType, FlushType
  <2>2. Sending = {} /\ Registered = {}
    BY DEF Sending, Registered, Range
  <2>3. PendingCounts
    BY <2>2, FS_EmptySet DEF PendingCounts
  <2> QED
    BY <2>1, <2>2, <2>3 DEF FlushInv, PastOnly, FlushAlone, FlushedMeansWritten
<1>2. FlushInv /\ QueueType' /\ [LoggerNext]_logVars => FlushInv'
  BY FlushTypeStep, PendingStep, PastStep, AloneStep, FlushedStep DEF FlushInv
<1>3. CloseInv => QueueType
  BY DEF CloseInv
<1>4. FlushInv => FlushedMeansWritten
  BY DEF FlushInv
<1> QED
  BY <1>1, <1>2, <1>3, <1>4, EarlyEntriesAreKept, PTL DEF LoggerSpec

(* What the accounts above leave out. *)
OtherTypes ==
    /\ Len(queue) <= Capacity
    /\ flushMu \in Flushers \cup {Nobody}
    /\ early \subseteq Entries
    /\ closed \in BOOLEAN /\ done \in BOOLEAN

LEMMA OtherTypesStep ==
  ASSUME QueueType, OtherTypes, [LoggerNext]_logVars
  PROVE  OtherTypes'
<1> USE LoggerAssumption DEF OtherTypes
<1>0. Len(queue) \in Nat
  BY DEF QueueType
<1>1. ASSUME NEW s \in Senders, Call(s) \/ Register(s) \/ Drop(s)
      PROVE  OtherTypes'
  BY <1>1 DEF Call, Register, Drop, flushVars, closeVars
<1>2. ASSUME NEW s \in Senders, Enqueue(s)
      PROVE  OtherTypes'
  <2>1. Entry(s) \in Entries
    BY <1>2, SendingEntry DEF Enqueue
  <2>2. Len(queue') = Len(queue) + 1 /\ Len(queue) < Capacity
    BY <1>2, <2>1 DEF Enqueue, QueueType
  <2> QED
    BY <1>0, <1>2, <2>1, <2>2 DEF Enqueue, flushVars, closeVars
<1>3. CASE Take
  <2>1. Len(queue') = Len(queue) - 1
    BY <1>3 DEF Take, QueueType
  <2> QED
    BY <1>0, <1>3, <2>1 DEF Take, flushVars, closeVars
<1>4. CASE Ticker \/ Serve \/ SeeDone \/ Finalize
  BY <1>4 DEF Ticker, Serve, SeeDone, Finalize, flushVars, closeVars
<1>5. ASSUME NEW f \in Flushers, Lock(f) \/ FlusherStep(f) \/ TimeOut(f)
      PROVE  OtherTypes'
  BY <1>5 DEF Lock, FlusherStep, Ask, PostRequest, SeesClosing, TimeOut, GiveUp, closeVars
<1>6. ASSUME NEW c \in Closers, Store(c) \/ CloserStep(c)
      PROVE  OtherTypes'
  BY <1>6 DEF Store, CloserStep, CloseDone, ReturnFromClose, flushVars
<1>7. CASE UNCHANGED logVars
  BY <1>7 DEF logVars, flushVars, closeVars
<1> QED
  BY <1>1, <1>2, <1>3, <1>4, <1>5, <1>6, <1>7 DEF LoggerNext, SenderStep, WorkerStep

(* Type correctness of the logger: pendingWG never falls below zero (which   *)
(* would panic), and the channel never holds more than it has room for.      *)
THEOREM LoggerTypeCorrect == LoggerSpec => []LoggerTypeOK
<1> DEFINE Types == CloseInv /\ FlushType /\ PendingCounts /\ OtherTypes
<1>1. LoggerInit => FlushType /\ PendingCounts /\ OtherTypes
  <2> SUFFICES ASSUME LoggerInit PROVE FlushType /\ PendingCounts /\ OtherTypes
    OBVIOUS
  <2>1. FlushType /\ OtherTypes
    <3>1. FlushType
      BY DEF LoggerInit, FlushType
    <3>2. Len(queue) = 0 /\ 0 <= Capacity
      BY LoggerAssumption DEF LoggerInit
    <3> QED
      BY <3>1, <3>2 DEF LoggerInit, OtherTypes
  <2>2. Sending = {}
    BY DEF LoggerInit, Sending
  <2> QED
    BY <2>1, <2>2, FS_EmptySet DEF LoggerInit, PendingCounts
<1>2. CloseInv /\ FlushType /\ PendingCounts /\ OtherTypes /\ [LoggerNext]_logVars =>
        FlushType' /\ PendingCounts' /\ OtherTypes'
  BY FlushTypeStep, PendingStep, OtherTypesStep DEF CloseInv
<1>3. Types => LoggerTypeOK
  <2> SUFFICES ASSUME Types PROVE LoggerTypeOK
    OBVIOUS
  <2>1. Len(queue) \in Nat /\ Cardinality(Sending) \in Nat
    BY SendingFinite DEF CloseInv, QueueType
  <2>2. pending \in Nat
    BY <2>1 DEF PendingCounts
  <2> QED
    BY <2>2 DEF LoggerTypeOK, CloseInv, QueueType, EarlyKept, FlushType, OtherTypes
<1> QED
  BY <1>1, <1>2, <1>3, EarlyEntriesAreKept, PTL DEF LoggerSpec, Types
================================================================================
