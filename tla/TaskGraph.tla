------------------------------- MODULE TaskGraph -------------------------------
(***************************************************************************)
(* What a parallel run promises about a graph of vendor calls, with no     *)
(* layers, channels or goroutines: a call begins only when everything it   *)
(* depends on has succeeded and a worker is free, and it is given up only  *)
(* when something it depends on has not, or the run was cancelled.         *)
(***************************************************************************)
EXTENDS Integers, FiniteSets

CONSTANTS Tasks, Deps, Limit    \* Limit = 0: as many workers as tasks

VARIABLES fate, stopped

GraphInit ==
    /\ fate = [t \in Tasks |-> "idle"]
    /\ stopped = FALSE

Going == {t \in Tasks : fate[t] = "going"}

Begin(t) ==
    /\ fate[t] = "idle"
    /\ \A d \in Deps[t] : fate[d] = "ok"
    /\ Limit > 0 => Cardinality(Going) < Limit
    /\ fate' = [fate EXCEPT ![t] = "going"]
    /\ UNCHANGED stopped

End(t) ==
    /\ fate[t] = "going"
    /\ \E f \in {"ok", "bad"} : fate' = [fate EXCEPT ![t] = f]
    /\ UNCHANGED stopped

Drop(t) ==
    /\ fate[t] = "idle"
    /\ stopped \/ \E d \in Deps[t] : fate[d] = "bad"
    /\ fate' = [fate EXCEPT ![t] = "bad"]
    /\ UNCHANGED stopped

StopRun == ~stopped /\ stopped' = TRUE /\ UNCHANGED fate

GraphNext == StopRun \/ \E t \in Tasks : Begin(t) \/ End(t) \/ Drop(t)

GraphSpec == GraphInit /\ [][GraphNext]_<<fate, stopped>>
==============================================================================
