---------------------------- MODULE MCHarnessStop ----------------------------
(* Model-checking instances of HarnessStop: a chain of two tasks, or one.   *)
EXTENDS HarnessStop, TLC

CONSTANTS t1, t2, w1, w2

StopDeps == t1 :> {} @@ t2 :> {t1}
StopRank == t1 :> 0 @@ t2 :> 1
LoneDeps == t1 :> {}
LoneRank == t1 :> 0
==============================================================================
