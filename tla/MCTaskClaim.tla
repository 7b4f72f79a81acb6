----------------------------- MODULE MCTaskClaim -----------------------------
(* Model-checking instance of TaskClaim: a chain of two tasks beside a      *)
(* third one, ranked against the chain.                                     *)
EXTENDS TaskClaim, TLC

CONSTANTS t1, t2, t3, w1, w2, w3

ForkDeps == t1 :> {} @@ t2 :> {t1} @@ t3 :> {}
ForkRank == t1 :> 2 @@ t2 :> 1 @@ t3 :> 0
==============================================================================
