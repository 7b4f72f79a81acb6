---------------------------- MODULE MCHarnessClaim ----------------------------
(* Model-checking instances of HarnessClaim: two claims, and a renewal on   *)
(* behalf of the first worker.                                              *)
EXTENDS HarnessClaim, TLC

CONSTANTS p1, p2, p3, t1, t2, w1, w2

ClaimDeps == t1 :> {} @@ t2 :> {t1}
ClaimRank == t1 :> 1 @@ t2 :> 0
ClaimOwner == p1 :> w1 @@ p2 :> w2 @@ p3 :> w1
ClaimTarget == p1 :> NoTask @@ p2 :> NoTask @@ p3 :> t1
AllClaim == p1 :> NoTask @@ p2 :> NoTask @@ p3 :> NoTask
==============================================================================
