---------------------------- MODULE MCHarnessLock ----------------------------
(* Model-checking instance of HarnessLock: three hooks, each of which may   *)
(* be killed; two may stall, and the third may time out.                    *)
EXTENDS HarnessLock

CONSTANTS p1, p2, p3
==============================================================================
