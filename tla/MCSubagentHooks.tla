--------------------------- MODULE MCSubagentHooks ---------------------------
(* One task and three stores: an anchored one with the ruins of its        *)
(* predecessors, one that is being moved, and one from before boards.      *)
EXTENDS SubagentHooks, TLC

CONSTANTS t1, w1, w2

LoneDeps == t1 :> {}
LoneRank == t1 :> 1

Disk(anchor, hq, old, state, marker) ==
    [anchor |-> anchor, above |-> "clear", hq |-> hq, old |-> old, state |-> state,
     marker |-> marker]

HooksStores ==
    {<<Disk("ok", "active", "closed", "garbled", TRUE), "hq">>,
     <<Disk("ok", "none", "active", "active", TRUE), "old">>,
     <<Disk("none", "none", "none", "active", TRUE), "state">>}

(* Two subagents only meet in the one that is being moved, where a session   *)
(* can get every answer there is; a teammate is with any other everywhere.   *)
HooksInit == Init /\ (home = "old" \/ \E w \in Workers : kind[w] = "teammate")

HooksSpec == HooksInit /\ [][Next]_vars /\ Fairness
================================================================================
