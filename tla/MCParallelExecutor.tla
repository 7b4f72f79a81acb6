-------------------------- MODULE MCParallelExecutor --------------------------
(* Model-checking instance of ParallelExecutor: three roots, and a task     *)
(* that needs two of them; and, by itself, the sort on all small lists of   *)
(* tasks.  The fairness is the executor's: fair behaviours are those in     *)
(* which it is at work.                                                     *)
EXTENDS ParallelExecutor, TopoSort, TLC

CONSTANTS a, b, c, d

VARIABLE atWork    \* rigid: which of the two; the other stays as it begins

ForkDeps == a :> {} @@ b :> {} @@ c :> {a, b} @@ d :> {}
ForkLevel == a :> 0 @@ b :> 0 @@ c :> 1 @@ d :> 0

(* Dependency lists of up to three names, of which every order is as good as *)
(* any other.                                                                *)
FewLists ==
    UNION {{l \in [1 .. n -> Ids \cup Strangers] : \A i \in 2 .. n : l[i - 1] <= l[i]} : n \in 0 .. 3}

PlanInit ==
    /\ Init /\ SortInit
    /\ atWork \in {"graph", "sort"}
    /\ atWork = "graph" => deps = [t \in Ids |-> <<>>]

PlanNext ==
    /\ UNCHANGED atWork
    /\ \/ atWork = "graph" /\ Next /\ UNCHANGED sortVars
       \/ atWork = "sort" /\ SortNext /\ UNCHANGED vars

PlanSpec == PlanInit /\ [][PlanNext]_<<atWork, vars, sortVars>> /\ Fairness
==============================================================================
