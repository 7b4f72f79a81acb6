------------------------------- MODULE TopoSort -------------------------------
(***************************************************************************)
(* TopologicalSort of codeagent-wrapper/internal/domain/task: Kahn's       *)
(* algorithm, one layer per turn of its outer loop, over every list of     *)
(* task specifications.  A dependency list may name a task twice, and may  *)
(* name a task that is not there.  Order within a layer is left out.       *)
(***************************************************************************)
EXTENDS Integers, Sequences, FiniteSets, Functions

CONSTANTS
    Ids,        \* the task ids of the list
    Strangers,  \* ids that only occur in dependency lists
    Lists       \* the dependency lists a task may have

ASSUME SortAssumption ==
    /\ IsFiniteSet(Ids)
    /\ Strangers \cap Ids = {}
    /\ Lists \subseteq Seq(Ids \cup Strangers)

VARIABLES
    deps,       \* Dependencies of every task
    indegree,
    queue,
    layers,
    processed,
    outcome     \* "start", "sorting", or what is returned

sortVars == <<deps, indegree, queue, layers, processed, outcome>>

SortTypeOK ==
    /\ deps \in [Ids -> Lists]
    /\ indegree \in [Ids -> Nat]
    /\ queue \subseteq Ids
    /\ layers \in Seq(SUBSET Ids)
    /\ processed \in 0 .. Cardinality(Ids)
    /\ outcome \in {"start", "sorting", "layers", "not found", "cycle"}

SortInit ==
    /\ deps \in [Ids -> Lists]
    /\ indegree = [t \in Ids |-> 0]
    /\ queue = {}
    /\ layers = <<>>
    /\ processed = 0
    /\ outcome = "start"

Needs(t) == Range(deps[t])

(* How often the list of a task names one of these. *)
Named(t, among) == Cardinality({i \in DOMAIN deps[t] : deps[t][i] \in among})

CountDistinct(t) == Cardinality(Needs(t) \cap Ids)
Count(t) == Named(t, Ids)

(* The first two loops: count what every task waits for, or fail on a       *)
(* stranger; then queue the tasks that wait for nothing.                    *)
CountDependencies ==
    /\ outcome = "start"
    /\ IF \E t \in Ids : ~ Needs(t) \subseteq Ids
       THEN outcome' = "not found" /\ UNCHANGED <<indegree, queue>>
       ELSE /\ indegree' = [t \in Ids |-> Count(t)]
            /\ queue' = {t \in Ids : indegree'[t] = 0}
            /\ outcome' = "sorting"
    /\ UNCHANGED <<deps, layers, processed>>

(* One turn: the queue is the next layer, and its tasks are taken off the   *)
(* count of everything that names them.                                     *)
TakeLayer ==
    /\ outcome = "sorting" /\ queue # {}
    /\ layers' = Append(layers, queue)
    /\ processed' = processed + Cardinality(queue)
    /\ indegree' = [t \in Ids |-> indegree[t] - Named(t, queue)]
    /\ queue' = {t \in Ids : indegree'[t] = 0 /\ Named(t, queue) > 0}
    /\ UNCHANGED <<deps, outcome>>

Report ==
    /\ outcome = "sorting" /\ queue = {}
    /\ outcome' = IF processed = Cardinality(Ids) THEN "layers" ELSE "cycle"
    /\ UNCHANGED <<deps, indegree, queue, layers, processed>>

SortNext == CountDependencies \/ TakeLayer \/ Report

SortSpec == SortInit /\ [][SortNext]_sortVars

------------------------------------------------------------------------------
LayerOf(t) == {i \in DOMAIN layers : t \in layers[i]}

(* Every task gets one layer, the earliest one that comes after all of its  *)
(* dependencies: what the executor relies on, and no layer is wasted.       *)
LayersAreTight ==
    outcome = "layers" =>
        \A t \in Ids :
            \E i \in DOMAIN layers :
                /\ LayerOf(t) = {i}
                /\ \A d \in Needs(t) : \E j \in LayerOf(d) : j < i
                /\ i > 1 => \E d \in Needs(t) : d \in layers[i - 1]

(* Cyclic: a set of tasks each of which waits for another one of the set.   *)
Cyclic == \E S \in (SUBSET Ids) \ {{}} : \A t \in S : Needs(t) \cap S # {}

(* The answer is an error exactly for the lists that cannot be scheduled.   *)
SortedWhenPossible ==
    /\ outcome = "layers" => ~Cyclic
    /\ outcome = "cycle" => Cyclic
    /\ outcome = "not found" <=> outcome # "start" /\ \E t \in Ids : ~ Needs(t) \subseteq Ids

(* What RunPlan relies on: a tight layering of every list that has one, and *)
(* an error for every other.                                                *)
SortAnswers == LayersAreTight /\ SortedWhenPossible
==============================================================================
