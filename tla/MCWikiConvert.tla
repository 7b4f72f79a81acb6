----------------------------- MODULE MCWikiConvert -----------------------------
(* A small wiki for the model checker.                                       *)
EXTENDS WikiConvert, TLC

(* A README, two pages with one bare name that a reader could file under one *)
(* subject, one whose body does not survive, and one that cannot be filed.   *)
MCPath == 1 :> "README" @@ 2 :> "convention/a" @@ 3 :> "debugging/a"
          @@ 4 :> "pattern/b" @@ 5 :> "odd/c"
MCName == 1 :> "README" @@ 2 :> "a" @@ 3 :> "a" @@ 4 :> "b" @@ 5 :> "c"
MCOrigin == [p \in 1 .. 5 |-> IF p = 3 THEN "omp" ELSE "omx"]
MCMayFile == 1 :> {} @@ 2 :> {"s", "t"} @@ 3 :> {"s", "t"} @@ 4 :> {"u"} @@ 5 :> {}

(* What git thinks of the page that nobody can file makes no difference.     *)
MCInit == Init /\ wiki[5] = "clean"

MCSpec == MCInit /\ [][Next]_vars /\ Fairness
================================================================================
