------------------------------- MODULE PostShelf -------------------------------
(***************************************************************************)
(* What the hq store promises its users: a shelf of numbered posts on      *)
(* which every verb is one indivisible step.  A post is added under a      *)
(* number larger than any other, may supersede one that is there (so that  *)
(* chains end in a head), and is amended by appending one comment at a     *)
(* time; it is never lost, renumbered or replaced, and without leave to    *)
(* revise what it says never changes.                                      *)
(***************************************************************************)
EXTENDS Naturals

CONSTANTS
    Names,        \* file names: records with at least a field num
    Clients,      \* who may sign a comment
    NoId,         \* in the place of an id: none
    IdOf(_)       \* the id that a name stands for

VARIABLES
    shelf,        \* the posts, by name
    revisable     \* rigid: what a post says may be corrected

ShelfInit == TRUE

Add(n) ==
    /\ n \notin DOMAIN shelf
    /\ \A m \in DOMAIN shelf : m.num < n.num
    /\ DOMAIN shelf' = DOMAIN shelf \cup {n}
    /\ \A m \in DOMAIN shelf : shelf'[m] = shelf[m]
    /\ shelf'[n].comments = {}
    /\ shelf'[n].supersedes \in {NoId} \cup {IdOf(m) : m \in DOMAIN shelf}

(* A comment, or an edit, which leaves a comment that says so. *)
Amend(n, c) ==
    /\ n \in DOMAIN shelf /\ DOMAIN shelf' = DOMAIN shelf
    /\ \A m \in DOMAIN shelf \ {n} : shelf'[m] = shelf[m]
    /\ c \notin shelf[n].comments
    /\ shelf'[n].comments = shelf[n].comments \cup {c}
    /\ shelf'[n].subject = shelf[n].subject
    /\ shelf'[n].supersedes = shelf[n].supersedes
    /\ ~revisable => /\ shelf'[n].body = shelf[n].body
                     /\ shelf'[n].summary = shelf[n].summary

ShelfNext ==
    /\ UNCHANGED revisable
    /\ \E n \in Names : Add(n) \/ \E c \in Clients : Amend(n, c)

ShelfSpec == ShelfInit /\ [][ShelfNext]_<<shelf, revisable>>
================================================================================
