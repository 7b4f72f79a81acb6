------------------------------- MODULE MCHqStore -------------------------------
(* Model-checking instance of HqStore and PostText: two categories, one       *)
(* subject, and a glob that sees the numbers 1 and 2 only; and, by itself,    *)
(* the text of one post.                                                      *)
EXTENDS HqStore, PostText, TLC

CONSTANTS c1, c2, c3

VARIABLE atWork    \* rigid: which of the two; the other stays as it begins

ClientSymmetry == Permutations(Clients)

(* Bullets of up to three segments, in one or two lines; a fragment without  *)
(* a key stands behind keywords or in a summary, and one that looks like a   *)
(* field in a summary only.                                                  *)
Written == {Segment(k, "old") : k \in {"summary", "status", "keywords"}}
              \cup {Fragment("old"), Lookalike("status", "old")}

InSummary(l, i) == \E j \in 1 .. i - 1 : l[j].key = "summary"

Bullets(n) == {l \in [1 .. n -> Written] :
                \A i \in 1 .. n : \/ l[i].key # "" \/ InSummary(l, i)
                                  \/ l[i].label = "old" /\ i > 1 /\ l[i - 1].key = "keywords"}

FewBullets ==
    {<<l>> : l \in UNION {Bullets(n) : n \in 1 .. 3}}
      \cup {<<l, m>> : l \in UNION {Bullets(n) : n \in 1 .. 2}, m \in Bullets(1)}

B == Line("blank")
P == Line("prose")
M == Line("marker")
FewTails ==
    {<<B, P>>, <<B, P, M>>, <<B, P, M, HeadLine("ann", FALSE)>>,
     <<B, P, M, B, HeadLine("bob", TRUE), Line("evidence")>>,
     <<P, Line("evidence"), M, HeadLine("ann", TRUE), Line("evidence"), HeadLine("bob", TRUE), P>>}

(* New bodies: one with what would be a review behind a marker.              *)
FewBodies == {[bullets |-> <<>>, lines |-> l] :
                l \in {<<B, P>>, <<P, HeadLine("bob", TRUE), Line("evidence")>>}}

ASSUME FormAssumption ==
    /\ \A text \in FrontMatters : StatusIsAWord(text) /\ NoLookalikes(text)
    /\ \A t \in Tails : Tidy(t)
    /\ \A b \in Bodies : OnlyBody(b)

(* What the form keeps out.  A part of the keywords that looks like a status *)
(* is overwritten as if it were one.                                         *)
OddKeywords == <<Segment("keywords", "old"), Lookalike("status", "old")>>

ASSUME LookalikeIsOverwritten ==
    LET edited == SetField(<<OddKeywords>>, "status", "new")
    IN  /\ Field(<<OddKeywords>>, "status") = <<>>
        /\ Field(edited, "keywords") # Field(<<OddKeywords>>, "keywords")

(* A body that is the file of another post brings its reviews with it, and   *)
(* one that begins with a list becomes front matter.                         *)
PastedBody == <<B, P, M, HeadLine("bob", TRUE), Line("evidence")>>

ASSUME PastedReviewCounts ==
    Counted(OnDisk(Rewritten(<<B, P>>, Append(PastedBody, M), <<HeadLine("ann", FALSE)>>))) # {}

OldStatus == <<Segment("status", "old")>>

ASSUME ListIsFrontMatter ==
    Field(<<OldStatus>> \o <<<<Segment("status", "new")>>>>, "status") = <<"new">>

SomePost == raw = <<<<Segment("summary", "old")>>>>
SomeTail == tail = <<B, P>>

HqInit ==
    /\ Init /\ TextInit
    /\ \/ atWork = "store" /\ SomePost /\ SomeTail
       \/ atWork = "text" /\ (SomePost \/ SomeTail) /\ git /\ DOMAIN disk = {}

HqNext ==
    /\ UNCHANGED atWork
    /\ \/ atWork = "store" /\ Next /\ UNCHANGED textVars
       \/ atWork = "text" /\ TextNext /\ UNCHANGED vars

HqSpec == HqInit /\ [][HqNext]_<<atWork, vars, textVars>>
================================================================================
