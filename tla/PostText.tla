------------------------------- MODULE PostText -------------------------------
(***************************************************************************)
(* A post as text: post.py reads it, and comment and edit of verbs.py put  *)
(* it back with one thing changed.  The front matter is a list of bullets, *)
(* each a list of segments "key: value"; what follows are the lines of the *)
(* body, then "## Comments" and blocks that begin with a bullet.  The text *)
(* is written by people too, so keys repeat, differ in case and stand      *)
(* behind a summary; what is read back is the meaning of a post.           *)
(***************************************************************************)
EXTENDS Integers, Sequences, FiniteSets, SequencesExt

CONSTANTS
    FrontMatters,     \* front matter and ...
    Tails,            \* ... lines behind it that a post may begin with
    Bodies,           \* what an edit may give as the new body
    Words,            \* what may be a key, what looks like one, or a value
    Authors, Owner,   \* who comments; the author of the post
    MaxCalls

VARIABLES
    raw, tail,
    granted,          \* how many reviews were accepted or were there already
    asked,            \* what the last call was asked to change
    calls

textVars == <<raw, tail, granted, asked, calls>>

(* A segment.  Its key is what stands before ": ", and its label what stands *)
(* before the first ":", or all of it: the reader goes by the one and the    *)
(* writer by the other, both in lower case.  A fragment without ": " has no  *)
(* key, and may have the label of a field, as "status" or "status:x".        *)
Segments == [key : Words, label : Words, val : Words]
Segment(k, v) == [key |-> k, label |-> k, val |-> v]
Fragment(v) == [key |-> "", label |-> v, val |-> ""]
Lookalike(k, v) == [key |-> "", label |-> k, val |-> v]

(* Lines behind the front matter.  A head is a line "- (date, author) ...", *)
(* with a word in brackets behind it or not.                                *)
Plain == {"blank", "prose", "marker", "evidence"}
Line(kind) == [kind |-> kind, author |-> "", bracket |-> FALSE]
HeadLine(a, bracket) == [kind |-> "head", author |-> a, bracket |-> bracket]

(* Whatever else a post begins with, it is lines of these kinds.            *)
Lines == [kind : Plain \cup {"head"}, author : Authors \cup {""}, bracket : BOOLEAN]

(* The bullets that a body begins with are front matter when it is read.    *)
FirstIsNoBullet(t) == t # <<>> => t[1].kind # "head"

ASSUME TextAssumption ==
    /\ FrontMatters \subseteq Seq(Seq(Segments)) /\ Tails \subseteq Seq(Lines)
    /\ Bodies \subseteq [bullets : Seq(Seq(Segments)), lines : Seq(Lines)]
    /\ \A t \in Tails \cup {b.lines : b \in Bodies} : FirstIsNoBullet(t)
    /\ {"summary", "status", "new"} \subseteq Words

------------------------------------------------------------------------------
(* Reading the front matter *)

RestOfLine == {"summary"}

(* parse_bullet_line: behind a summary there are no more keys.              *)
Looked(line) ==
    {i \in DOMAIN line : \A j \in 1 .. i - 1 : line[j].key \notin RestOfLine}

KeysAt(line) == {i \in Looked(line) : line[i].key # ""}

(* A value runs to the next key, a summary to the end of its bullet.        *)
LastOf(line, i) ==
    IF line[i].key \in RestOfLine
    THEN Len(line)
    ELSE CHOOSE j \in i .. Len(line) :
            /\ \A k \in i + 1 .. j : line[k].key = ""
            /\ j < Len(line) => line[j + 1].key # ""

ValueAt(line, i) == <<line[i].val>> \o SubSeq(line, i + 1, LastOf(line, i))

Places(text, k) ==
    UNION {{<<n, i>> : i \in {x \in KeysAt(text[n]) : text[n][x].key = k}} : n \in DOMAIN text}

After(p, q) == p[1] > q[1] \/ (p[1] = q[1] /\ p[2] >= q[2])

(* Of a key that is there twice the last one counts.                        *)
LastPlace(text, k) == CHOOSE p \in Places(text, k) : \A q \in Places(text, k) : After(p, q)

Field(text, k) ==
    IF Places(text, k) = {} THEN <<>>
    ELSE LET p == LastPlace(text, k) IN ValueAt(text[p[1]], p[2])

------------------------------------------------------------------------------
(* Writing it: set_field_in_raw *)

(* It stops, in a line, behind what it takes for a summary.                 *)
Scanned(line) ==
    {i \in DOMAIN line : \A j \in 1 .. i - 1 : line[j].label \notin RestOfLine}

Marks(text, k) ==
    UNION {{<<n, i>> : i \in {x \in Scanned(text[n]) : text[n][x].label = k}} : n \in DOMAIN text}

TargetFirst(text, k) == CHOOSE p \in Marks(text, k) : \A q \in Marks(text, k) : After(q, p)

Target(text, k) == CHOOSE p \in Marks(text, k) : \A q \in Marks(text, k) : After(p, q)

(* The segment is replaced, and for a summary all that is behind it.        *)
Replaced(line, i, k, v) ==
    SubSeq(line, 1, i - 1) \o <<Segment(k, v)>>
        \o IF k \in RestOfLine THEN <<>> ELSE SubSeq(line, i + 1, Len(line))

SetField(text, k, v) ==
    LET p == Target(text, k)
    IN  [text EXCEPT ![p[1]] = Replaced(@, p[2], k, v)]

------------------------------------------------------------------------------
(* Reading and writing what follows: parse_post, serialize_post *)

(* The newline at the end of a file makes an empty last line.               *)
OnDisk(t) == Append(t, Line("blank"))

Marked(t) == \E i \in DOMAIN t : t[i].kind = "marker"

MarkerAt(t) == CHOOSE i \in DOMAIN t : t[i].kind = "marker" /\ \A j \in 1 .. i - 1 : t[j].kind # "marker"

HeadsIn(t) ==
    IF Marked(t) THEN {i \in DOMAIN t : i > MarkerAt(t) /\ t[i].kind = "head"} ELSE {}

FirstHead(t) == CHOOSE i \in HeadsIn(t) : \A j \in HeadsIn(t) : i <= j

(* One blank line before the first comment is kept; what else there is      *)
(* between the marker and it is not.                                        *)
Blocks(t) ==
    IF HeadsIn(t) = {} THEN <<>>
    ELSE (IF t[MarkerAt(t) + 1].kind = "blank" THEN <<Line("blank")>> ELSE <<>>)
            \o SubSeq(t, FirstHead(t), Len(t))

(* A post with a comment has a marker.                                      *)
UpToMarker(t) == IF Marked(t) THEN SubSeq(t, 1, MarkerAt(t)) ELSE Append(t, Line("marker"))

Rewritten(t, front, entry) == front \o Blocks(t) \o entry

(* parse_review and counted_reviews: a bracket, evidence in the block, and  *)
(* somebody else than the author of the post.                               *)
BlockEnd(t, i) ==
    CHOOSE j \in i .. Len(t) :
        /\ \A k \in i + 1 .. j : t[k].kind # "head"
        /\ j < Len(t) => t[j + 1].kind = "head"

Counted(t) ==
    {i \in HeadsIn(t) : /\ t[i].bracket
                        /\ t[i].author # Owner
                        /\ \E k \in i .. BlockEnd(t, i) : t[k].kind = "evidence"}

(* A form of posts in which an edit touches nothing else: no fragment       *)
(* follows a status, none that the reader or the writer looks at only looks *)
(* like a field, and nothing but one blank line stands between the marker   *)
(* and the first comment.  A body, then, is lines without bullets at its    *)
(* beginning and without a marker.                                          *)
Alone(line, i) == i < Len(line) => line[i + 1].key # ""

StatusIsAWord(text) ==
    \A n \in DOMAIN text : \A i \in KeysAt(text[n]) : text[n][i].key = "status" => Alone(text[n], i)

NoLookalikes(text) ==
    \A n \in DOMAIN text : \A i \in Looked(text[n]) \cup Scanned(text[n]) :
        \A k \in {"summary", "status"} : text[n][i].key = k <=> text[n][i].label = k

OnlyBody(b) == b.bullets = <<>> /\ ~Marked(b.lines)

Tidy(t) ==
    Marked(t) =>
        LET M == MarkerAt(t)
        IN  \/ M = Len(t)
            \/ M < Len(t) /\ t[M + 1].kind = "head"
            \/ M + 1 < Len(t) /\ t[M + 1] = Line("blank") /\ t[M + 2].kind = "head"

------------------------------------------------------------------------------
(* The verbs *)

(* _reject_forged_lines, of what stands behind the first line of a text.    *)
ForgeableBullets(lines) == \E i \in DOMAIN lines : lines[i].kind = "head"

Forgeable(lines) == \E i \in DOMAIN lines : lines[i].kind \in {"head", "evidence"}

Continuations == {<<>>, <<Line("prose")>>, <<Line("evidence")>>,
                  <<HeadLine(CHOOSE a \in Authors : a # Owner, TRUE)>>}

Put(front, entry) ==
    /\ calls < MaxCalls /\ calls' = calls + 1
    /\ tail' = Rewritten(OnDisk(tail), front, entry)

PutBehind(entry) == Put(UpToMarker(OnDisk(tail)), entry)

(* comment without an assessment; its text may look like one.               *)
Remark(a, bracket, more) ==
    /\ ~Forgeable(more)
    /\ PutBehind(<<HeadLine(a, bracket)>> \o more)
    /\ asked' = {}
    /\ UNCHANGED <<raw, granted>>

(* comment with one: evidence is required, and the author of the post is    *)
(* refused.                                                                 *)
Review(a, more) ==
    /\ ~Forgeable(more)
    /\ a # Owner
    /\ PutBehind(<<HeadLine(a, TRUE)>> \o more \o <<Line("evidence")>>)
    /\ granted' = granted + 1
    /\ asked' = {}
    /\ UNCHANGED raw

(* edit of a summary, of a status, or of both, with a comment that says so;  *)
(* one that cannot be set refuses the call.                                  *)
Settable(ks, k, text) == k \in ks => Marks(text, k) # {}

WithField(ks, k, text) == IF k \in ks THEN SetField(text, k, "new") ELSE text

EditFields(ks, bullets) ==
    /\ Settable(ks, "summary", raw)
    /\ LET text == WithField(ks, "summary", raw)
       IN  /\ Settable(ks, "status", text)
           /\ raw' = WithField(ks, "status", text) \o bullets

EditKept(ks, a, more) ==
    /\ ~Forgeable(more)
    /\ ks # {}
    /\ EditFields(ks, <<>>)
    /\ PutBehind(<<HeadLine(a, FALSE)>> \o more)
    /\ asked' = ks
    /\ UNCHANGED granted

(* The same with a new body, which nothing looks at.                        *)
EditBody(ks, b, a, more) ==
    /\ ~Forgeable(more)
    /\ EditFields(ks, b.bullets)
    /\ Put(Append(b.lines, Line("marker")), <<HeadLine(a, FALSE)>> \o more)
    /\ asked' = ks \cup {"body"}
    /\ UNCHANGED granted

TextInit ==
    /\ raw \in FrontMatters
    /\ tail \in Tails
    /\ granted = Cardinality(Counted(OnDisk(tail)))
    /\ asked = {}
    /\ calls = 0

TextNext ==
    \E a \in Authors, more \in Continuations :
        \/ \E bracket \in BOOLEAN : Remark(a, bracket, more)
        \/ Review(a, more)
        \/ \E ks \in SUBSET {"summary", "status"} :
               EditKept(ks, a, more) \/ \E b \in Bodies : EditBody(ks, b, a, more)

TextSpec == TextInit /\ [][TextNext]_textVars

------------------------------------------------------------------------------
KeysOf(text) == {s.key : s \in UNION {Range(l) : l \in Range(text)}}

CommentsOf(t) == IF Marked(t) THEN SubSeq(t, MarkerAt(t) + 1, Len(t)) ELSE <<>>

BodyIs(t, b) == IsPrefix(Append(b.lines, Line("marker")), t)

(* "Every other line, and every other segment of that line, is left": who   *)
(* reads the post after an edit finds the new values of what was asked for, *)
(* everything else in the front matter as it was, and every line that stood *)
(* behind it, or with a new body that one and every comment, others being   *)
(* appended only.                                                           *)
EditsKeepTheRest ==
    [][/\ \A j \in KeysOf(raw) \cup KeysOf(raw') :
             Field(raw', j) = IF j \in asked' \cap {"summary", "status"} THEN <<"new">> ELSE Field(raw, j)
       /\ "body" \notin asked' => IsPrefix(tail, tail')
       /\ "body" \in asked' => /\ \E b \in Bodies : BodyIs(tail', b)
                               /\ IsPrefix(CommentsOf(tail), CommentsOf(tail'))]_textVars

(* Of the reviews a reader counts each was asked for as a review, and each  *)
(* that was accepted as one is counted.                                     *)
ReviewsAreEarned == Cardinality(Counted(OnDisk(tail))) = granted
================================================================================
