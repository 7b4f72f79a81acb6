--------------------------- MODULE WikiConvertProofs ---------------------------
(* What the conversion of a wiki never does to a page, for any wiki, any     *)
(* number of batches and reruns, and crashes at any point.                   *)
EXTENDS WikiConvert, TLAPS

Post == [subject : Subjects, from : Pages, harness : Harnesses]

WikiShape ==
    /\ arrived \subseteq Pages /\ DOMAIN wiki \subseteq arrived
    /\ posts \in Seq(Post)
    /\ drops \subseteq Meta /\ stamp \in Harnesses
    /\ DOMAIN entries \subseteq Pages
    /\ \A p \in DOMAIN entries : entries[p] \in Subjects \cup {NoSubject}
    /\ pc \in Locations
    /\ todo \subseteq DOMAIN entries /\ (pc = "idle" => todo = {})

(* The stamp of a plan is right for every page in it. *)
StampFits == stamp = Told \/ \A p \in DOMAIN entries : Origin[p] = stamp

(* While apply runs its plan is finished and free of collisions, and it has  *)
(* the posts by subject.                                                     *)
PlanIsReady ==
    pc # "idle" =>
        /\ hasPlan
        /\ \A p \in DOMAIN entries : entries[p] # NoSubject /\ ~Colliding(p)

KnowsPosts ==
    pc = "convert" =>
        /\ DOMAIN known = Posted
        /\ \A s \in DOMAIN known : known[s] \in DOMAIN posts /\ posts[known[s]].subject = s

(* A page that has a post is planned under the subject of its post, or is    *)
(* still to be filled in.                                                   *)
OwnSubjects ==
    \A i \in DOMAIN posts, p \in DOMAIN entries :
        posts[i].from = p => entries[p] \in {NoSubject, posts[i].subject}

(* An entry with the subject of a post is the page of that post.             *)
SubjectsAreTheirs ==
    \A i \in DOMAIN posts, p \in DOMAIN entries :
        entries[p] = posts[i].subject => posts[i].from = p

(* What is going to be removed is paired with its post. *)
PairsHavePosts ==
    \A p \in DOMAIN pairs : pairs[p] \in DOMAIN posts /\ posts[pairs[p]].from = p

(* A page whose path no other page goes by is never ambiguous, is in the map *)
(* before it is removed, and the map leads to its post.                      *)
OwnPath(p) == \A q \in Pages \ {p} : Path[p] \notin Keys(q)

MapKnows(p) ==
    /\ Path[p] \notin ambiguous
    /\ Path[p] \in DOMAIN map =>
          map[Path[p]] \in DOMAIN posts /\ posts[map[Path[p]]].from = p
    /\ pc \in {"remove", "unlink"} /\ p \in DOMAIN pairs => hasMap /\ Path[p] \in DOMAIN map

MapInv == \A p \in Pages : OwnPath(p) => MapKnows(p)

WikiInv == WikiShape /\ PlanIsReady /\ KnowsPosts

OneInv == OwnSubjects /\ OnePostEach

KeptInv == SubjectsAreTheirs /\ PairsHavePosts /\ NoPageLost

(* What a post more does to the posts. *)
LEMMA OnePostMore ==
  ASSUME NEW S, NEW q \in Seq(S), NEW x \in S, NEW r, r = Append(q, x)
  PROVE  /\ r \in Seq(S)
         /\ DOMAIN r = DOMAIN q \cup {Len(q) + 1} /\ Len(q) + 1 \notin DOMAIN q
         /\ r[Len(q) + 1] = x /\ \A i \in DOMAIN q : r[i] = q[i]
  OBVIOUS

(* Nothing is converted yet. *)
LEMMA InvAtInit == Init => WikiInv /\ OneInv /\ KeptInv /\ StampFits /\ StampedByOrigin
  BY WikiAssumption
     DEF Init, WikiInv, OneInv, KeptInv, OwnSubjects, WikiShape, PlanIsReady,
         KnowsPosts, SubjectsAreTheirs, PairsHavePosts,
         NoPageLost, OnePostEach, StampFits, StampedByOrigin, Empty, Harnesses, Locations,
         Gone, Post

(* Every step keeps the shape of the state. *)
LEMMA ShapeKept == WikiShape /\ PlanIsReady /\ [Next]_vars => WikiShape'
<1> SUFFICES ASSUME WikiShape, PlanIsReady, [Next]_vars PROVE WikiShape'
  OBVIOUS
<1> USE WikiAssumption DEF WikiShape
<1>1. CASE Start
  BY <1>1 DEF Start, SetOff, planVars, mapVars, Locations
<1>2. CASE Skip
  BY <1>2 DEF Skip, planVars, mapVars, Locations
<1>3. CASE Mint
  <2>1. PICK p \in todo :
          /\ posts' = IF p \in DOMAIN wiki
                      THEN Append(posts, [subject |-> entries[p], from |-> p, harness |-> stamp])
                      ELSE posts
          /\ Leave \/ (todo' = todo \ {p} /\ UNCHANGED pc)
          /\ UNCHANGED <<wiki, arrived, planVars>>
          /\ pc = "convert"
    BY <1>3 DEF Mint
  <2>2. [subject |-> entries[p], from |-> p, harness |-> stamp] \in Post
    BY <2>1 DEF Post, PlanIsReady
  <2>3. posts' \in Seq(Post)
    BY <2>1, <2>2
  <2> QED
    BY <2>1, <2>3 DEF Leave, planVars, Locations
<1>4. CASE WriteMap
  BY <1>4 DEF WriteMap, WriteMapOver, Leave, planVars, Locations
<1>5. CASE GitRm \/ Unlink
  BY <1>5 DEF GitRm, Unlink, Without, Removed, Leave, planVars, runVars, Locations
<1>6. CASE Plan
  BY <1>6 DEF Plan, runVars
<1>7. ASSUME NEW p \in Pages, Judge(p) PROVE WikiShape'
  BY <1>7 DEF Judge, runVars
<1>8. CASE Dismiss \/ GitCommit
  BY <1>8 DEF Dismiss, GitCommit, runVars, planVars
<1>9. ASSUME NEW p \in Pages, Arrive(p) PROVE WikiShape'
  BY <1>9 DEF Arrive, runVars, planVars
<1>10. CASE Crash \/ UNCHANGED vars
  BY <1>10 DEF Crash, Leave, vars, runVars, planVars, Locations
<1> QED
  BY <1>1, <1>2, <1>3, <1>4, <1>5, <1>6, <1>7, <1>8, <1>9, <1>10 DEF Next, RunStep, Chores

(* Every step keeps what apply relies on about its plan: people leave the    *)
(* plan alone while it runs.                                                 *)
LEMMA PlanKept == PlanIsReady /\ [Next]_vars => PlanIsReady'
<1> SUFFICES ASSUME PlanIsReady, [Next]_vars PROVE PlanIsReady'
  OBVIOUS
<1> USE DEF PlanIsReady, Colliding
<1>1. CASE Start
  BY <1>1 DEF Start, SetOff, Refuses, Unfinished, planVars
<1>2. CASE RunStep \/ Crash
  BY <1>2 DEF RunStep, Skip, Mint, WriteMap, WriteMapOver, GitRm, Unlink, Crash, Leave,
              planVars, runVars
<1>3. CASE Chores \/ \E p \in Pages : Arrive(p)
  BY <1>3 DEF Chores, Plan, Judge, Dismiss, GitCommit, Arrive, runVars
<1>4. CASE UNCHANGED vars
  BY <1>4 DEF vars, runVars, planVars
<1> QED
  BY <1>1, <1>2, <1>3, <1>4 DEF Next

(* What Mint does, with its page named. *)
LEMMA MintOne ==
  ASSUME Mint, WikiShape, PlanIsReady
  PROVE  \E p \in todo :
           /\ pc = "convert" /\ entries[p] \notin DOMAIN known
           /\ p \in DOMAIN wiki => posts' = Append(posts, [subject |-> entries[p], from |-> p,
                                                             harness |-> stamp])
           /\ p \notin DOMAIN wiki => posts' = posts /\ Leave
           /\ \/ Leave
              \/ /\ pairs' = [q \in DOMAIN pairs \cup {p} |->
                                IF q = p THEN Len(posts) + 1 ELSE pairs[q]]
                 /\ known' = [t \in DOMAIN known \cup {entries[p]} |->
                                IF t = entries[p] THEN Len(posts) + 1 ELSE known[t]]
                 /\ p \in DOMAIN wiki /\ UNCHANGED pc
           /\ UNCHANGED <<wiki, arrived, planVars>>
           /\ [subject |-> entries[p], from |-> p, harness |-> stamp] \in Post
<1>1. PICK p \in todo : Mint!(p)
  BY DEF Mint
<1>2. [subject |-> entries[p], from |-> p, harness |-> stamp] \in Post
  BY <1>1 DEF Post, PlanIsReady, WikiShape
<1> QED
  BY <1>1, <1>2 DEF Paired

(* Outside Start and Mint, the posts stay as they are, and known stays or is *)
(* dropped.                                                                  *)
LEMMA PostsStay ==
  ASSUME \/ Skip \/ WriteMap \/ GitRm \/ Unlink \/ Chores
         \/ (\E p \in Pages : Arrive(p)) \/ Crash \/ UNCHANGED vars
  PROVE  posts' = posts /\ (pc' = "convert" => pc = "convert" /\ known' = known)
<1>1. CASE Skip \/ WriteMap \/ GitRm \/ Unlink \/ Crash \/ UNCHANGED vars
  BY <1>1 DEF Skip, WriteMap, WriteMapOver, GitRm, Unlink, Crash, Leave, vars, runVars
<1>2. CASE Chores \/ \E p \in Pages : Arrive(p)
  BY <1>2 DEF Chores, Plan, Judge, Dismiss, GitCommit, Arrive, runVars
<1> QED
  BY <1>1, <1>2

(* While it converts, apply knows every post by its subject.                 *)
LEMMA KnownKept == WikiShape /\ PlanIsReady /\ KnowsPosts /\ [Next]_vars => KnowsPosts'
<1> SUFFICES ASSUME WikiShape, PlanIsReady, KnowsPosts, [Next]_vars PROVE KnowsPosts'
  OBVIOUS
<1> USE DEF KnowsPosts
<1>1. CASE Start
  BY <1>1 DEF Start, SetOff, Posted
<1>2. CASE Mint
  <2>1. PICK p \in todo :
          /\ pc = "convert" /\ entries[p] \notin DOMAIN known
          /\ p \in DOMAIN wiki => posts' = Append(posts, [subject |-> entries[p], from |-> p,
                                                            harness |-> stamp])
          /\ p \notin DOMAIN wiki => posts' = posts /\ Leave
          /\ \/ Leave
             \/ /\ DOMAIN pairs' = DOMAIN pairs \cup {p}
                /\ known' = [t \in DOMAIN known \cup {entries[p]} |->
                               IF t = entries[p] THEN Len(posts) + 1 ELSE known[t]]
                /\ p \in DOMAIN wiki /\ UNCHANGED pc
          /\ [subject |-> entries[p], from |-> p, harness |-> stamp] \in Post
    BY <1>2, MintOne
  <2>2. CASE Leave
    BY <2>2 DEF Leave
  <2>3. CASE ~Leave
    <3> DEFINE x == [subject |-> entries[p], from |-> p, harness |-> stamp]
    <3>1. posts' = Append(posts, x)
      BY <2>1, <2>3
    <3>2. /\ DOMAIN posts' = DOMAIN posts \cup {Len(posts) + 1}
          /\ posts'[Len(posts) + 1] = x /\ \A i \in DOMAIN posts : posts'[i] = posts[i]
      <4> HIDE DEF x
      <4>1. x \in Post
        BY <2>1 DEF x
      <4> QED
        BY <3>1, <4>1, OnePostMore DEF WikiShape
    <3>3. x.subject = entries[p]
      OBVIOUS
    <3>4. /\ DOMAIN known' = DOMAIN known \cup {entries[p]}
          /\ known'[entries[p]] = Len(posts) + 1
          /\ \A t \in DOMAIN known : known'[t] = known[t]
      BY <2>1, <2>3
    <3> HIDE DEF x
    <3>5. Posted' = Posted \cup {entries[p]}
      BY <3>2, <3>3, <2>1 DEF Posted
    <3>6. ASSUME NEW s \in DOMAIN known'
          PROVE  known'[s] \in DOMAIN posts' /\ posts'[known'[s]].subject = s
      BY <2>1, <3>2, <3>3, <3>4
    <3> QED
      BY <2>1, <3>4, <3>5, <3>6
  <2> QED
    BY <2>2, <2>3
<1>3. CASE \/ Skip \/ WriteMap \/ GitRm \/ Unlink \/ Chores
           \/ (\E p \in Pages : Arrive(p)) \/ Crash \/ UNCHANGED vars
  <2>1. posts' = posts /\ (pc' = "convert" => pc = "convert" /\ known' = known)
    BY <1>3, PostsStay
  <2> QED
    BY <2>1 DEF Posted
<1> QED
  BY <1>1, <1>2, <1>3 DEF Next, RunStep

(* Posts are only added, by Mint, for a page of the wiki whose subject has   *)
(* none.                                                                     *)
LEMMA PostsGrow ==
  ASSUME WikiShape, PlanIsReady, KnowsPosts, [Next]_vars
  PROVE  \/ posts' = posts
         \/ \E p \in DOMAIN wiki \cap DOMAIN entries :
              /\ entries[p] \notin Posted
              /\ posts' = Append(posts, [subject |-> entries[p], from |-> p, harness |-> stamp])
              /\ [subject |-> entries[p], from |-> p, harness |-> stamp] \in Post
<1>1. CASE Mint
  BY <1>1, MintOne DEF WikiShape, KnowsPosts
<1>2. CASE Start
  BY <1>2 DEF Start, SetOff
<1>3. CASE \/ Skip \/ WriteMap \/ GitRm \/ Unlink \/ Chores
           \/ (\E p \in Pages : Arrive(p)) \/ Crash \/ UNCHANGED vars
  BY <1>3, PostsStay
<1> QED
  BY <1>1, <1>2, <1>3 DEF Next, RunStep

(* The posts of a state, numbers and pages alike, are those of the next.     *)
LEMMA PostsLast ==
  ASSUME WikiShape, PlanIsReady, KnowsPosts, [Next]_vars
  PROVE  /\ DOMAIN posts \subseteq DOMAIN posts'
         /\ \A i \in DOMAIN posts : posts'[i] = posts[i]
<1>1. CASE posts' = posts
  BY <1>1
<1>2. CASE posts' # posts
  <2>1. PICK p \in DOMAIN wiki \cap DOMAIN entries :
          /\ posts' = Append(posts, [subject |-> entries[p], from |-> p, harness |-> stamp])
          /\ [subject |-> entries[p], from |-> p, harness |-> stamp] \in Post
    BY <1>2, PostsGrow
  <2> DEFINE x == [subject |-> entries[p], from |-> p, harness |-> stamp]
  <2>2. posts' = Append(posts, x) /\ x \in Post
    BY <2>1
  <2> HIDE DEF x
  <2> QED
    BY <2>2, OnePostMore DEF WikiShape
<1> QED
  BY <1>1, <1>2

(* Where the plan changes no post comes, and where posts come the plan stays. *)
LEMMA PlanOrPost ==
  ASSUME WikiShape, PlanIsReady, KnowsPosts, [Next]_vars
  PROVE  \/ /\ posts' = posts /\ wiki' = wiki /\ arrived' = arrived
            /\ Plan \/ \E p \in Pages : Judge(p)
         \/ /\ posts' = posts /\ UNCHANGED <<entries, hasPlan>>
            /\ arrived \subseteq arrived'
            /\ DOMAIN wiki' \subseteq DOMAIN wiki \cup (Pages \ arrived)
         \/ /\ UNCHANGED <<entries, hasPlan, wiki, arrived>> /\ pc # "idle"
            /\ \E p \in DOMAIN wiki \cap DOMAIN entries, x \in Post :
                  /\ x.subject = entries[p] /\ x.from = p
                  /\ entries[p] \notin Posted
                  /\ DOMAIN posts' = DOMAIN posts \cup {Len(posts) + 1}
                  /\ posts'[Len(posts) + 1] = x /\ \A i \in DOMAIN posts : posts'[i] = posts[i]
<1>1. CASE Mint /\ posts' # posts
  <2>1. PICK p \in DOMAIN wiki \cap DOMAIN entries :
          /\ entries[p] \notin Posted
          /\ posts' = Append(posts, [subject |-> entries[p], from |-> p, harness |-> stamp])
          /\ [subject |-> entries[p], from |-> p, harness |-> stamp] \in Post
    BY <1>1, PostsGrow
  <2> DEFINE x == [subject |-> entries[p], from |-> p, harness |-> stamp]
  <2>2. posts' = Append(posts, x) /\ x \in Post /\ x.subject = entries[p] /\ x.from = p
    BY <2>1
  <2> HIDE DEF x
  <2>3. /\ DOMAIN posts' = DOMAIN posts \cup {Len(posts) + 1}
        /\ posts'[Len(posts) + 1] = x /\ \A i \in DOMAIN posts : posts'[i] = posts[i]
    BY <2>2, OnePostMore DEF WikiShape
  <2>4. UNCHANGED <<entries, hasPlan, wiki, arrived>> /\ pc # "idle"
    BY <1>1 DEF Mint, planVars
  <2> QED
    BY <2>1, <2>2, <2>3, <2>4
<1>2. CASE Mint /\ posts' = posts
  BY <1>2 DEF Mint, planVars
<1>3. CASE Plan \/ \E p \in Pages : Judge(p)
  BY <1>3 DEF Plan, Judge
<1>4. CASE \E p \in Pages : Arrive(p)
  BY <1>4 DEF Arrive, planVars
<1>5. CASE \/ Start \/ Skip \/ WriteMap \/ GitRm \/ Unlink \/ Dismiss \/ GitCommit
           \/ Crash \/ UNCHANGED vars
  BY <1>5 DEF Start, SetOff, Skip, WriteMap, WriteMapOver, GitRm, Unlink, Without, Dismiss,
              GitCommit, Crash, vars, planVars
<1> QED
  BY <1>1, <1>2, <1>3, <1>4, <1>5 DEF Next, RunStep, Chores

(* Readers give a page that has a post no other subject.                     *)
LEMMA OwnSubjectsKept ==
  ASSUME NoRenaming, WikiShape, PlanIsReady, KnowsPosts, OwnSubjects, [Next]_vars
  PROVE  OwnSubjects'
<1> USE DEF OwnSubjects
<1>1. CASE Plan
  BY <1>1 DEF Plan
<1>2. ASSUME NEW p \in Pages, Judge(p) PROVE OwnSubjects'
  <2>1. PICK s \in MayFile[p] :
          /\ entries' = [entries EXCEPT ![p] = s]
          /\ \A i \in DOMAIN posts : posts[i].from = p => posts[i].subject = s
    BY <1>2 DEF Judge
  <2>2. p \in DOMAIN entries /\ posts' = posts
    BY <1>2 DEF Judge
  <2> QED
    BY <2>1, <2>2
<1>3. CASE posts' = posts /\ entries' = entries
  BY <1>3
<1>4. CASE UNCHANGED <<entries, hasPlan, wiki, arrived>> /\ pc # "idle" /\ posts' # posts
  <2>1. PICK p \in DOMAIN wiki \cap DOMAIN entries, x \in Post :
          /\ x.subject = entries[p] /\ x.from = p
          /\ DOMAIN posts' = DOMAIN posts \cup {Len(posts) + 1}
          /\ posts'[Len(posts) + 1] = x /\ \A i \in DOMAIN posts : posts'[i] = posts[i]
    BY <1>4, PlanOrPost DEF Plan, Judge
  <2> QED
    BY <1>4, <2>1
<1> QED
  BY <1>1, <1>2, <1>3, <1>4, PlanOrPost

(* Readers give no page the subject of another's post.                       *)
LEMMA SubjectsKept ==
  ASSUME NoReuse, WikiShape, PlanIsReady, KnowsPosts, SubjectsAreTheirs, [Next]_vars
  PROVE  SubjectsAreTheirs'
<1> USE DEF SubjectsAreTheirs
<1>1. CASE Plan
  <2>1. posts' = posts /\ \A p \in DOMAIN entries' : entries'[p] = NoSubject
    BY <1>1 DEF Plan
  <2>2. \A i \in DOMAIN posts : posts[i] \in Post
    BY DEF WikiShape
  <2>3. \A i \in DOMAIN posts : posts[i].subject # NoSubject
    BY <2>2, WikiAssumption DEF Post
  <2> QED
    BY <2>1, <2>3
<1>2. ASSUME NEW p \in Pages, Judge(p) PROVE SubjectsAreTheirs'
  <2>1. PICK s \in MayFile[p] :
          /\ entries' = [entries EXCEPT ![p] = s]
          /\ \A i \in DOMAIN posts : posts[i].subject = s => posts[i].from = p
    BY <1>2 DEF Judge
  <2>2. p \in DOMAIN entries /\ posts' = posts
    BY <1>2 DEF Judge
  <2> QED
    BY <2>1, <2>2
<1>3. CASE posts' = posts /\ entries' = entries
  BY <1>3
<1>4. CASE UNCHANGED <<entries, hasPlan, wiki, arrived>> /\ pc # "idle" /\ posts' # posts
  <2>1. PICK p \in DOMAIN wiki \cap DOMAIN entries, x \in Post :
          /\ x.subject = entries[p] /\ x.from = p
          /\ DOMAIN posts' = DOMAIN posts \cup {Len(posts) + 1}
          /\ posts'[Len(posts) + 1] = x /\ \A i \in DOMAIN posts : posts'[i] = posts[i]
    BY <1>4, PlanOrPost DEF Plan, Judge
  <2> QED
    BY <1>4, <2>1 DEF PlanIsReady, Colliding
<1> QED
  BY <1>1, <1>2, <1>3, <1>4, PlanOrPost

(* What apply pairs with a post came from there.                             *)
LEMMA PairsKept ==
  ASSUME WikiShape, PlanIsReady, KnowsPosts, SubjectsAreTheirs, PairsHavePosts, [Next]_vars
  PROVE  PairsHavePosts'
<1> USE DEF PairsHavePosts
<1>1. CASE Mint
  <2>1. PICK p \in todo :
          /\ p \in DOMAIN wiki => posts' = Append(posts, [subject |-> entries[p], from |-> p,
                                                            harness |-> stamp])
          /\ \/ Leave
             \/ /\ pairs' = [q \in DOMAIN pairs \cup {p} |->
                               IF q = p THEN Len(posts) + 1 ELSE pairs[q]]
                /\ p \in DOMAIN wiki
          /\ [subject |-> entries[p], from |-> p, harness |-> stamp] \in Post
    BY <1>1, MintOne
  <2>2. CASE Leave
    BY <2>2 DEF Leave, Empty
  <2>3. CASE ~Leave
    <3> DEFINE x == [subject |-> entries[p], from |-> p, harness |-> stamp]
    <3>1. posts' = Append(posts, x) /\ x \in Post /\ x.from = p
      BY <2>1, <2>3
    <3> HIDE DEF x
    <3>2. /\ DOMAIN posts' = DOMAIN posts \cup {Len(posts) + 1}
          /\ posts'[Len(posts) + 1] = x /\ \A i \in DOMAIN posts : posts'[i] = posts[i]
      BY <3>1, OnePostMore DEF WikiShape
    <3> QED
      BY <2>1, <2>3, <3>1, <3>2
  <2> QED
    BY <2>2, <2>3
<1>2. CASE Skip
  <2>1. PICK p \in todo : Skip!(p)
    BY <1>2 DEF Skip
  <2>2. /\ pairs' = [q \in DOMAIN pairs \cup {p} |-> IF q = p THEN known[entries[p]] ELSE pairs[q]]
        /\ posts' = posts
    BY <2>1 DEF Paired
  <2>3. known[entries[p]] \in DOMAIN posts /\ posts[known[entries[p]]].from = p
    BY <2>1 DEF KnowsPosts, SubjectsAreTheirs, WikiShape
  <2> QED
    BY <2>2, <2>3
<1>3. CASE Start
  BY <1>3 DEF Start, SetOff, Empty
<1>4. CASE WriteMap \/ GitRm \/ Unlink \/ Crash
  BY <1>4 DEF WriteMap, WriteMapOver, GitRm, Unlink, Crash, Leave, Empty, runVars
<1>5. CASE Chores \/ (\E p \in Pages : Arrive(p)) \/ UNCHANGED vars
  BY <1>5 DEF Chores, Plan, Judge, Dismiss, GitCommit, Arrive, vars, runVars
<1> QED
  BY <1>1, <1>2, <1>3, <1>4, <1>5 DEF Next, RunStep

(* Only pages with a post, and dropped ones, are removed.                    *)
LEMMA LossKept ==
  ASSUME WikiShape, PlanIsReady, KnowsPosts, PairsHavePosts, NoPageLost, [Next]_vars
  PROVE  NoPageLost'
<1>1. Gone' \subseteq Gone \cup DOMAIN pairs
  <2>1. CASE GitRm
    BY <2>1 DEF GitRm, Without, Removed, Gone, WikiShape
  <2>2. CASE Unlink
    BY <2>2 DEF Unlink, Without, Removed, Gone, WikiShape
  <2>3. CASE Start \/ Skip \/ Mint \/ WriteMap \/ Crash \/ UNCHANGED vars
    BY <2>3 DEF Start, SetOff, Skip, Mint, WriteMap, WriteMapOver, Crash, vars, Gone
  <2>4. CASE Chores \/ \E p \in Pages : Arrive(p)
    BY <2>4 DEF Chores, Plan, Judge, Dismiss, GitCommit, Arrive, Gone
  <2> QED
    BY <2>1, <2>2, <2>3, <2>4 DEF Next, RunStep
<1> QED
  BY <1>1, PostsLast DEF NoPageLost, PairsHavePosts

(* A page is minted when its subject has no post; then it has none.          *)
LEMMA OneKept ==
  ASSUME WikiShape, PlanIsReady, KnowsPosts, OwnSubjects, OnePostEach, [Next]_vars
  PROVE  OnePostEach'
<1>1. CASE posts' = posts
  BY <1>1 DEF OnePostEach
<1>2. CASE posts' # posts
  <2>1. PICK p \in DOMAIN wiki \cap DOMAIN entries, x \in Post :
          /\ x.from = p /\ entries[p] \notin Posted /\ pc # "idle"
          /\ DOMAIN posts' = DOMAIN posts \cup {Len(posts) + 1}
          /\ posts'[Len(posts) + 1] = x /\ \A i \in DOMAIN posts : posts'[i] = posts[i]
    BY <1>2, PlanOrPost DEF Plan, Judge
  <2>2. \A i \in DOMAIN posts : posts[i].from # p
    BY <2>1 DEF OwnSubjects, Posted, PlanIsReady
  <2> QED
    BY <2>1, <2>2 DEF OnePostEach
<1> QED
  BY <1>1, <1>2

(* The stamp goes with the plan, and the plan has no page it was not made    *)
(* for: what arrives later waits for the next plan.                          *)
LEMMA StampKept ==
  ASSUME WikiShape, PlanIsReady, KnowsPosts, StampFits, StampedByOrigin, [Next]_vars
  PROVE  StampFits' /\ StampedByOrigin'
<1>1. StampFits'
  <2> USE DEF StampFits
  <2>1. CASE Plan
    BY <2>1 DEF Plan, Stamp, Ledger, WikiShape
  <2>2. ASSUME NEW p \in Pages, Judge(p) PROVE StampFits'
    BY <2>2 DEF Judge
  <2>3. CASE Start \/ RunStep \/ Crash
    BY <2>3 DEF Start, SetOff, RunStep, Skip, Mint, WriteMap, WriteMapOver, GitRm, Unlink,
                Crash, planVars
  <2>4. CASE Dismiss \/ GitCommit \/ (\E p \in Pages : Arrive(p)) \/ UNCHANGED vars
    BY <2>4 DEF Dismiss, GitCommit, Arrive, vars, planVars
  <2> QED
    BY <2>1, <2>2, <2>3, <2>4 DEF Next, Chores
<1>2. StampedByOrigin'
  <2>1. CASE posts' = posts
    BY <2>1 DEF StampedByOrigin
  <2>2. CASE posts' # posts
    <3>1. PICK p \in DOMAIN wiki \cap DOMAIN entries :
            /\ posts' = Append(posts, [subject |-> entries[p], from |-> p, harness |-> stamp])
            /\ [subject |-> entries[p], from |-> p, harness |-> stamp] \in Post
      BY <2>2, PostsGrow
    <3> DEFINE x == [subject |-> entries[p], from |-> p, harness |-> stamp]
    <3>2. posts' = Append(posts, x) /\ x \in Post /\ x.harness \in {Origin[x.from], Told}
      BY <3>1 DEF StampFits
    <3> HIDE DEF x
    <3>3. /\ DOMAIN posts' = DOMAIN posts \cup {Len(posts) + 1}
          /\ posts'[Len(posts) + 1] = x /\ \A i \in DOMAIN posts : posts'[i] = posts[i]
      BY <3>2, OnePostMore DEF WikiShape
    <3> QED
      BY <3>2, <3>3 DEF StampedByOrigin
  <2> QED
    BY <2>1, <2>2
<1> QED
  BY <1>1, <1>2

(* A post bears the harness its page came from or what somebody said, also   *)
(* with readers who reuse a subject: resolve_harness stamps a plan only when *)
(* all stores that were moved in agree.                                      *)
THEOREM StampsAreRight == Spec => []StampedByOrigin
<1> DEFINE Inv == WikiShape /\ PlanIsReady /\ KnowsPosts /\ StampFits /\ StampedByOrigin
<1>1. Init => Inv
  BY InvAtInit DEF WikiInv
<1>2. Inv /\ [Next]_vars => Inv'
  BY ShapeKept, PlanKept, KnownKept, StampKept
<1> QED
  BY <1>1, <1>2, PTL DEF Spec

(* The invariant of the conversion, whatever readers choose.                 *)
LEMMA WikiInvKept == WikiInv /\ [Next]_vars => WikiInv'
  BY ShapeKept, PlanKept, KnownKept DEF WikiInv

THEOREM WikiInvHolds == Spec => []WikiInv
<1>1. Init => WikiInv
  BY InvAtInit
<1> QED
  BY <1>1, WikiInvKept, PTL DEF Spec

(* A rerun, also of a run that was cut short or with a new plan, mints no    *)
(* second copy of a page whose readers stay with its subject.               *)
THEOREM NoPageTwice ==
  ASSUME NoRenaming
  PROVE  Spec => []OnePostEach
<1> DEFINE Inv == WikiInv /\ OneInv
<1>1. Init => Inv
  BY InvAtInit
<1>2. Inv /\ [Next]_vars => Inv'
  BY WikiInvKept, OwnSubjectsKept, OneKept DEF WikiInv, OneInv
<1>3. Inv => OnePostEach
  BY DEF OneInv
<1> QED
  BY <1>1, <1>2, <1>3, PTL DEF Spec

(* "A page removed without a post is the one outcome this tool exists to     *)
(* make impossible": whatever crashed and however often pages were planned    *)
(* and applied, of a page that is gone there is a post, if readers give no   *)
(* page the subject of another page's post.                                  *)
THEOREM PagesAreKept ==
  ASSUME NoReuse
  PROVE  Spec => []NoPageLost
<1> DEFINE Inv == WikiInv /\ KeptInv
<1>1. Init => Inv
  BY InvAtInit
<1>2. Inv /\ [Next]_vars => Inv'
  <2>1. WikiInv /\ [Next]_vars => WikiInv'
    BY WikiInvKept
  <2>2. Inv /\ [Next]_vars => KeptInv'
    BY SubjectsKept, PairsKept, LossKept DEF WikiInv, KeptInv
  <2> QED
    BY <2>1, <2>2
<1>3. Inv => NoPageLost
  BY DEF KeptInv
<1> QED
  BY <1>1, <1>2, <1>3, PTL DEF Spec

------------------------------------------------------------------------------
(* Of a page with a path of its own, one run claims at most its own post.    *)
LEMMA OwnClaim ==
  ASSUME NEW p \in Pages, OwnPath(p), DOMAIN pairs \subseteq Pages
  PROVE  /\ Path[p] \in Claimed <=> p \in DOMAIN pairs
         /\ p \in DOMAIN pairs => Claims(Path[p]) = {pairs[p]}
         /\ Path[p] \notin Disputed
<1>1. \A q \in DOMAIN pairs : Path[p] \in Keys(q) <=> q = p
  BY DEF OwnPath, Keys
<1>2. Path[p] \in Claimed <=> p \in DOMAIN pairs
  BY <1>1 DEF Claimed
<1>3. p \in DOMAIN pairs => Claims(Path[p]) = {pairs[p]}
  BY <1>1 DEF Claims
<1> QED
  BY <1>2, <1>3 DEF Disputed

(* write_idmap keeps what is right and adds the pairs of the run.            *)
LEMMA MapWritten ==
  ASSUME WikiShape, PairsHavePosts, MapInv, WriteMap, NEW p \in Pages, OwnPath(p)
  PROVE  MapKnows(p)'
<1>1. DOMAIN pairs \subseteq Pages
  <2>1. \A i \in DOMAIN posts : posts[i] \in Post
    BY DEF WikiShape
  <2> QED
    BY <2>1 DEF PairsHavePosts, Post
<1>2. MapKnows(p)
  BY DEF MapInv
<1>3. /\ hasMap' = TRUE /\ posts' = posts
      /\ ambiguous' = ambiguous \cup Disputed
      /\ map' = [k \in (DOMAIN map \cup Claimed) \ ambiguous' |->
                   IF k \in Claimed THEN CHOOSE id \in Claims(k) : TRUE ELSE map[k]]
      /\ \/ pairs' = pairs
         \/ DOMAIN pairs' = {} /\ pc' = "idle"
  BY DEF WriteMap, WriteMapOver, Leave, Empty
<1>4. Path[p] \notin ambiguous'
  BY <1>1, <1>2, <1>3, OwnClaim DEF MapKnows
<1>5. CASE p \in DOMAIN pairs
  <2>1. Path[p] \in Claimed /\ Claims(Path[p]) = {pairs[p]}
    BY <1>1, <1>5, OwnClaim
  <2>2. Path[p] \in DOMAIN map' /\ map'[Path[p]] = pairs[p]
    BY <1>3, <1>4, <2>1
  <2> QED
    BY <1>3, <1>4, <1>5, <2>2 DEF MapKnows, PairsHavePosts
<1>6. CASE p \notin DOMAIN pairs
  <2>1. Path[p] \notin Claimed
    BY <1>1, <1>6, OwnClaim
  <2>2. /\ Path[p] \in DOMAIN map' <=> Path[p] \in DOMAIN map
        /\ Path[p] \in DOMAIN map => map'[Path[p]] = map[Path[p]]
    BY <1>3, <1>4, <2>1
  <2>3. p \notin DOMAIN pairs'
    BY <1>3, <1>6
  <2> QED
    BY <1>2, <1>3, <1>4, <2>2, <2>3 DEF MapKnows
<1> QED
  BY <1>5, <1>6

(* No other step touches the map, and pages are paired before it is written. *)
LEMMA MapKept ==
  ASSUME WikiShape, PlanIsReady, KnowsPosts, PairsHavePosts, MapInv, [Next]_vars
  PROVE  MapInv'
<1> SUFFICES ASSUME NEW p \in Pages, OwnPath(p) PROVE MapKnows(p)'
  BY DEF MapInv, OwnPath, Keys
<1>1. CASE WriteMap
  BY <1>1, MapWritten
<1>2. CASE ~WriteMap
  <2>1. UNCHANGED mapVars
    BY <1>2 DEF Next, Start, SetOff, RunStep, Skip, Mint, GitRm, Unlink, Crash, Chores, Plan,
                Judge, Dismiss, GitCommit, Arrive, vars
  <2>2. pc' \in {"remove", "unlink"} /\ p \in DOMAIN pairs' =>
          pc \in {"remove", "unlink"} /\ p \in DOMAIN pairs
    <3>1. CASE Start
      BY <3>1 DEF Start, SetOff
    <3>2. CASE Skip \/ Mint
      BY <3>2 DEF Skip, Mint, Leave
    <3>3. CASE GitRm \/ Unlink
      BY <3>3 DEF GitRm, Unlink, Leave, runVars
    <3>4. CASE Crash \/ Chores \/ (\E q \in Pages : Arrive(q)) \/ UNCHANGED vars
      BY <3>4 DEF Crash, Leave, Chores, Plan, Judge, Dismiss, GitCommit, Arrive, vars, runVars
    <3> QED
      BY <1>2, <3>1, <3>2, <3>3, <3>4 DEF Next, RunStep
  <2>3. MapKnows(p)
    BY DEF MapInv
  <2> QED
    BY <2>1, <2>2, <2>3, PostsLast DEF MapKnows, mapVars
<1> QED
  BY <1>1, <1>2

(* What goes is what apply has paired, after the map was written.            *)
LEMMA CitationsKept ==
  ASSUME WikiShape, PlanIsReady, KnowsPosts, PairsHavePosts, MapInv, MapInv', CitationsResolve,
         [Next]_vars
  PROVE  CitationsResolve'
<1>1. \A p \in Gone' : p \in Gone \/ (p \in DOMAIN pairs /\ pc \in {"remove", "unlink"})
  <2>1. CASE GitRm
    BY <2>1 DEF GitRm, Without, Removed, Gone, WikiShape
  <2>2. CASE Unlink
    BY <2>2 DEF Unlink, Without, Removed, Gone, WikiShape
  <2>3. CASE Start \/ Skip \/ Mint \/ WriteMap \/ Crash \/ UNCHANGED vars
    BY <2>3 DEF Start, SetOff, Skip, Mint, WriteMap, WriteMapOver, Crash, vars, Gone
  <2>4. CASE Chores \/ \E p \in Pages : Arrive(p)
    BY <2>4 DEF Chores, Plan, Judge, Dismiss, GitCommit, Arrive, Gone
  <2> QED
    BY <2>1, <2>2, <2>3, <2>4 DEF Next, RunStep
<1>2. Gone' \subseteq Pages
  BY ShapeKept DEF Gone, WikiShape
<1>3. ASSUME NEW p \in Pages, OwnPath(p), Path[p] \in DOMAIN map, hasMap
      PROVE  hasMap' /\ Path[p] \in DOMAIN map'
  <2>1. CASE WriteMap
    <3>1. Path[p] \notin ambiguous'
      BY <1>3 DEF MapInv, MapKnows, OwnPath, Keys
    <3> QED
      BY <1>3, <2>1, <3>1 DEF WriteMap, WriteMapOver
  <2>2. CASE ~WriteMap
    BY <1>3, <2>2 DEF Next, Start, SetOff, RunStep, Skip, Mint, GitRm, Unlink, Crash, Chores, Plan,
                Judge, Dismiss, GitCommit, Arrive, vars, mapVars
  <2> QED
    BY <2>1, <2>2
<1>4. ASSUME NEW p \in Gone', OwnPath(p)
      PROVE  hasMap' /\ Path[p] \in DOMAIN map' /\ posts'[map'[Path[p]]].from = p
  <2>1. hasMap /\ Path[p] \in DOMAIN map
    BY <1>1, <1>2, <1>4 DEF CitationsResolve, OwnPath, MapInv, MapKnows
  <2>2. hasMap' /\ Path[p] \in DOMAIN map'
    BY <1>2, <1>3, <1>4, <2>1
  <2> QED
    BY <1>2, <1>4, <2>2 DEF MapInv, MapKnows, OwnPath, Keys
<1> QED
  BY <1>4 DEF CitationsResolve, OwnPath, Keys

(* A citation of a page that is gone, by a path that is the page's alone,    *)
(* finds the page's post through the map, if readers give no page the        *)
(* subject of another page's post.                                           *)
THEOREM CitationsAreKept ==
  ASSUME NoReuse
  PROVE  Spec => []CitationsResolve
<1> DEFINE Inv == WikiInv /\ SubjectsAreTheirs /\ PairsHavePosts /\ MapInv /\ CitationsResolve
<1>1. Init => Inv
  <2>1. Init => MapInv /\ CitationsResolve
    BY DEF Init, Empty, MapInv, MapKnows, CitationsResolve, Gone
  <2> QED
    BY <2>1, InvAtInit DEF KeptInv
<1>2. Inv /\ [Next]_vars => Inv'
  <2>1. WikiInv /\ [Next]_vars => WikiInv'
    BY WikiInvKept
  <2>2. Inv /\ [Next]_vars => SubjectsAreTheirs' /\ PairsHavePosts'
    BY SubjectsKept, PairsKept DEF WikiInv
  <2>3. Inv /\ [Next]_vars => MapInv' /\ CitationsResolve'
    BY MapKept, CitationsKept DEF WikiInv
  <2> QED
    BY <2>1, <2>2, <2>3
<1>3. Inv => CitationsResolve
  OBVIOUS
<1> QED
  BY <1>1, <1>2, <1>3, PTL DEF Spec

------------------------------------------------------------------------------
(* What plan and people write, what a run has in memory, and the idmap file.  *)
PlanRanges ==
    /\ \A p \in DOMAIN wiki : wiki[p] \in Status
    /\ hasPlan \in BOOLEAN /\ refusals \subseteq Unfiled
    /\ DOMAIN entries \subseteq Pages \ (Meta \cup Unfiled)

RunRanges ==
    /\ commit \in BOOLEAN /\ crashes \in 0 .. MaxCrashes
    /\ \A s \in DOMAIN known : known[s] \in DOMAIN posts
    /\ DOMAIN pairs \subseteq DOMAIN entries
    /\ \A p \in DOMAIN pairs : pairs[p] \in DOMAIN posts
    /\ pc = "idle" => DOMAIN pairs = {}

MapRanges ==
    /\ hasMap \in BOOLEAN /\ ambiguous \subseteq AllKeys
    /\ DOMAIN map \subseteq AllKeys /\ \A k \in DOMAIN map : map[k] \in DOMAIN posts

LEMMA PlanRangesKept == ASSUME WikiShape, PlanRanges, [Next]_vars PROVE PlanRanges'
<1> USE DEF PlanRanges
<1>1. CASE Start \/ Skip \/ Mint \/ WriteMap \/ Crash \/ UNCHANGED vars
  BY <1>1 DEF Start, SetOff, Skip, Mint, WriteMap, WriteMapOver, Crash, planVars, vars
<1>2. CASE GitRm \/ Unlink
  BY <1>2 DEF GitRm, Unlink, Without, planVars
<1>3. CASE Plan
  BY <1>3 DEF Plan, WikiShape
<1>4. ASSUME NEW p \in Pages, Judge(p) PROVE PlanRanges'
  BY <1>4 DEF Judge
<1>5. CASE Dismiss \/ GitCommit
  BY <1>5 DEF Dismiss, GitCommit, planVars, Status
<1>6. ASSUME NEW p \in Pages, Arrive(p) PROVE PlanRanges'
  BY <1>6 DEF Arrive, planVars, Status
<1> QED
  BY <1>1, <1>2, <1>3, <1>4, <1>5, <1>6 DEF Next, RunStep, Chores

LEMMA RunRangesKept ==
  ASSUME WikiShape, PlanIsReady, KnowsPosts, RunRanges, [Next]_vars
  PROVE  RunRanges'
<1> USE DEF RunRanges
<1>0. /\ DOMAIN posts \subseteq DOMAIN posts'
      /\ \A i \in DOMAIN posts : posts'[i] = posts[i]
  BY PostsLast
<1>1. CASE Start
  BY <1>1 DEF Start, SetOff, Empty
<1>2. CASE Skip
  <2>1. PICK p \in todo : Skip!(p)
    BY <1>2 DEF Skip
  <2>2. p \in DOMAIN entries /\ known[entries[p]] \in DOMAIN posts
    BY <2>1 DEF WikiShape
  <2> QED
    BY <2>1, <2>2 DEF Paired, planVars
<1>3. CASE Mint
  <2>1. PICK p \in todo :
          /\ p \in DOMAIN wiki => posts' = Append(posts, [subject |-> entries[p], from |-> p,
                                                            harness |-> stamp])
          /\ \/ Leave
             \/ /\ pairs' = [q \in DOMAIN pairs \cup {p} |->
                               IF q = p THEN Len(posts) + 1 ELSE pairs[q]]
                /\ known' = [t \in DOMAIN known \cup {entries[p]} |->
                               IF t = entries[p] THEN Len(posts) + 1 ELSE known[t]]
                /\ p \in DOMAIN wiki /\ UNCHANGED pc
          /\ pc = "convert" /\ UNCHANGED planVars
          /\ [subject |-> entries[p], from |-> p, harness |-> stamp] \in Post
    BY <1>3, MintOne
  <2>2. crashes' = crashes /\ commit' \in BOOLEAN
    BY <1>3 DEF Mint, Leave
  <2>3. p \in DOMAIN entries
    BY <2>1 DEF WikiShape
  <2>4. CASE Leave
    BY <2>2, <2>4 DEF Leave, Empty
  <2>5. CASE ~Leave
    <3> DEFINE x == [subject |-> entries[p], from |-> p, harness |-> stamp]
    <3>1. posts' = Append(posts, x) /\ x \in Post
      BY <2>1, <2>5
    <3> HIDE DEF x
    <3>2. Len(posts) + 1 \in DOMAIN posts'
      BY <3>1, OnePostMore DEF WikiShape
    <3> QED
      BY <1>0, <2>1, <2>2, <2>3, <2>5, <3>2 DEF planVars
  <2> QED
    BY <2>4, <2>5
<1>4. CASE WriteMap \/ GitRm \/ Unlink
  BY <1>4 DEF WriteMap, WriteMapOver, GitRm, Unlink, Leave, Empty, runVars, planVars
<1>5. CASE Crash
  <2>1. crashes' \in 0 .. MaxCrashes
    BY <1>5, WikiAssumption DEF Crash
  <2> QED
    BY <1>5, <2>1 DEF Crash, Leave, Empty
<1>6. CASE Plan \/ \E p \in Pages : Judge(p)
  BY <1>6 DEF Plan, Judge, runVars
<1>7. CASE Dismiss \/ GitCommit \/ (\E p \in Pages : Arrive(p)) \/ UNCHANGED vars
  BY <1>7 DEF Dismiss, GitCommit, Arrive, vars, runVars, planVars
<1> QED
  BY <1>1, <1>2, <1>3, <1>4, <1>5, <1>6, <1>7 DEF Next, RunStep, Chores

LEMMA MapRangesKept ==
  ASSUME WikiShape, PlanIsReady, KnowsPosts, RunRanges, MapRanges, [Next]_vars
  PROVE  MapRanges'
<1> USE DEF MapRanges
<1>1. CASE WriteMap
  <2>1. DOMAIN pairs \subseteq Pages
    BY DEF RunRanges, WikiShape
  <2>2. Claimed \subseteq AllKeys
    BY <2>1 DEF Claimed, AllKeys
  <2>3. ASSUME NEW k \in Claimed PROVE (CHOOSE id \in Claims(k) : TRUE) \in DOMAIN posts
    <3>1. PICK p \in DOMAIN pairs : k \in Keys(p)
      BY DEF Claimed
    <3>2. pairs[p] \in Claims(k)
      BY <3>1 DEF Claims
    <3>3. Claims(k) \subseteq DOMAIN posts
      BY DEF Claims, RunRanges
    <3> QED
      BY <3>2, <3>3
  <2> QED
    BY <1>1, <2>2, <2>3 DEF WriteMap, WriteMapOver, Disputed
<1>2. CASE ~WriteMap
  <2>1. UNCHANGED mapVars
    BY <1>2 DEF Next, Start, SetOff, RunStep, Skip, Mint, GitRm, Unlink, Crash, Chores, Plan,
                Judge, Dismiss, GitCommit, Arrive, vars
  <2> QED
    BY <2>1, PostsLast DEF mapVars
<1> QED
  BY <1>1, <1>2

(* Type correctness of the conversion: what is paired with a page, known by  *)
(* its subject or found through the map is a post of the store, after any    *)
(* number of crashes and reruns.                                             *)
THEOREM WikiTypeCorrect == Spec => []WikiTypeOK
<1> DEFINE Ranges == PlanRanges /\ RunRanges /\ MapRanges
<1>1. Init => Ranges
  <2> SUFFICES ASSUME Init PROVE Ranges
    OBVIOUS
  <2>1. PlanRanges /\ MapRanges
    BY DEF Init, PlanRanges, MapRanges, Empty
  <2>2. crashes \in 0 .. MaxCrashes
    BY WikiAssumption DEF Init
  <2> QED
    BY <2>1, <2>2 DEF Init, RunRanges, Empty
<1>2. WikiInv /\ Ranges /\ [Next]_vars => Ranges'
  BY PlanRangesKept, RunRangesKept, MapRangesKept DEF WikiInv
<1>3. WikiInv /\ Ranges => WikiTypeOK
  BY DEF WikiInv, WikiShape, PlanRanges, RunRanges, MapRanges, WikiTypeOK, Post
<1> HIDE DEF Ranges
<1> QED
  BY <1>1, <1>2, <1>3, WikiInvHolds, PTL DEF Spec
================================================================================
