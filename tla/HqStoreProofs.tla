------------------------------ MODULE HqStoreProofs ------------------------------
(* What the hq store keeps, for any clients, categories and titles, any      *)
(* number of digits, and kills at any point: its verbs are indivisible, and  *)
(* the index is current unless a kill came between a post and the index.     *)
(* And what its posts keep, whatever is written in them: the reviews that a  *)
(* reader counts are those that were accepted as reviews.                    *)
EXTENDS HqStore, PostText, FiniteSetTheorems, TLAPS

(* The flock is what its holder thinks it is. *)
Inside == {"enter", "write", "scan", "replace", "unlock"}

OneInside == \A c \in Clients : pc[c] \in Inside <=> holder = c

RequestMakesSense ==
    \A c \in Clients :
        /\ req[c].verb \in {"post", "comment", "edit", "index"}
        /\ req[c].verb = "post" =>
              /\ req[c].cat \in Categories /\ req[c].slug \in Slugs
              /\ req[c].subject \in Subjects \cup {NoSubject}
              /\ req[c].supersedes \in Ids \cup {NoId}

(* A client that has yet to write has left no comment. *)
FreshSigners ==
    \A c \in Clients : pc[c] \in {"wait", "enter", "write"} =>
        \A n \in DOMAIN disk : c \notin disk[n].comments

(* What is about to be written still fits what is on disk. *)
NewPostFits(c) ==
    LET n == memo[c][1]
        post == memo[c][2]
    IN  /\ \A m \in Listed(disk) : m.num < n.num
        /\ post.comments = {}
        /\ post.supersedes \in {NoId} \cup {IdOf(m) : m \in Listed(disk)}

AmendmentFits(c) ==
    LET n == memo[c][1]
    IN  /\ n \in DOMAIN disk
        /\ memo[c][2] = Amended(c, disk[n])
        /\ git \/ req[c].verb = "comment"

MemoFits ==
    \A c \in Clients : pc[c] = "write" =>
        /\ memo[c] \in Names \X Record
        /\ req[c].verb = "post" => NewPostFits(c)
        /\ req[c].verb # "post" => req[c].verb \in {"comment", "edit"} /\ AmendmentFits(c)

PerClient == DOMAIN req = Clients /\ DOMAIN memo = Clients /\ DOMAIN listing = Clients

ShelfInv ==
    StoreTypeOK /\ PerClient /\ OneInside /\ RequestMakesSense /\ FreshSigners /\ MemoFits

(* Where the holder is between a post and its index, the index may be behind. *)
Behind(c) == pc[c] \in {"scan", "replace"} /\ req[c].verb # "index"

IndexFollows ==
    /\ ~drifted /\ (\A c \in Clients : holder = c => ~Behind(c)) => index = Listing(disk)
    /\ \A c \in Clients : pc[c] = "replace" => listing[c] = Listing(disk)

------------------------------------------------------------------------------
(* Numbers and amendments. *)

(* A set of positions that is not empty has a last one. *)
LEMMA LastPosition ==
  ASSUME NEW n \in Nat, NEW S \in SUBSET (1 .. n), S # {}
  PROVE  \E i \in S : \A j \in S : j <= i
<1> DEFINE Rest(i) == i + 1 .. n
           T == {Rest(i) : i \in S}
           R == StrictSubsetOrdering(1 .. n)
<1>1. \A i \in S : IsFiniteSet(Rest(i)) /\ Rest(i) \in SUBSET (1 .. n)
  BY FS_Interval
<1>2. T \subseteq FiniteSubsetsOf(1 .. n) /\ T # {}
  BY <1>1 DEF FiniteSubsetsOf
<1>3. IsWellFoundedOn(R, FiniteSubsetsOf(1 .. n))
  BY FS_StrictSubsetOrderingWellFounded
<1>4. \E x \in T : \A y \in T : <<y, x>> \notin R
  <2> HIDE DEF T, R
  <2> QED
    BY <1>2, <1>3, WFMin
<1>5. PICK i \in S : \A j \in S : <<Rest(j), Rest(i)>> \notin R
  BY <1>4
<1>6. ASSUME NEW j \in S, j > i PROVE FALSE
  <2>1. Rest(j) \subseteq Rest(i) /\ j \in Rest(i) /\ j \notin Rest(j)
    BY <1>6
  <2>2. <<Rest(j), Rest(i)>> \in R
    BY <1>1, <2>1 DEF StrictSubsetOrdering
  <2> QED
    BY <1>5, <2>2
<1> QED
  BY <1>6

(* next_number gives a number that fits into the file name and is larger     *)
(* than any that the glob sees.                                              *)
LEMMA NextNumberIsNew ==
  ASSUME StoreTypeOK
  PROVE  NextNumber \in Numbers /\ \A m \in Listed(disk) : m.num < NextNumber
<1> DEFINE S == {n.num : n \in Listed(disk)}
<1>0. Limit \in Nat \ {0}
  BY StoreAssumption
<1>1. S \in SUBSET (1 .. Limit)
  BY <1>0 DEF StoreTypeOK, Listed, Names, Numbers
<1>2. \E k \in Numbers : k - 1 \in S \cup {0} /\ \A t \in S : t < k
  <2> HIDE DEF S
  <2>1. CASE S = {}
    <3>1. 1 \in Numbers /\ 1 - 1 \in S \cup {0} /\ \A t \in S : t < 1
      BY <1>0, <2>1 DEF Numbers
    <3> QED
      BY <3>1
  <2>2. CASE S # {}
    <3>1. PICK i \in S : \A j \in S : j <= i
      BY <1>0, <1>1, <2>2, LastPosition
    <3>2. i + 1 \in Numbers /\ (i + 1) - 1 \in S \cup {0} /\ \A t \in S : t < i + 1
      BY <1>0, <1>1, <3>1 DEF Numbers
    <3> QED
      BY <3>2
  <2> QED
    BY <2>1, <2>2
<1>3. NextNumber = CHOOSE k \in Numbers : k - 1 \in S \cup {0} /\ \A t \in S : t < k
  BY DEF NextNumber, OneMoreThan
<1>4. NextNumber \in Numbers /\ \A t \in S : t < NextNumber
  <2> HIDE DEF S
  <2> QED
    BY <1>2, <1>3
<1> QED
  BY <1>4

(* What comment and edit make of a post. *)
LEMMA AmendedPost ==
  ASSUME NEW c \in Clients, NEW post \in Record
  PROVE  /\ Amended(c, post) \in Record
         /\ Amended(c, post).comments = post.comments \cup {c}
         /\ Amended(c, post).subject = post.subject
         /\ Amended(c, post).supersedes = post.supersedes
         /\ req[c].verb = "comment" => Amended(c, post).body = post.body
         /\ ~Reindexes(req[c]) => Amended(c, post).summary = post.summary
BY DEF Amended, Record, Reindexes

------------------------------------------------------------------------------
(* The invariant. *)

LEMMA InvInit == Init => ShelfInv /\ IndexFollows
<1> SUFFICES ASSUME Init PROVE ShelfInv /\ IndexFollows
  OBVIOUS
<1> USE StoreAssumption
<1>1. PICK stock \in SUBSET {n \in Names : n.num = 1} : disk = [n \in stock |-> FirstPost(n)[n]]
  BY DEF Init
<1>2. \A n \in DOMAIN disk : n \in Names /\ disk[n] = FirstPost(n)[n]
  BY <1>1
<1>3. \A n \in DOMAIN disk : disk[n] \in Record /\ disk[n].comments = {}
  <2> SUFFICES ASSUME NEW n \in DOMAIN disk
               PROVE  disk[n] \in Record /\ disk[n].comments = {}
    OBVIOUS
  <2> DEFINE any == CHOOSE s \in Subjects : TRUE
  <2>1. disk[n] = [subject |-> any, supersedes |-> NoId, body |-> Nobody, summary |-> Nobody,
                   comments |-> {}]
    BY <1>2 DEF FirstPost
  <2>2. any \in Subjects
    OBVIOUS
  <2> HIDE DEF any
  <2> QED
    BY <2>1, <2>2 DEF Record
<1>4. index \subseteq [id : Ids, summary : Clients \cup {Nobody}]
  <2>1. index = Listing(disk)
    BY DEF Init
  <2>2. \A n \in DOMAIN disk : IdOf(n) \in Ids /\ disk[n].summary \in Clients \cup {Nobody}
    BY <1>2, <1>3 DEF Names, Ids, IdOf, Record
  <2> QED
    BY <2>1, <2>2 DEF Listing, Listed
<1>5. StoreTypeOK
  BY <1>2, <1>3, <1>4 DEF Init, StoreTypeOK
<1> QED
  BY <1>3, <1>5 DEF Init, ShelfInv, PerClient, OneInside, Inside, RequestMakesSense, FreshSigners,
                    MemoFits, IndexFollows, Behind

(* The flock keeps the clients apart. *)
LEMMA LockStep == ASSUME StoreTypeOK, OneInside, [Next]_vars PROVE OneInside'
<1> USE StoreAssumption DEF OneInside, Inside, StoreTypeOK, Goto
<1>1. ASSUME NEW c \in Clients, Flock(c) \/ TimeOut(c) \/ Kill(c) PROVE OneInside'
  BY <1>1 DEF Flock, TimeOut, Kill, storeVars
<1>2. ASSUME NEW c \in Clients, IndexOnly(c) \/ PlanPost(c) \/ ReadPost(c) PROVE OneInside'
  BY <1>2 DEF IndexOnly, PlanPost, ReadPost, Hold, Refuse, storeVars
<1>3. ASSUME NEW c \in Clients, WritePost(c) \/ ScanPosts(c) \/ ReplaceIndex(c) \/ Unlock(c)
      PROVE  OneInside'
  BY <1>3 DEF WritePost, ScanPosts, ReplaceIndex, Unlock, storeVars
<1>4. CASE UNCHANGED vars
  BY <1>4 DEF vars, storeVars, clientVars
<1> QED
  BY <1>1, <1>2, <1>3, <1>4 DEF Next, VerbStep

(* A request stays as it was made, until its client is done with it. *)
LEMMA RequestStep ==
  ASSUME StoreTypeOK, PerClient, RequestMakesSense, [Next]_vars
  PROVE  PerClient' /\ RequestMakesSense'
<1> USE DEF PerClient, RequestMakesSense
<1>1. ASSUME NEW c \in Clients, Flock(c) PROVE PerClient' /\ RequestMakesSense'
  <2>1. PICK r \in Requests : req' = [req EXCEPT ![c] = r]
    BY <1>1 DEF Flock
  <2>2. /\ r.verb \in {"post", "comment", "edit", "index"}
        /\ r.verb = "post" => /\ r.cat \in Categories /\ r.slug \in Slugs
                              /\ r.subject \in Subjects \cup {NoSubject}
                              /\ r.supersedes \in Ids \cup {NoId}
    BY <2>1 DEF Requests
  <2> QED
    BY <1>1, <2>1, <2>2 DEF Flock
<1>2. ASSUME NEW c \in Clients, Kill(c) \/ Unlock(c) PROVE PerClient' /\ RequestMakesSense'
  BY <1>2 DEF Kill, Unlock, Forget
<1>3. ASSUME NEW c \in Clients, TimeOut(c) \/ IndexOnly(c) \/ PlanPost(c) \/ ReadPost(c)
      PROVE  PerClient' /\ RequestMakesSense'
  BY <1>3 DEF TimeOut, IndexOnly, PlanPost, ReadPost, Hold, Refuse
<1>4. ASSUME NEW c \in Clients, WritePost(c) \/ ScanPosts(c) \/ ReplaceIndex(c)
      PROVE  PerClient' /\ RequestMakesSense'
  BY <1>4 DEF WritePost, ScanPosts, ReplaceIndex
<1>5. CASE UNCHANGED vars
  BY <1>5 DEF vars, clientVars
<1> QED
  BY <1>1, <1>2, <1>3, <1>4, <1>5 DEF Next, VerbStep

(* What a client has just planned fits, and is a post under a file name.     *)
LEMMA PlannedFits ==
  ASSUME ShelfInv, NEW c \in Clients, PlanPost(c), pc'[c] = "write"
  PROVE  /\ memo'[c] \in Names \X Record /\ NewPostFits(c)'
         /\ disk' = disk /\ req' = req /\ req[c].verb = "post"
<1> USE DEF ShelfInv
<1> DEFINE n == [cat |-> req[c].cat, num |-> NextNumber, slug |-> req[c].slug]
           post == [subject |-> req[c].subject, supersedes |-> req[c].supersedes,
                    body |-> c, summary |-> c, comments |-> {}]
<1>1. /\ pc[c] = "enter" /\ req[c].verb = "post"
      /\ disk' = disk /\ req' = req
      /\ req[c].supersedes = NoId \/ req[c].supersedes \in {IdOf(m) : m \in Listed(disk)}
      /\ memo' = [memo EXCEPT ![c] = <<n, post>>]
  BY DEF PlanPost, Hold, Refuse, Goto, storeVars, StoreTypeOK
<1>2. memo'[c] = <<n, post>>
  BY <1>1 DEF PerClient
<1>3. n \in Names /\ post \in Record
  BY <1>1, NextNumberIsNew DEF Names, Record, RequestMakesSense
<1>4. \A m \in Listed(disk) : m.num < NextNumber
  BY NextNumberIsNew
<1>5. n.num = NextNumber /\ post.comments = {} /\ post.supersedes = req[c].supersedes
  OBVIOUS
<1> HIDE DEF n, post
<1> QED
  BY <1>1, <1>2, <1>3, <1>4, <1>5 DEF NewPostFits

LEMMA ReadFits ==
  ASSUME ShelfInv, NEW c \in Clients, ReadPost(c), pc'[c] = "write"
  PROVE  /\ memo'[c] \in Names \X Record /\ AmendmentFits(c)'
         /\ disk' = disk /\ req' = req /\ req[c].verb \in {"comment", "edit"}
<1> USE DEF ShelfInv
<1>1. /\ pc[c] = "enter" /\ req[c].verb \in {"comment", "edit"}
      /\ disk' = disk /\ req' = req /\ git' = git
      /\ git \/ req[c].verb = "comment"
      /\ \E n \in DOMAIN disk : memo' = [memo EXCEPT ![c] = <<n, Amended(c, disk[n])>>]
  BY DEF ReadPost, Hold, Refuse, Goto, storeVars, StoreTypeOK, Matching
<1>2. PICK n \in DOMAIN disk : memo' = [memo EXCEPT ![c] = <<n, Amended(c, disk[n])>>]
  BY <1>1
<1>3. memo'[c] = <<n, Amended(c, disk[n])>>
  BY <1>2 DEF PerClient
<1>4. n \in Names /\ Amended(c, disk[n]) \in Record
  BY AmendedPost DEF StoreTypeOK
<1>5. Amended(c, disk[n])' = Amended(c, disk[n])
  BY <1>1 DEF Amended
<1> QED
  BY <1>1, <1>3, <1>4, <1>5 DEF AmendmentFits

(* While a client is inside, others can only time out. *)
LEMMA OthersTimeOut ==
  ASSUME StoreTypeOK, OneInside, NEW d \in Clients, pc[d] \in Inside, NEW c \in Clients, c # d,
         Flock(c) \/ TimeOut(c) \/ VerbStep(c) \/ Kill(c)
  PROVE  TimeOut(c)
<1>1. holder = d /\ pc[c] \notin Inside
  BY DEF OneInside
<1> QED
  BY <1>1, StoreAssumption
     DEF Flock, VerbStep, IndexOnly, PlanPost, ReadPost, WritePost, ScanPosts, ReplaceIndex,
         Unlock, Kill, Inside

(* A client comes to its write from its plan or its read, and nobody changes *)
(* the store in between.                                                     *)
LEMMA MemoStep == ASSUME ShelfInv, [Next]_vars PROVE MemoFits'
<1> SUFFICES ASSUME NEW d \in Clients, pc'[d] = "write"
             PROVE  /\ memo'[d] \in Names \X Record
                    /\ req'[d].verb = "post" => NewPostFits(d)'
                    /\ req'[d].verb # "post" => req'[d].verb \in {"comment", "edit"} /\ AmendmentFits(d)'
  BY DEF MemoFits
<1> USE DEF ShelfInv
<1>1. CASE PlanPost(d)
  BY <1>1, PlannedFits
<1>2. CASE ReadPost(d)
  BY <1>2, ReadFits
<1>3. CASE \E c \in Clients \ {d} : Flock(c) \/ TimeOut(c) \/ VerbStep(c) \/ Kill(c)
  <2>1. PICK c \in Clients \ {d} : Flock(c) \/ TimeOut(c) \/ VerbStep(c) \/ Kill(c)
    BY <1>3
  <2>2. pc[d] = "write"
    BY <2>1 DEF Flock, TimeOut, VerbStep, IndexOnly, PlanPost, ReadPost, Hold, Refuse, WritePost,
                ScanPosts, ReplaceIndex, Unlock, Kill, Goto, StoreTypeOK
  <2>3. TimeOut(c)
    BY <2>1, <2>2, OthersTimeOut DEF Inside
  <2> QED
    BY <2>2, <2>3 DEF TimeOut, storeVars, MemoFits, NewPostFits, AmendmentFits, Amended
<1>4. CASE UNCHANGED vars
  BY <1>4 DEF vars, storeVars, clientVars, MemoFits, NewPostFits, AmendmentFits, Amended
<1>5. ~(\/ Flock(d) \/ TimeOut(d) \/ Kill(d) \/ IndexOnly(d) \/ WritePost(d) \/ ScanPosts(d)
        \/ ReplaceIndex(d) \/ Unlock(d))
  BY DEF Flock, TimeOut, Kill, IndexOnly, WritePost, ScanPosts, ReplaceIndex, Unlock, Goto,
         StoreTypeOK
<1> QED
  BY <1>1, <1>2, <1>3, <1>4, <1>5 DEF Next, VerbStep

(* What WritePost does to the posts. *)
LEMMA Written ==
  ASSUME ShelfInv, NEW c \in Clients, WritePost(c)
  PROVE  /\ memo[c][1] \in Names /\ memo[c][2] \in Record
         /\ DOMAIN disk' = DOMAIN disk \cup {memo[c][1]} /\ disk'[memo[c][1]] = memo[c][2]
         /\ \A m \in DOMAIN disk \ {memo[c][1]} : disk'[m] = disk[m]
         /\ \/ req[c].verb = "post" /\ NewPostFits(c)
            \/ /\ req[c].verb \in {"comment", "edit"} /\ AmendmentFits(c)
               /\ disk[memo[c][1]] \in Record
               /\ memo[c][2].comments = disk[memo[c][1]].comments \cup {c}
<1>1. memo[c] \in Names \X Record
  BY DEF ShelfInv, MemoFits, WritePost
<1>2. \/ req[c].verb = "post" /\ NewPostFits(c)
      \/ req[c].verb \in {"comment", "edit"} /\ AmendmentFits(c)
  BY DEF ShelfInv, MemoFits, WritePost
<1>3. AmendmentFits(c) => /\ disk[memo[c][1]] \in Record
                          /\ memo[c][2].comments = disk[memo[c][1]].comments \cup {c}
  BY AmendedPost DEF AmendmentFits, ShelfInv, StoreTypeOK
<1> QED
  BY <1>1, <1>2, <1>3 DEF WritePost

(* Comments are signed once. *)
LEMMA FreshStep == ASSUME ShelfInv, [Next]_vars PROVE FreshSigners'
<1> SUFFICES ASSUME NEW d \in Clients, pc'[d] \in {"wait", "enter", "write"},
                    NEW n \in DOMAIN disk'
             PROVE  d \notin disk'[n].comments
  BY DEF FreshSigners
<1>1. pc[d] \in {"wait", "enter", "write"}
  BY DEF Next, VerbStep, Flock, TimeOut, IndexOnly, PlanPost, ReadPost, Hold, Refuse, WritePost,
         ScanPosts, ReplaceIndex, Unlock, Kill, Goto, vars, clientVars, ShelfInv, StoreTypeOK
<1>2. CASE disk' = disk
  BY <1>1, <1>2 DEF ShelfInv, FreshSigners
<1>3. ASSUME NEW c \in Clients, WritePost(c) PROVE d \notin disk'[n].comments
  <2>1. c # d
    BY <1>3 DEF WritePost, Goto, ShelfInv, StoreTypeOK
  <2>2. CASE n # memo[c][1]
    <3>1. DOMAIN disk' = DOMAIN disk \cup {memo[c][1]}
      BY <1>3, Written
    <3>2. \A m \in DOMAIN disk \ {memo[c][1]} : disk'[m] = disk[m]
      BY <1>3, Written
    <3> QED
      BY <1>1, <2>2, <3>1, <3>2 DEF ShelfInv, FreshSigners
  <2>3. CASE n = memo[c][1]
    <3>1. CASE NewPostFits(c)
      BY <1>3, <2>3, <3>1, Written DEF NewPostFits
    <3>2. CASE AmendmentFits(c) /\ disk'[n].comments = disk[n].comments \cup {c}
      BY <1>1, <2>1, <2>3, <3>2 DEF AmendmentFits, ShelfInv, FreshSigners
    <3> QED
      BY <1>3, <2>3, <3>1, <3>2, Written
  <2> QED
    BY <2>2, <2>3
<1>4. (\E c \in Clients : WritePost(c)) \/ disk' = disk
  BY DEF Next, VerbStep, Flock, TimeOut, IndexOnly, PlanPost, ReadPost, ScanPosts, ReplaceIndex,
         Unlock, Kill, vars, storeVars
<1> QED
  BY <1>2, <1>3, <1>4

LEMMA ListingType ==
  ASSUME StoreTypeOK
  PROVE  Listing(disk) \subseteq [id : Ids, summary : Clients \cup {Nobody}]
<1>1. \A n \in DOMAIN disk : IdOf(n) \in Ids /\ disk[n].summary \in Clients \cup {Nobody}
  BY DEF StoreTypeOK, Names, Ids, IdOf, Record
<1> QED
  BY <1>1 DEF Listing, Listed

LEMMA TypeStep == ASSUME ShelfInv, IndexFollows, [Next]_vars PROVE StoreTypeOK'
<1> DEFINE PcType == pc \in [Clients -> {"wait", "enter", "write", "scan", "replace", "unlock",
                                         "done", "killed"}]
<1>0. PcType'
  BY DEF ShelfInv, StoreTypeOK, Next, VerbStep, Flock, TimeOut, IndexOnly, PlanPost, ReadPost,
         Hold, Refuse, WritePost, ScanPosts, ReplaceIndex, Unlock, Kill, Goto, vars, clientVars
<1>1. git' \in BOOLEAN /\ drifted' \in BOOLEAN /\ holder' \in Clients \cup {Nobody}
  BY DEF ShelfInv, StoreTypeOK, Next, VerbStep, Flock, TimeOut, IndexOnly, PlanPost, ReadPost,
         WritePost, ScanPosts, ReplaceIndex, Unlock, Kill, vars, storeVars
<1>2. DOMAIN disk' \subseteq Names /\ \A n \in DOMAIN disk' : disk'[n] \in Record
  <2>1. ASSUME NEW c \in Clients, WritePost(c)
        PROVE  DOMAIN disk' \subseteq Names /\ \A n \in DOMAIN disk' : disk'[n] \in Record
    <3>1. /\ memo[c][1] \in Names /\ memo[c][2] \in Record
          /\ DOMAIN disk' = DOMAIN disk \cup {memo[c][1]} /\ disk'[memo[c][1]] = memo[c][2]
          /\ \A m \in DOMAIN disk \ {memo[c][1]} : disk'[m] = disk[m]
      BY <2>1, Written
    <3>2. DOMAIN disk \subseteq Names /\ \A n \in DOMAIN disk : disk[n] \in Record
      BY DEF ShelfInv, StoreTypeOK
    <3> QED
      BY <3>1, <3>2
  <2>2. (\E c \in Clients : WritePost(c)) \/ disk' = disk
    BY DEF Next, VerbStep, Flock, TimeOut, IndexOnly, PlanPost, ReadPost, ScanPosts,
           ReplaceIndex, Unlock, Kill, vars, storeVars
  <2> QED
    BY <2>1, <2>2 DEF ShelfInv, StoreTypeOK
<1>3. index' \subseteq [id : Ids, summary : Clients \cup {Nobody}]
  <2>1. (\E c \in Clients : ReplaceIndex(c)) \/ index' = index
    BY DEF Next, VerbStep, Flock, TimeOut, IndexOnly, PlanPost, ReadPost, WritePost, ScanPosts,
           Unlock, Kill, vars, storeVars
  <2>2. ASSUME NEW c \in Clients, ReplaceIndex(c) PROVE index' = Listing(disk)
    BY <2>2 DEF ReplaceIndex, IndexFollows
  <2> QED
    BY <2>1, <2>2, ListingType DEF ShelfInv, StoreTypeOK
<1>4. \A c \in Clients : pc'[c] = "write" => memo'[c][1] \in Names /\ memo'[c][2] \in Record
  BY MemoStep DEF MemoFits
<1> QED
  BY <1>0, <1>1, <1>2, <1>3, <1>4 DEF StoreTypeOK

LEMMA InvStep == ASSUME ShelfInv, IndexFollows, [Next]_vars PROVE ShelfInv'
BY LockStep, RequestStep, MemoStep, FreshStep, TypeStep DEF ShelfInv

------------------------------------------------------------------------------
(* The index. *)

(* A comment, and an edit of a body, leave the listing as it was. *)
LEMMA ListingKept ==
  ASSUME ShelfInv, NEW c \in Clients, WritePost(c), ~Reindexes(req[c])
  PROVE  Listing(disk') = Listing(disk)
<1> DEFINE n == memo[c][1]
<1>1. AmendmentFits(c) /\ disk[n] \in Record /\ memo[c][2].summary = disk[n].summary
  <2>1. req[c].verb # "post"
    BY DEF Reindexes
  <2>2. AmendmentFits(c) /\ disk[n] \in Record
    BY <2>1, Written
  <2>3. memo[c][2] = Amended(c, disk[n])
    BY <2>2 DEF AmendmentFits
  <2> QED
    BY <2>2, <2>3, AmendedPost
<1>2. /\ n \in DOMAIN disk /\ DOMAIN disk' = DOMAIN disk \cup {n}
      /\ disk'[n] = memo[c][2] /\ \A m \in DOMAIN disk \ {n} : disk'[m] = disk[m]
  BY <1>1, Written DEF AmendmentFits
<1>3. \A m \in DOMAIN disk : disk'[m].summary = disk[m].summary
  BY <1>1, <1>2
<1> HIDE DEF n
<1> QED
  BY <1>2, <1>3 DEF Listing, Listed

LEMMA IndexStep == ASSUME ShelfInv, IndexFollows, [Next]_vars PROVE IndexFollows'
<1> USE StoreAssumption DEF ShelfInv, Behind
<1>1. ASSUME NEW d \in Clients, pc'[d] = "replace"
      PROVE  listing'[d] = Listing(disk')
  <2>1. CASE ScanPosts(d)
    BY <2>1 DEF ScanPosts, storeVars, PerClient
  <2>2. CASE \E c \in Clients \ {d} : Flock(c) \/ TimeOut(c) \/ VerbStep(c) \/ Kill(c)
    <3>1. PICK c \in Clients \ {d} : Flock(c) \/ TimeOut(c) \/ VerbStep(c) \/ Kill(c)
      BY <2>2
    <3>2. pc[d] = "replace"
      BY <1>1, <3>1
         DEF Flock, TimeOut, VerbStep, IndexOnly, PlanPost, ReadPost, Hold, Refuse, WritePost,
             ScanPosts, ReplaceIndex, Unlock, Kill, Goto, StoreTypeOK
    <3>3. TimeOut(c)
      BY <3>1, <3>2, OthersTimeOut DEF Inside
    <3> QED
      BY <3>2, <3>3 DEF TimeOut, storeVars, IndexFollows
  <2>3. CASE UNCHANGED vars
    BY <1>1, <2>3 DEF vars, storeVars, clientVars, IndexFollows
  <2>4. ~(\/ Flock(d) \/ TimeOut(d) \/ Kill(d) \/ IndexOnly(d) \/ PlanPost(d) \/ ReadPost(d)
          \/ WritePost(d) \/ ReplaceIndex(d) \/ Unlock(d))
    BY <1>1 DEF Flock, TimeOut, Kill, IndexOnly, PlanPost, ReadPost, Hold, Refuse, WritePost,
                ReplaceIndex, Unlock, Goto, StoreTypeOK
  <2> QED
    BY <2>1, <2>2, <2>3, <2>4 DEF Next, VerbStep
<1>2. ASSUME ~drifted', \A d \in Clients : holder' = d => ~Behind(d)'
      PROVE  index' = Listing(disk')
  <2>1. ASSUME NEW c \in Clients, Flock(c) \/ TimeOut(c)
        PROVE  index' = Listing(disk')
    BY <1>2, <2>1 DEF Flock, TimeOut, Goto, storeVars, StoreTypeOK, IndexFollows, PerClient
  <2>2. ASSUME NEW c \in Clients, Unlock(c) \/ Kill(c)
        PROVE  index' = Listing(disk')
    BY <1>2, <2>2 DEF Unlock, Kill, IndexFollows, OneInside, Inside
  <2>3. ASSUME NEW c \in Clients, IndexOnly(c) \/ PlanPost(c) \/ ReadPost(c)
        PROVE  index' = Listing(disk')
    BY <1>2, <2>3 DEF IndexOnly, PlanPost, ReadPost, storeVars, IndexFollows, OneInside, Inside
  <2>4. ASSUME NEW c \in Clients, WritePost(c)
        PROVE  index' = Listing(disk')
    <3>1. /\ holder = c /\ holder' = c /\ drifted' = drifted /\ index' = index
          /\ req' = req /\ pc[c] = "write"
      BY <2>4 DEF WritePost, OneInside, Inside
    <3>2. CASE Reindexes(req[c])
      <4>1. pc'[c] = "scan" /\ req[c].verb # "index"
        BY <2>4, <3>2 DEF WritePost, Goto, StoreTypeOK, Reindexes
      <4> QED
        BY <1>2, <3>1, <4>1
    <3>3. CASE ~Reindexes(req[c])
      BY <1>2, <2>4, <3>1, <3>3, ListingKept DEF IndexFollows
    <3> QED
      BY <3>2, <3>3
  <2>5. ASSUME NEW c \in Clients, ScanPosts(c)
        PROVE  index' = Listing(disk')
    <3>1. /\ holder = c /\ pc[c] = "scan" /\ pc'[c] = "replace"
          /\ UNCHANGED <<holder, drifted, index, disk, req>>
      BY <2>5 DEF ScanPosts, Goto, storeVars, StoreTypeOK, OneInside, Inside
    <3> QED
      BY <1>2, <3>1 DEF IndexFollows
  <2>6. ASSUME NEW c \in Clients, ReplaceIndex(c)
        PROVE  index' = Listing(disk')
    BY <2>6 DEF ReplaceIndex, IndexFollows
  <2>7. CASE UNCHANGED vars
    BY <1>2, <2>7 DEF vars, storeVars, clientVars, IndexFollows
  <2> QED
    BY <2>1, <2>2, <2>3, <2>4, <2>5, <2>6, <2>7 DEF Next, VerbStep
<1> QED
  BY <1>1, <1>2 DEF IndexFollows

(* "The verb path never drifts": INDEX.md lists what is on disk whenever no  *)
(* write verb is under way, unless one was killed between its post and the   *)
(* index.                                                                    *)
THEOREM IndexIsCurrent == Spec => []IndexCurrent
<1>1. ShelfInv /\ IndexFollows => IndexCurrent
  BY StoreAssumption DEF IndexFollows, IndexCurrent
<1> QED
  BY <1>1, InvInit, InvStep, IndexStep, PTL DEF Spec

(* Type correctness of the store: what a verb carries from reading to        *)
(* writing is a name with a number and a whole post, also when it is killed. *)
THEOREM StoreTypeCorrect == Spec => []StoreTypeOK
<1>1. ShelfInv => StoreTypeOK
  BY DEF ShelfInv
<1> QED
  BY <1>1, InvInit, InvStep, IndexStep, PTL DEF Spec

------------------------------------------------------------------------------
(* The refinement. *)

posts == [n \in Listed(disk) |-> disk[n]]

(* Every step is a step on the shelf or none: only os.replace of a post with *)
(* three digits is seen from outside.                                        *)
LEMMA ShelfStep == ASSUME ShelfInv, [Next]_vars PROVE [Shelf!ShelfNext]_<<posts, git>>
<1>0. git' = git
  BY DEF Next, VerbStep, Flock, TimeOut, IndexOnly, PlanPost, ReadPost, WritePost, ScanPosts,
         ReplaceIndex, Unlock, Kill, vars, storeVars
<1>1. CASE disk' = disk
  BY <1>0, <1>1 DEF posts, Listed
<1>2. ASSUME NEW c \in Clients, WritePost(c)
      PROVE  [Shelf!ShelfNext]_<<posts, git>>
  <2>0. PICK n \in Names, post \in Record : n = memo[c][1] /\ post = memo[c][2]
    BY <1>2, Written
  <2>1. n \in Names /\ DOMAIN disk' = DOMAIN disk \cup {n} /\ disk'[n] = post
    BY <1>2, <2>0, Written
  <2>2. \A m \in DOMAIN disk \ {n} : disk'[m] = disk[m]
    BY <1>2, <2>0, Written
  <2>3. CASE n.num > Limit
    <3>1. \A m \in Listed(disk) : m # n /\ m.num <= Limit
      BY <2>1, <2>3, StoreAssumption DEF Listed, Names, Numbers
    <3>2. Listed(disk') = Listed(disk) /\ \A m \in Listed(disk) : disk'[m] = disk[m]
      BY <2>1, <2>2, <2>3, <3>1, StoreAssumption DEF Listed, Names, Numbers
    <3> QED
      BY <1>0, <3>2 DEF posts
  <2>4. CASE n.num <= Limit
    <3>0. Listed(disk') = Listed(disk) \cup {n}
      BY <2>1, <2>4 DEF Listed
    <3>1. CASE NewPostFits(c)
      <4>1. /\ \A m \in Listed(disk) : m.num < n.num
            /\ post.comments = {} /\ post.supersedes \in {NoId} \cup {IdOf(m) : m \in Listed(disk)}
        BY <2>0, <3>1 DEF NewPostFits
      <4>2. n \notin Listed(disk)
        <5>1. n.num \in Nat
          BY <2>1, StoreAssumption DEF Names, Numbers
        <5> QED
          BY <4>1, <5>1
      <4>3. Shelf!Add(n)
        BY <2>1, <2>2, <3>0, <4>1, <4>2 DEF Shelf!Add, posts, Listed
      <4> QED
        BY <1>0, <2>1, <4>3 DEF Shelf!ShelfNext
    <3>2. CASE AmendmentFits(c)
      <4>1. n \in DOMAIN disk /\ post = Amended(c, disk[n]) /\ disk[n] \in Record
        BY <2>0, <3>2 DEF AmendmentFits, ShelfInv, StoreTypeOK
      <4>2. c \notin disk[n].comments
        BY <1>2, <4>1 DEF WritePost, ShelfInv, FreshSigners
      <4>3. /\ post.comments = disk[n].comments \cup {c}
            /\ post.subject = disk[n].subject /\ post.supersedes = disk[n].supersedes
        BY <4>1, AmendedPost
      <4>4. ~git => post.body = disk[n].body /\ post.summary = disk[n].summary
        BY <3>2, <4>1, AmendedPost DEF AmendmentFits, Reindexes
      <4>5. Shelf!Amend(n, c)
        BY <2>1, <2>2, <2>4, <3>0, <4>1, <4>2, <4>3, <4>4 DEF Shelf!Amend, posts, Listed
      <4> QED
        BY <1>0, <2>1, <4>5 DEF Shelf!ShelfNext
    <3> QED
      BY <1>2, <3>1, <3>2, Written
  <2> QED
    <3>1. n.num \in Nat /\ Limit \in Nat
      BY <2>1, StoreAssumption DEF Names, Numbers
    <3> QED
      BY <2>3, <2>4, <3>1
<1>3. (\E c \in Clients : WritePost(c)) \/ disk' = disk
  BY DEF Next, VerbStep, Flock, TimeOut, IndexOnly, PlanPost, ReadPost, ScanPosts, ReplaceIndex,
         Unlock, Kill, vars, storeVars
<1> QED
  BY <1>1, <1>2, <1>3

(* For any clients, up to the largest number the glob can see and through    *)
(* kills, the verbs implement the shelf: numbers are given once, a post      *)
(* supersedes one that is there, comments are only added, and without git    *)
(* nothing is rewritten.                                                     *)
THEOREM VerbsAreAtomic == Spec => AtomicVerbs
<1>1. Init => Shelf!ShelfInit
  BY DEF Shelf!ShelfInit
<1>2. ShelfInv /\ [Next]_vars => [Shelf!ShelfNext]_<<posts, git>>
  BY ShelfStep
<1> QED
  BY <1>1, <1>2, InvInit, InvStep, IndexStep, PTL DEF Spec, AtomicVerbs, Shelf!ShelfSpec, posts

------------------------------------------------------------------------------
(* A post as text: what a reader counts in it, by the positions of lines.    *)

LEMMA FirstPosition ==
  ASSUME NEW n \in Nat, NEW S \in SUBSET (1 .. n), S # {}
  PROVE  \E i \in S : \A j \in S : i <= j
<1> DEFINE T == {n + 1 - i : i \in S}
<1>1. T \in SUBSET (1 .. n) /\ T # {}
  <2>1. ASSUME NEW i \in S PROVE n + 1 - i \in 1 .. n
    OBVIOUS
  <2>2. PICK i \in S : TRUE
    OBVIOUS
  <2>3. n + 1 - i \in T
    OBVIOUS
  <2> QED
    BY <2>1, <2>3
<1>2. PICK m \in T : \A k \in T : k <= m
  <2> HIDE DEF T
  <2> QED
    BY <1>1, LastPosition
<1>3. PICK i \in S : m = n + 1 - i
  BY <1>2
<1>4. ASSUME NEW j \in S PROVE i <= j
  <2>1. n + 1 - j \in T
    OBVIOUS
  <2>2. n + 1 - j <= n + 1 - i
    BY <1>2, <1>3, <2>1
  <2> QED
    BY <2>2
<1> QED
  BY <1>4

(* A review that a reader counts, told without looking for ends of blocks.  *)
Reviews(t, i) ==
    /\ t[i].kind = "head" /\ t[i].bracket /\ t[i].author # Owner
    /\ \E m \in 1 .. i - 1 : t[m].kind = "marker"
    /\ \E k \in i .. Len(t) : t[k].kind = "evidence" /\ \A j \in i + 1 .. k : t[j].kind # "head"

(* The marker that counts is the first. *)
LEMMA FirstMarker ==
  ASSUME NEW t \in Seq(Lines), Marked(t)
  PROVE  /\ MarkerAt(t) \in DOMAIN t /\ t[MarkerAt(t)].kind = "marker"
         /\ \A j \in 1 .. MarkerAt(t) - 1 : t[j].kind # "marker"
<1> DEFINE S == {i \in DOMAIN t : t[i].kind = "marker"}
<1>1. S \in SUBSET (1 .. Len(t)) /\ S # {} /\ Len(t) \in Nat
  BY DEF Marked
<1>2. PICK i \in S : \A j \in S : i <= j
  <2> HIDE DEF S
  <2> QED
    BY <1>1, FirstPosition
<1>3. \E k \in DOMAIN t : t[k].kind = "marker" /\ \A j \in 1 .. k - 1 : t[j].kind # "marker"
  <2>1. \A j \in 1 .. i - 1 : t[j].kind # "marker"
    BY <1>2
  <2> QED
    BY <1>2, <2>1
<1> QED
  BY <1>3 DEF MarkerAt

LEMMA HeadsAre ==
  ASSUME NEW t \in Seq(Lines)
  PROVE  HeadsIn(t) = {i \in DOMAIN t : t[i].kind = "head" /\ \E m \in 1 .. i - 1 : t[m].kind = "marker"}
<1>1. CASE Marked(t)
  BY <1>1, FirstMarker DEF HeadsIn
<1>2. CASE ~Marked(t)
  BY <1>2 DEF HeadsIn, Marked
<1> QED
  BY <1>1, <1>2

(* A block runs to the line before the next head. *)
LEMMA BlockEnds ==
  ASSUME NEW t \in Seq(Lines), NEW i \in DOMAIN t
  PROVE  /\ BlockEnd(t, i) \in i .. Len(t)
         /\ \A k \in i + 1 .. BlockEnd(t, i) : t[k].kind # "head"
         /\ BlockEnd(t, i) < Len(t) => t[BlockEnd(t, i) + 1].kind = "head"
<1> DEFINE S == {k \in i + 1 .. Len(t) : t[k].kind = "head"}
           Ends(j) == /\ \A k \in i + 1 .. j : t[k].kind # "head"
                      /\ j < Len(t) => t[j + 1].kind = "head"
<1>1. \E j \in i .. Len(t) : Ends(j)
  <2>1. CASE S = {}
    BY <2>1
  <2>2. CASE S # {}
    <3>1. S \in SUBSET (1 .. Len(t)) /\ Len(t) \in Nat
      OBVIOUS
    <3>2. PICK h \in S : \A k \in S : h <= k
      <4> HIDE DEF S
      <4> QED
        BY <2>2, <3>1, FirstPosition
    <3>3. h - 1 \in i .. Len(t) /\ Ends(h - 1)
      BY <3>2
    <3> QED
      BY <3>3
  <2> QED
    BY <2>1, <2>2
<1>2. BlockEnd(t, i) = CHOOSE j \in i .. Len(t) : Ends(j)
  BY DEF BlockEnd
<1>3. BlockEnd(t, i) \in i .. Len(t) /\ Ends(BlockEnd(t, i))
  <2> HIDE DEF Ends
  <2> QED
    BY <1>1, <1>2
<1> QED
  BY <1>3

LEMMA CountedAre ==
  ASSUME NEW t \in Seq(Lines)
  PROVE  Counted(t) = {i \in DOMAIN t : Reviews(t, i)}
<1>1. ASSUME NEW i \in DOMAIN t
      PROVE  (\E k \in i .. BlockEnd(t, i) : t[k].kind = "evidence")
               <=> \E k \in i .. Len(t) : t[k].kind = "evidence" /\ \A j \in i + 1 .. k : t[j].kind # "head"
  <2> DEFINE e == BlockEnd(t, i)
  <2>1. /\ e \in i .. Len(t)
        /\ \A k \in i + 1 .. e : t[k].kind # "head"
        /\ e < Len(t) => t[e + 1].kind = "head"
    BY BlockEnds
  <2> HIDE DEF e
  <2>2. (\E k \in i .. e : t[k].kind = "evidence")
               <=> \E k \in i .. Len(t) : t[k].kind = "evidence" /\ \A j \in i + 1 .. k : t[j].kind # "head"
    <3>1. ASSUME NEW k \in i .. Len(t), \A j \in i + 1 .. k : t[j].kind # "head"
          PROVE  k \in i .. e
      BY <2>1, <3>1
    <3> QED
      BY <2>1, <3>1
  <2> QED
    BY <2>2 DEF e
<1> QED
  BY <1>1, HeadsAre DEF Counted, Reviews

------------------------------------------------------------------------------
(* What a comment does to the counted reviews. *)

LEMMA ConcatAt ==
  ASSUME NEW S, NEW p \in Seq(S), NEW q \in Seq(S)
  PROVE  /\ p \o q \in Seq(S)
         /\ Len(p \o q) = Len(p) + Len(q)
         /\ \A i \in 1 .. Len(p) : (p \o q)[i] = p[i]
         /\ \A i \in 1 .. Len(q) : (p \o q)[Len(p) + i] = q[i]
OBVIOUS

LEMMA PartAt ==
  ASSUME NEW S, NEW q \in Seq(S), NEW m \in 1 .. Len(q) + 1, NEW n \in m - 1 .. Len(q)
  PROVE  /\ SubSeq(q, m, n) \in Seq(S)
         /\ Len(SubSeq(q, m, n)) = n - m + 1
         /\ \A i \in 1 .. n - m + 1 : SubSeq(q, m, n)[i] = q[m + i - 1]
OBVIOUS

CountedIn(t) == {i \in DOMAIN t : Reviews(t, i)}

(* Lines behind a post that has a marker: what was counted stays counted,   *)
(* if they begin with a head, and besides only that head may be.            *)
LEMMA OneMoreComment ==
  ASSUME NEW t \in Seq(Lines), Marked(t),
         NEW e \in Seq(Lines), Len(e) >= 1, e[1].kind = "head",
         \A i \in 2 .. Len(e) : e[i].kind # "head"
  PROVE  CountedIn(t \o e) =
           CountedIn(t) \cup
             IF e[1].bracket /\ e[1].author # Owner /\ \E i \in 2 .. Len(e) : e[i].kind = "evidence"
             THEN {Len(t) + 1} ELSE {}
<1> DEFINE u == t \o e
           n == Len(t)
<1>1. /\ u \in Seq(Lines) /\ n \in Nat /\ Len(e) \in Nat
      /\ Len(u) = n + Len(e)
      /\ \A i \in 1 .. n : u[i] = t[i]
      /\ \A i \in 1 .. Len(e) : u[n + i] = e[i]
  BY ConcatAt
<1>2. u[n + 1].kind = "head" /\ \A i \in n + 2 .. Len(u) : u[i].kind # "head"
  <2>1. u[n + 1] = e[1]
    BY <1>1
  <2>2. ASSUME NEW i \in n + 2 .. Len(u) PROVE u[i].kind # "head"
    <3>1. i - n \in 2 .. Len(e) /\ u[n + (i - n)] = e[i - n] /\ n + (i - n) = i
      BY <1>1
    <3> QED
      BY <3>1
  <2> QED
    BY <2>1, <2>2
<1>3. PICK m \in 1 .. n : t[m].kind = "marker"
  BY DEF Marked
<1>4. DOMAIN t = 1 .. n /\ DOMAIN u = 1 .. Len(u) /\ DOMAIN e = 1 .. Len(e)
  BY <1>1
<1> HIDE DEF u, n
<1>5. ASSUME NEW i \in 1 .. n PROVE Reviews(u, i) <=> Reviews(t, i)
  <2>1. (\E k \in i .. Len(u) : u[k].kind = "evidence" /\ \A j \in i + 1 .. k : u[j].kind # "head")
          <=> \E k \in i .. n : t[k].kind = "evidence" /\ \A j \in i + 1 .. k : t[j].kind # "head"
    <3>1. ASSUME NEW k \in i .. Len(u), \A j \in i + 1 .. k : u[j].kind # "head"
          PROVE  k \in i .. n
      <4>1. k < n + 1
        BY <1>1, <1>2, <3>1
      <4> QED
        BY <1>1, <4>1
    <3>2. ASSUME NEW k \in i .. n
          PROVE  /\ u[k] = t[k]
                 /\ (\A j \in i + 1 .. k : u[j].kind # "head") <=> \A j \in i + 1 .. k : t[j].kind # "head"
      <4>1. \A j \in i + 1 .. k : j \in 1 .. n /\ u[j] = t[j]
        BY <1>1
      <4>2. u[k] = t[k]
        BY <1>1
      <4> QED
        BY <4>1, <4>2
    <3>3. 1 .. n \subseteq 1 .. Len(u) /\ i .. n \subseteq i .. Len(u)
      BY <1>1
    <3>4. ASSUME NEW k \in i .. Len(u), u[k].kind = "evidence", \A j \in i + 1 .. k : u[j].kind # "head"
          PROVE  \E l \in i .. n : t[l].kind = "evidence" /\ \A j \in i + 1 .. l : t[j].kind # "head"
      BY <3>1, <3>2, <3>4
    <3>5. ASSUME NEW k \in i .. n, t[k].kind = "evidence", \A j \in i + 1 .. k : t[j].kind # "head"
          PROVE  \E l \in i .. Len(u) : u[l].kind = "evidence" /\ \A j \in i + 1 .. l : u[j].kind # "head"
      BY <3>2, <3>3, <3>5
    <3> QED
      BY <3>4, <3>5
  <2>2. (\E k \in 1 .. i - 1 : u[k].kind = "marker") <=> \E k \in 1 .. i - 1 : t[k].kind = "marker"
    <3>1. \A k \in 1 .. i - 1 : k \in 1 .. n
      BY <1>1
    <3>2. \A k \in 1 .. i - 1 : u[k] = t[k]
      BY <1>1, <3>1, Zenon
    <3> QED
      BY <3>2, Zenon
  <2>3. u[i] = t[i] /\ n = Len(t)
    BY <1>1 DEF n
  <2> QED
    BY <2>1, <2>2, <2>3 DEF Reviews
<1>6. ASSUME NEW i \in n + 2 .. Len(u) PROVE ~Reviews(u, i)
  BY <1>2 DEF Reviews
<1>7. Reviews(u, n + 1) <=>
        e[1].bracket /\ e[1].author # Owner /\ \E i \in 2 .. Len(e) : e[i].kind = "evidence"
  <2>1. u[n + 1] = e[1] /\ e[1].kind # "evidence" /\ u[m].kind = "marker" /\ m \in 1 .. (n + 1) - 1
    BY <1>1, <1>3
  <2>2. (\E k \in n + 1 .. Len(u) : u[k].kind = "evidence" /\ \A j \in (n + 1) + 1 .. k : u[j].kind # "head")
          <=> \E i \in 2 .. Len(e) : e[i].kind = "evidence"
    <3>1. ASSUME NEW k \in n + 1 .. Len(u), u[k].kind = "evidence"
          PROVE  \E i \in 2 .. Len(e) : e[i].kind = "evidence"
      <4>1. k # n + 1
        BY <2>1, <3>1
      <4>2. k - n \in 2 .. Len(e) /\ u[n + (k - n)] = e[k - n] /\ n + (k - n) = k
        BY <1>1, <4>1
      <4> QED
        BY <3>1, <4>2
    <3>2. ASSUME NEW i \in 2 .. Len(e), e[i].kind = "evidence"
          PROVE  \E k \in n + 1 .. Len(u) : u[k].kind = "evidence" /\ \A j \in (n + 1) + 1 .. k : u[j].kind # "head"
      <4>1. n + i \in n + 1 .. Len(u) /\ u[n + i] = e[i]
        BY <1>1
      <4>2. \A j \in (n + 1) + 1 .. n + i : u[j].kind # "head"
        BY <1>1, <1>2
      <4> QED
        BY <3>2, <4>1, <4>2
    <3> QED
      BY <3>1, <3>2
  <2> QED
    BY <1>2, <2>1, <2>2 DEF Reviews
<1>8. DOMAIN u = (1 .. n) \cup {n + 1} \cup (n + 2 .. Len(u))
  BY <1>1, <1>4
<1>9. CountedIn(u) = CountedIn(t) \cup {i \in {n + 1} : Reviews(u, i)}
  BY <1>4, <1>5, <1>6, <1>8 DEF CountedIn
<1> QED
  BY <1>7, <1>9 DEF u, n

(* What is in front of the comments when a post is written: lines that end   *)
(* with the marker and have no other.                                        *)
IsFront(f) ==
    /\ f \in Seq(Lines) /\ Len(f) >= 1 /\ f[Len(f)].kind = "marker"
    /\ \A j \in 1 .. Len(f) - 1 : f[j].kind # "marker"

Anew(f, t) == f \o Blocks(t)

LEMMA LinesAre ==
  /\ Line("blank") \in Lines /\ Line("marker") \in Lines
  /\ Line("prose") \in Lines /\ Line("evidence") \in Lines
  /\ \A a \in Authors, b \in BOOLEAN : HeadLine(a, b) \in Lines
BY DEF Line, HeadLine, Lines, Plain

LEMMA AppendedIsFront ==
  ASSUME NEW b \in Seq(Lines), ~Marked(b)
  PROVE  IsFront(Append(b, Line("marker")))
<1> DEFINE mk == Line("marker")
           f == Append(b, mk)
           n == Len(b)
<1>1. mk \in Lines /\ mk.kind = "marker"
  BY LinesAre DEF Line
<1>2. DOMAIN b = 1 .. n /\ n \in Nat
  OBVIOUS
<1>3. \A j \in 1 .. n : b[j].kind # "marker"
  BY <1>2 DEF Marked
<1> HIDE DEF mk
<1>4. /\ f \in Seq(Lines) /\ Len(f) = n + 1
      /\ \A j \in 1 .. n : f[j] = b[j]
      /\ f[n + 1] = mk
  BY <1>1
<1>5. Len(f) >= 1 /\ Len(f) - 1 = n
  BY <1>2, <1>4
<1> HIDE DEF f, n
<1> QED
  BY <1>1, <1>3, <1>4, <1>5 DEF IsFront, f, mk

LEMMA KeptIsFront == ASSUME NEW t \in Seq(Lines) PROVE IsFront(UpToMarker(t))
<1>1. CASE Marked(t)
  <2> DEFINE M == MarkerAt(t)
             p == SubSeq(t, 1, M)
  <2>1. M \in 1 .. Len(t) /\ t[M].kind = "marker" /\ \A j \in 1 .. M - 1 : t[j].kind # "marker"
    BY <1>1, FirstMarker
  <2>2. UpToMarker(t) = p
    BY <1>1 DEF UpToMarker
  <2> HIDE DEF M
  <2>3. /\ p \in Seq(Lines) /\ Len(p) = M
        /\ \A i \in 1 .. M : p[i] = t[i]
    <3>1. 1 \in 1 .. Len(t) + 1 /\ M \in 1 - 1 .. Len(t) /\ M - 1 + 1 = M
      BY <2>1
    <3>2. \A i \in 1 .. M : 1 + i - 1 = i
      BY <2>1
    <3> QED
      BY <3>1, <3>2, PartAt
  <2> HIDE DEF p
  <2> QED
    BY <2>1, <2>2, <2>3 DEF IsFront
<1>2. CASE ~Marked(t)
  <2> QED
    BY <1>2, AppendedIsFront DEF UpToMarker
<1> QED
  BY <1>1, <1>2

LEMMA PlainAnew ==
  ASSUME NEW t \in Seq(Lines), HeadsIn(t) = {}, NEW f \in Seq(Lines), IsFront(f)
  PROVE  /\ Anew(f, t) \in Seq(Lines) /\ Marked(Anew(f, t))
         /\ CountedIn(Anew(f, t)) = {} /\ CountedIn(t) = {}
<1>1. CountedIn(t) = {}
  BY HeadsAre DEF CountedIn, Reviews
<1>2. Anew(f, t) = f
  <2>1. Anew(f, t) = f \o <<>>
    BY DEF Anew, Blocks
  <2> QED
    BY <2>1
<1>3. /\ DOMAIN f = 1 .. Len(f) /\ Len(f) \in Nat /\ Len(f) >= 1 /\ f[Len(f)].kind = "marker"
      /\ \A j \in 1 .. Len(f) - 1 : f[j].kind # "marker"
  BY DEF IsFront
<1>4. Marked(f)
  BY <1>3 DEF Marked
<1>5. CountedIn(f) = {}
  <2> DEFINE n == Len(f)
  <2> SUFFICES ASSUME NEW i \in 1 .. n, Reviews(f, i) PROVE FALSE
    BY <1>3 DEF CountedIn
  <2>1. PICK m \in 1 .. i - 1 : f[m].kind = "marker"
    BY DEF Reviews
  <2>2. m \in 1 .. n - 1
    BY <1>3
  <2> QED
    BY <1>3, <2>1, <2>2
<1> QED
  BY <1>1, <1>2, <1>4, <1>5

(* Where the lines of a post stand after it was read and written.           *)
LEMMA HeadsAnew ==
  ASSUME NEW t \in Seq(Lines), HeadsIn(t) # {}, NEW f \in Seq(Lines), IsFront(f)
  PROVE  LET F == FirstHead(t)
             r == Anew(f, t)
             s == Len(r) - Len(t)
             M == MarkerAt(t)
             N == Len(f)
         IN  /\ r \in Seq(Lines) /\ s \in Int
             /\ Marked(t) /\ M \in 1 .. Len(t) /\ t[M].kind = "marker"
             /\ F \in M + 1 .. Len(t) /\ N \in 1 .. Len(r) /\ F + s >= N + 1
             /\ r[N].kind = "marker"
             /\ \A j \in 1 .. N - 1 : r[j].kind # "marker"
             /\ \A j \in 1 .. M - 1 : t[j].kind # "marker"
             /\ \A i \in M + 1 .. F - 1 : t[i].kind # "head"
             /\ \A i \in N + 1 .. F + s - 1 : r[i].kind # "head"
             /\ \A i \in F .. Len(t) : r[i + s] = t[i]
<1> DEFINE F == FirstHead(t)
           r == Anew(f, t)
           s == Len(r) - Len(t)
           M == MarkerAt(t)
           b == IF t[M + 1].kind = "blank" THEN <<Line("blank")>> ELSE <<>>
           N == Len(f)
           q == SubSeq(t, F, Len(t))
<1>1. Marked(t)
  BY DEF HeadsIn
<1>2. M \in 1 .. Len(t) /\ t[M].kind = "marker" /\ \A j \in 1 .. M - 1 : t[j].kind # "marker"
  BY <1>1, FirstMarker
<1>3. HeadsIn(t) = {i \in DOMAIN t : i > M /\ t[i].kind = "head"}
  BY <1>1 DEF HeadsIn
<1>4. F \in HeadsIn(t) /\ \A j \in HeadsIn(t) : F <= j
  <2>1. HeadsIn(t) \in SUBSET (1 .. Len(t)) /\ Len(t) \in Nat
    BY <1>3
  <2>2. \E i \in HeadsIn(t) : \A j \in HeadsIn(t) : i <= j
    BY <2>1, FirstPosition
  <2> QED
    BY <2>2 DEF FirstHead
<1>5. r = f \o (b \o q)
  BY DEF Anew, Blocks
<1> HIDE DEF M, F, r
<1>6. F \in M + 1 .. Len(t) /\ t[F].kind = "head" /\ \A i \in M + 1 .. F - 1 : t[i].kind # "head"
  BY <1>2, <1>3, <1>4
<1>7. N \in Nat /\ N >= 1 /\ f[N].kind = "marker" /\ \A j \in 1 .. N - 1 : f[j].kind # "marker"
  BY DEF IsFront
<1>8. /\ q \in Seq(Lines) /\ Len(q) = Len(t) - F + 1
      /\ \A i \in 1 .. Len(t) - F + 1 : q[i] = t[F + i - 1]
  <2>1. F \in 1 .. Len(t) + 1 /\ Len(t) \in F - 1 .. Len(t)
    BY <1>2, <1>6
  <2> QED
    BY <2>1, PartAt
<1>9. /\ b \in Seq(Lines) /\ Len(b) \in {0, 1}
      /\ \A i \in 1 .. Len(b) : b[i].kind # "head"
      /\ Len(b) = 1 => F # M + 1
  <2>1. CASE t[M + 1].kind = "blank"
    <3>1. b = <<Line("blank")>> /\ Line("blank") \in Lines
      BY <2>1, LinesAre
    <3>2. F # M + 1
      BY <1>6, <2>1
    <3>3. Line("blank").kind # "head"
      BY DEF Line
    <3> HIDE DEF b
    <3>4. b \in Seq(Lines) /\ Len(b) = 1 /\ b[1] = Line("blank")
      BY <3>1
    <3> QED
      BY <3>2, <3>3, <3>4
  <2>2. CASE t[M + 1].kind # "blank"
    BY <2>2
  <2> QED
    BY <2>1, <2>2
<1> HIDE DEF N, b, q
<1>10. /\ b \o q \in Seq(Lines) /\ Len(b \o q) = Len(b) + Len(q)
       /\ \A i \in 1 .. Len(b) : (b \o q)[i] = b[i]
       /\ \A i \in 1 .. Len(q) : (b \o q)[Len(b) + i] = q[i]
  <2>1. b \in Seq(Lines) /\ q \in Seq(Lines)
    BY <1>8, <1>9
  <2> QED
    BY <2>1
<1>11. /\ r \in Seq(Lines) /\ Len(r) = N + Len(b) + Len(q)
       /\ \A i \in 1 .. N : r[i] = f[i]
       /\ \A i \in 1 .. Len(b) : r[N + i] = b[i]
       /\ \A i \in 1 .. Len(q) : r[N + Len(b) + i] = q[i]
  <2> DEFINE bq == b \o q
  <2>1. /\ bq \in Seq(Lines) /\ Len(bq) = Len(b) + Len(q) /\ Len(b) \in Nat /\ Len(q) \in Nat
        /\ \A i \in 1 .. Len(b) : bq[i] = b[i]
        /\ \A i \in 1 .. Len(q) : bq[Len(b) + i] = q[i]
    BY <1>8, <1>9, <1>10
  <2>2. r = f \o bq
    BY <1>5
  <2> HIDE DEF bq
  <2>3. /\ r \in Seq(Lines) /\ Len(r) = N + Len(bq)
        /\ \A i \in 1 .. N : r[i] = f[i]
        /\ \A i \in 1 .. Len(bq) : r[N + i] = bq[i]
    <3>1. /\ f \o bq \in Seq(Lines) /\ Len(f \o bq) = Len(f) + Len(bq)
          /\ \A i \in 1 .. Len(f) : (f \o bq)[i] = f[i]
          /\ \A i \in 1 .. Len(bq) : (f \o bq)[Len(f) + i] = bq[i]
      <4>1. f \in Seq(Lines) /\ bq \in Seq(Lines)
        BY <2>1
      <4> QED
        BY <4>1
    <3>2. Len(f) = N
      BY DEF N
    <3> QED
      BY <2>2, <3>1, <3>2, Zenon
  <2>4. \A i \in 1 .. Len(q) : Len(b) + i \in 1 .. Len(bq) /\ N + (Len(b) + i) = N + Len(b) + i
    BY <1>7, <2>1
  <2>5. \A i \in 1 .. Len(b) : i \in 1 .. Len(bq)
    BY <2>1
  <2>6. Len(r) = N + Len(b) + Len(q)
    BY <1>7, <2>1, <2>3
  <2>7. \A i \in 1 .. Len(q) : r[N + Len(b) + i] = q[i]
    BY <2>1, <2>3, <2>4
  <2> QED
    BY <2>1, <2>3, <2>5, <2>6, <2>7
<1>12. s = N + Len(b) + 1 - F /\ s \in Int
  BY <1>2, <1>7, <1>6, <1>8, <1>9, <1>11
<1>13. \A i \in F .. Len(t) : r[i + s] = t[i]
  <2> SUFFICES ASSUME NEW i \in F .. Len(t) PROVE r[i + s] = t[i]
    OBVIOUS
  <2>1. /\ i - F + 1 \in 1 .. Len(q) /\ i + s = N + Len(b) + (i - F + 1)
        /\ F + (i - F + 1) - 1 = i
    <3>1. N \in Int /\ F \in Int /\ Len(b) \in Int /\ i \in Int /\ Len(t) \in Int /\ i >= F /\ i <= Len(t)
      BY <1>2, <1>6, <1>7, <1>9
    <3>2. Len(q) = Len(t) - F + 1 /\ s = N + Len(b) + 1 - F
      BY <1>8, <1>12
    <3> HIDE DEF s
    <3> QED
      BY <3>1, <3>2
  <2> HIDE DEF s
  <2> QED
    BY <1>8, <1>11, <2>1
<1>14. \A i \in N + 1 .. F + s - 1 : r[i].kind # "head"
  <2> SUFFICES ASSUME NEW i \in N + 1 .. F + s - 1 PROVE r[i].kind # "head"
    OBVIOUS
  <2>1. i - N \in 1 .. Len(b) /\ N + (i - N) = i
    BY <1>2, <1>6, <1>7, <1>9, <1>12
  <2> QED
    BY <1>9, <1>11, <2>1
<1>15. r[N].kind = "marker" /\ \A j \in 1 .. N - 1 : r[j].kind # "marker"
  <2>1. N \in 1 .. N /\ \A j \in 1 .. N - 1 : j \in 1 .. N
    BY <1>7
  <2> QED
    BY <1>7, <1>11, <2>1, Zenon
<1>16. F + s >= N + 1 /\ N \in 1 .. Len(r)
  <2>1. F \in Int /\ N \in Int /\ N >= 1 /\ Len(b) \in Nat /\ Len(q) \in Nat
    BY <1>2, <1>6, <1>7, <1>8, <1>9
  <2>2. s = N + Len(b) + 1 - F /\ Len(r) = N + Len(b) + Len(q)
    BY <1>11, <1>12
  <2> HIDE DEF s
  <2> QED
    BY <2>1, <2>2
<1> QED
  BY <1>1, <1>2, <1>6, <1>11, <1>12, <1>13, <1>14, <1>15, <1>16 DEF F, M, N, r

(* Reading and writing again moves the counted reviews and keeps their number. *)
LEMMA SameReviews ==
  ASSUME NEW t \in Seq(Lines), NEW f \in Seq(Lines), IsFront(f)
  PROVE  /\ Anew(f, t) \in Seq(Lines) /\ Marked(Anew(f, t))
         /\ IsFiniteSet(CountedIn(t)) /\ IsFiniteSet(CountedIn(Anew(f, t)))
         /\ Cardinality(CountedIn(Anew(f, t))) = Cardinality(CountedIn(t))
<1>1. ASSUME NEW u \in Seq(Lines) PROVE IsFiniteSet(CountedIn(u))
  <2>1. IsFiniteSet(1 .. Len(u)) /\ CountedIn(u) \subseteq 1 .. Len(u)
    BY FS_Interval DEF CountedIn
  <2> QED
    BY <2>1, FS_Subset
<1>2. CASE HeadsIn(t) = {}
  BY <1>1, <1>2, PlainAnew
<1>3. CASE HeadsIn(t) # {}
  <2> DEFINE F == FirstHead(t)
             r == Anew(f, t)
             s == Len(r) - Len(t)
             M == MarkerAt(t)
             N == Len(f)
             n == Len(t)
  <2>1. /\ r \in Seq(Lines) /\ s \in Int
        /\ M \in 1 .. n /\ t[M].kind = "marker"
        /\ F \in M + 1 .. n /\ N \in 1 .. Len(r) /\ F + s >= N + 1
        /\ r[N].kind = "marker"
        /\ \A j \in 1 .. N - 1 : r[j].kind # "marker"
        /\ \A j \in 1 .. M - 1 : t[j].kind # "marker"
        /\ \A i \in M + 1 .. F - 1 : t[i].kind # "head"
        /\ \A i \in N + 1 .. F + s - 1 : r[i].kind # "head"
        /\ \A i \in F .. n : r[i + s] = t[i]
    BY <1>3, HeadsAnew
  <2>2. /\ n \in Nat /\ Len(r) = n + s /\ Len(r) \in Nat
        /\ DOMAIN t = 1 .. n /\ DOMAIN r = 1 .. n + s
    BY <2>1
  <2> HIDE DEF F, M, N, r, s, n
  <2>3. ASSUME NEW i \in CountedIn(t) PROVE i \in F .. n
    <3>1. i \in 1 .. n /\ t[i].kind = "head" /\ \E m \in 1 .. i - 1 : t[m].kind = "marker"
      BY <2>2 DEF CountedIn, Reviews
    <3>2. i >= M + 1
      BY <2>1, <3>1
    <3> QED
      BY <2>1, <3>1, <3>2
  <2>4. ASSUME NEW i \in CountedIn(r) PROVE i - s \in F .. n
    <3>1. i \in 1 .. n + s /\ r[i].kind = "head" /\ \E m \in 1 .. i - 1 : r[m].kind = "marker"
      BY <2>2 DEF CountedIn, Reviews
    <3>2. i >= N + 1
      BY <2>1, <3>1
    <3>3. i >= F + s
      BY <2>1, <3>1, <3>2
    <3> QED
      BY <2>1, <2>2, <3>1, <3>3
  <2>5. ASSUME NEW i \in F .. n PROVE i \in CountedIn(t) <=> i + s \in CountedIn(r)
    <3>1. i \in DOMAIN t /\ i + s \in DOMAIN r /\ r[i + s] = t[i]
      BY <2>1, <2>2
    <3>2. \E m \in 1 .. i - 1 : t[m].kind = "marker"
      BY <2>1
    <3>3. \E m \in 1 .. (i + s) - 1 : r[m].kind = "marker"
      BY <2>1
    <3>4. ASSUME NEW k \in i .. n
          PROVE  /\ r[k + s] = t[k] /\ k + s \in i + s .. n + s
                 /\ (\A j \in i + 1 .. k : t[j].kind # "head")
                       <=> \A j \in (i + s) + 1 .. k + s : r[j].kind # "head"
      <4>1. \A j \in i + 1 .. k : r[j + s] = t[j] /\ j + s \in (i + s) + 1 .. k + s
        BY <2>1, <2>2
      <4>2. \A j \in (i + s) + 1 .. k + s : j - s \in i + 1 .. k /\ (j - s) + s = j
        BY <2>1, <2>2
      <4>3. r[k + s] = t[k] /\ k + s \in i + s .. n + s
        BY <2>1, <2>2
      <4> QED
        <5>1. ASSUME \A j \in i + 1 .. k : t[j].kind # "head", NEW j \in (i + s) + 1 .. k + s
              PROVE  r[j].kind # "head"
          BY <4>1, <4>2, <5>1
        <5>2. ASSUME \A j \in (i + s) + 1 .. k + s : r[j].kind # "head", NEW j \in i + 1 .. k
              PROVE  t[j].kind # "head"
          BY <4>1, <5>2
        <5> QED
          BY <4>3, <5>1, <5>2
    <3>5. \A k \in i + s .. n + s : k - s \in i .. n /\ (k - s) + s = k
      BY <2>1, <2>2
    <3>6. (\E k \in i .. n : t[k].kind = "evidence" /\ \A j \in i + 1 .. k : t[j].kind # "head")
            <=> \E k \in i + s .. n + s : r[k].kind = "evidence" /\ \A j \in (i + s) + 1 .. k : r[j].kind # "head"
      <4>1. ASSUME NEW k \in i .. n, t[k].kind = "evidence", \A j \in i + 1 .. k : t[j].kind # "head"
            PROVE  \E l \in i + s .. n + s : r[l].kind = "evidence" /\ \A j \in (i + s) + 1 .. l : r[j].kind # "head"
        BY <3>4, <4>1
      <4>2. ASSUME NEW l \in i + s .. n + s, r[l].kind = "evidence", \A j \in (i + s) + 1 .. l : r[j].kind # "head"
            PROVE  \E k \in i .. n : t[k].kind = "evidence" /\ \A j \in i + 1 .. k : t[j].kind # "head"
        <5> DEFINE k == l - s
        <5>1. k \in i .. n /\ k + s = l
          BY <3>5
        <5> HIDE DEF k
        <5>2. /\ r[k + s] = t[k]
              /\ (\A j \in i + 1 .. k : t[j].kind # "head")
                    <=> \A j \in (i + s) + 1 .. k + s : r[j].kind # "head"
          BY <3>4, <5>1
        <5> QED
          BY <4>2, <5>1, <5>2
      <4> QED
        BY <4>1, <4>2
    <3>7. n = Len(t) /\ Len(r) = n + s
      BY <2>2 DEF n
    <3>8. Reviews(t, i) <=> Reviews(r, i + s)
      BY <3>1, <3>2, <3>3, <3>6, <3>7 DEF Reviews
    <3> QED
      BY <3>1, <3>8 DEF CountedIn
  <2> DEFINE g == [i \in CountedIn(t) |-> i + s]
  <2>6. \A i \in CountedIn(t) : g[i] \in CountedIn(r)
    BY <2>3, <2>5
  <2>7. \A i \in CountedIn(t), j \in CountedIn(t) : g[i] = g[j] => i = j
    BY <2>1, <2>3
  <2>8. \A k \in CountedIn(r) : \E i \in CountedIn(t) : g[i] = k
    <3> SUFFICES ASSUME NEW k \in CountedIn(r) PROVE \E i \in CountedIn(t) : g[i] = k
      OBVIOUS
    <3>1. k \in Int
      BY <2>2 DEF CountedIn
    <3>2. k - s \in F .. n /\ (k - s) + s = k
      BY <2>1, <2>4, <3>1
    <3>3. k - s \in CountedIn(t)
      BY <2>5, <3>2
    <3> QED
      BY <3>2, <3>3
  <2>9. g \in Bijection(CountedIn(t), CountedIn(r))
    <3>1. g \in [CountedIn(t) -> CountedIn(r)]
      BY <2>6
    <3> HIDE DEF g
    <3> QED
      BY <2>7, <2>8, <3>1 DEF Bijection, Injection, Surjection, IsInjective
  <2>10. IsFiniteSet(CountedIn(t)) /\ IsFiniteSet(CountedIn(r))
    BY <1>1, <2>1
  <2>11. Cardinality(CountedIn(r)) = Cardinality(CountedIn(t))
    <3> HIDE DEF g
    <3>1. ExistsBijection(CountedIn(t), CountedIn(r))
      BY <2>9 DEF ExistsBijection
    <3> QED
      BY <2>10, <3>1, FS_Bijection
  <2>12. Marked(r)
    BY <2>1, <2>2 DEF Marked
  <2> QED
    BY <2>1, <2>10, <2>11, <2>12 DEF r
<1> QED
  BY <1>2, <1>3

(* A comment adds one to what is counted if it is a review, and nothing else. *)
LEMMA CommentCounts ==
  ASSUME NEW t \in Seq(Lines), NEW f \in Seq(Lines), IsFront(f), NEW e \in Seq(Lines), Len(e) >= 1, e[1].kind = "head",
         \A i \in 2 .. Len(e) : e[i].kind # "head"
  PROVE  LET review == e[1].bracket /\ e[1].author # Owner /\ \E i \in 2 .. Len(e) : e[i].kind = "evidence"
         IN  /\ Rewritten(t, f, e) \in Seq(Lines)
             /\ Cardinality(Counted(OnDisk(Rewritten(t, f, e)))) =
                  Cardinality(CountedIn(t)) + IF review THEN 1 ELSE 0
<1> DEFINE review == e[1].bracket /\ e[1].author # Owner /\ \E i \in 2 .. Len(e) : e[i].kind = "evidence"
           B == Line("blank")
           d == Append(e, B)
           r == Anew(f, t)
<1>1. /\ B \in Lines /\ B.kind # "head" /\ B.kind # "evidence"
  BY LinesAre DEF Line
<1>2. /\ r \in Seq(Lines) /\ Marked(r)
      /\ IsFiniteSet(CountedIn(t)) /\ IsFiniteSet(CountedIn(r))
      /\ Cardinality(CountedIn(r)) = Cardinality(CountedIn(t))
  BY SameReviews
<1>3. Rewritten(t, f, e) = r \o e
  BY Zenon DEF Rewritten, Anew
<1> HIDE DEF B, r
<1>4. /\ d \in Seq(Lines) /\ Len(d) = Len(e) + 1
      /\ \A i \in 1 .. Len(e) : d[i] = e[i]
      /\ d[Len(e) + 1] = B
  BY <1>1
<1>5. OnDisk(Rewritten(t, f, e)) = r \o d
  <2>1. OnDisk(Rewritten(t, f, e)) = Append(r \o e, B)
    BY <1>3 DEF OnDisk, B
  <2>2. Append(r \o e, B) = r \o Append(e, B)
    <3>1. /\ Append(r \o e, B) \in Seq(Lines) /\ Len(Append(r \o e, B)) = Len(r) + Len(e) + 1
          /\ \A i \in 1 .. Len(r) + Len(e) : Append(r \o e, B)[i] = (r \o e)[i]
          /\ Append(r \o e, B)[Len(r) + Len(e) + 1] = B
      BY <1>1, <1>2
    <3>2. /\ r \o Append(e, B) \in Seq(Lines) /\ Len(r \o Append(e, B)) = Len(r) + Len(e) + 1
          /\ \A i \in 1 .. Len(r) + Len(e) : (r \o Append(e, B))[i] = (r \o e)[i]
          /\ (r \o Append(e, B))[Len(r) + Len(e) + 1] = B
      BY <1>1, <1>2
    <3>3. Len(r) \in Nat /\ Len(e) \in Nat
      BY <1>2
    <3> DEFINE x == Append(r \o e, B)
               y == r \o Append(e, B)
               k == Len(r) + Len(e)
    <3>4. /\ x \in Seq(Lines) /\ y \in Seq(Lines) /\ k \in Nat
          /\ Len(x) = k + 1 /\ Len(y) = k + 1
          /\ \A i \in 1 .. k : x[i] = y[i]
          /\ x[k + 1] = y[k + 1]
      BY <3>1, <3>2, <3>3
    <3> HIDE DEF x, y, k
    <3>5. x = y
      BY <3>4
    <3> QED
      BY <3>5 DEF x, y
  <2> QED
    BY <2>1, <2>2
<1> HIDE DEF d
<1>6. /\ Len(d) >= 1 /\ d[1] = e[1] /\ \A i \in 2 .. Len(d) : d[i].kind # "head"
      /\ (\E i \in 2 .. Len(d) : d[i].kind = "evidence") <=> \E i \in 2 .. Len(e) : e[i].kind = "evidence"
  <2> DEFINE n == Len(e)
  <2>1. n \in Nat /\ n >= 1 /\ Len(d) = n + 1
    BY <1>4
  <2>2. /\ \A i \in 1 .. n : d[i] = e[i]
        /\ d[n + 1].kind # "head" /\ d[n + 1].kind # "evidence"
        /\ \A i \in 2 .. n : e[i].kind # "head"
    BY <1>1, <1>4
  <2> HIDE DEF n
  <2>3. /\ 1 \in 1 .. n /\ \A i \in 2 .. n : i \in 1 .. n /\ i \in 2 .. n + 1
        /\ \A i \in 2 .. n + 1 : i \in 2 .. n \/ i = n + 1
    BY <2>1
  <2>4. d[1] = e[1] /\ \A i \in 2 .. n + 1 : d[i].kind # "head"
    BY <2>2, <2>3, Zenon
  <2>5. (\E i \in 2 .. n + 1 : d[i].kind = "evidence") <=> \E i \in 2 .. n : e[i].kind = "evidence"
    BY <2>2, <2>3, Zenon
  <2>6. Len(d) >= 1
    BY <2>1
  <2> QED
    BY <2>1, <2>4, <2>5, <2>6 DEF n
<1>7. CountedIn(r \o d) = CountedIn(r) \cup IF review THEN {Len(r) + 1} ELSE {}
  BY <1>2, <1>4, <1>6, OneMoreComment
<1>8. Len(r) + 1 \notin CountedIn(r)
  BY <1>2 DEF CountedIn
<1>9. Cardinality(CountedIn(r \o d)) = Cardinality(CountedIn(r)) + IF review THEN 1 ELSE 0
  <2>1. CASE review
    <3> DEFINE C == CountedIn(r)
               x == Len(r) + 1
    <3>1. CountedIn(r \o d) = C \cup {x}
      BY <1>7, <2>1, Zenon
    <3>2. IsFiniteSet(C) /\ x \notin C
      BY <1>2, <1>8
    <3> HIDE DEF C, x
    <3>3. Cardinality(C \cup {x}) = Cardinality(C) + 1
      BY <3>2, FS_AddElement
    <3> HIDE DEF review
    <3> QED
      BY <2>1, <3>1, <3>3 DEF C
  <2>2. CASE ~review
    <3>1. Cardinality(CountedIn(r)) \in Nat
      BY <1>2, FS_CardinalityType
    <3> QED
      <4>1. CountedIn(r \o d) = CountedIn(r)
        BY <1>7, <2>2
      <4> HIDE DEF review
      <4> QED
        BY <2>2, <3>1, <4>1
  <2> QED
    BY <2>1, <2>2
<1>10. r \o d \in Seq(Lines) /\ r \o e \in Seq(Lines)
  BY <1>2, <1>4
<1>11. Counted(r \o d) = CountedIn(r \o d)
  BY <1>10, CountedAre DEF CountedIn
<1> QED
  BY <1>2, <1>3, <1>5, <1>9, <1>10, <1>11

PostInv == tail \in Seq(Lines) /\ granted = Cardinality(CountedIn(OnDisk(tail)))

LEMMA OnDiskLines == ASSUME NEW t \in Seq(Lines) PROVE OnDisk(t) \in Seq(Lines)
BY LinesAre DEF OnDisk

(* Text that may stand in a comment has no head and no evidence in it. *)
LEMMA HonestText ==
  ASSUME NEW more \in Continuations, ~Forgeable(more)
  PROVE  more = <<>> \/ more = <<Line("prose")>>
<1>1. Line("evidence").kind = "evidence" /\ \A a, b : HeadLine(a, b).kind = "head"
  BY DEF Line, HeadLine
<1>2. ASSUME NEW x, x.kind \in {"head", "evidence"} PROVE more # <<x>>
  BY <1>2 DEF Forgeable
<1>3. PICK a : Continuations = {<<>>, <<Line("prose")>>, <<Line("evidence")>>, <<HeadLine(a, TRUE)>>}
  BY DEF Continuations
<1>4. more # <<Line("evidence")>> /\ more # <<HeadLine(a, TRUE)>>
  <2> DEFINE x == Line("evidence")
             y == HeadLine(a, TRUE)
  <2>1. x.kind \in {"head", "evidence"} /\ y.kind \in {"head", "evidence"}
    BY <1>1
  <2> HIDE DEF x, y
  <2>2. more # <<x>> /\ more # <<y>>
    BY <1>2, <2>1
  <2> QED
    BY <2>2 DEF x, y
<1> QED
  BY <1>3, <1>4

LEMMA PutCounts ==
  ASSUME PostInv, NEW f \in Seq(Lines), IsFront(f), NEW e \in Seq(Lines), Len(e) >= 1, e[1].kind = "head",
         \A i \in 2 .. Len(e) : e[i].kind # "head", Put(f, e),
         granted' = granted + IF e[1].bracket /\ e[1].author # Owner
                                    /\ \E i \in 2 .. Len(e) : e[i].kind = "evidence"
                              THEN 1 ELSE 0
  PROVE  PostInv'
<1> DEFINE t == OnDisk(tail)
<1>1. t \in Seq(Lines)
  BY OnDiskLines DEF PostInv
<1> HIDE DEF t
<1>2. tail' = Rewritten(t, f, e) /\ granted = Cardinality(CountedIn(t))
  BY DEF Put, PostInv, t
<1>3. /\ Rewritten(t, f, e) \in Seq(Lines)
      /\ Cardinality(Counted(OnDisk(Rewritten(t, f, e)))) = granted'
  BY <1>1, <1>2, CommentCounts
<1>4. OnDisk(tail') \in Seq(Lines)
  BY <1>2, <1>3, OnDiskLines
<1>5. Counted(OnDisk(tail')) = CountedIn(OnDisk(tail'))
  BY <1>4, CountedAre DEF CountedIn
<1>6. OnDisk(tail)' = OnDisk(tail')
  BY DEF OnDisk
<1>7. granted' = Cardinality(CountedIn(OnDisk(tail')))
  BY <1>2, <1>3, <1>5
<1> QED
  BY <1>2, <1>3, <1>7 DEF PostInv, OnDisk

LEMMA PostInvInit == TextInit => PostInv
<1> SUFFICES ASSUME TextInit PROVE PostInv
  OBVIOUS
<1>1. tail \in Seq(Lines)
  BY TextAssumption DEF TextInit
<1>2. OnDisk(tail) \in Seq(Lines)
  BY <1>1, OnDiskLines
<1>3. Counted(OnDisk(tail)) = CountedIn(OnDisk(tail))
  BY <1>2, CountedAre DEF CountedIn
<1> QED
  BY <1>1, <1>3 DEF TextInit, PostInv

LEMMA GrantedIsNumber == ASSUME PostInv PROVE granted \in Nat
<1>1. OnDisk(tail) \in Seq(Lines)
  BY OnDiskLines DEF PostInv
<1>2. IsFiniteSet(CountedIn(OnDisk(tail)))
  BY <1>1, SameReviews, KeptIsFront DEF IsFront
<1> QED
  BY <1>2, FS_CardinalityType DEF PostInv

(* What comment and edit append begins with its head and has no other. *)
LEMMA CommentIs ==
  ASSUME NEW a \in Authors, NEW bracket \in BOOLEAN, NEW more \in Continuations, ~Forgeable(more)
  PROVE  LET e == <<HeadLine(a, bracket)>> \o more
         IN  /\ e \in Seq(Lines) /\ Len(e) >= 1 /\ e[1] = HeadLine(a, bracket)
             /\ \A i \in 2 .. Len(e) : e[i].kind \notin {"head", "evidence"}
<1> DEFINE h == HeadLine(a, bracket)
           p == Line("prose")
           e == <<h>> \o more
<1>1. h \in Lines /\ p \in Lines /\ p.kind \notin {"head", "evidence"}
  BY LinesAre DEF Line
<1>2. more = <<>> \/ more = <<p>>
  BY HonestText
<1> HIDE DEF h, p
<1>3. CASE more = <<>>
  <2>1. e = <<h>>
    BY <1>1, <1>3
  <2> HIDE DEF e
  <2>2. e \in Seq(Lines) /\ Len(e) = 1 /\ e[1] = h
    BY <1>1, <2>1
  <2> QED
    BY <2>2 DEF h, e
<1>4. CASE more = <<p>>
  <2> DEFINE x == <<h>>
             y == <<p>>
  <2>1. /\ x \in Seq(Lines) /\ Len(x) = 1 /\ x[1] = h
        /\ y \in Seq(Lines) /\ Len(y) = 1 /\ y[1] = p
    BY <1>1
  <2>2. e = x \o y
    BY <1>4
  <2> HIDE DEF e, x, y
  <2>3. /\ e \in Seq(Lines) /\ Len(e) = Len(x) + Len(y)
        /\ \A i \in 1 .. Len(x) : e[i] = x[i]
        /\ \A i \in 1 .. Len(y) : e[Len(x) + i] = y[i]
    <3>1. x \in Seq(Lines) /\ y \in Seq(Lines)
      BY <2>1
    <3> QED
      BY <2>2, <3>1
  <2>4. e \in Seq(Lines) /\ Len(e) = 2 /\ e[1] = h /\ e[2] = p
    BY <2>1, <2>3
  <2>5. \A i \in 2 .. Len(e) : e[i].kind \notin {"head", "evidence"}
    BY <1>1, <2>4
  <2>6. e \in Seq(Lines) /\ Len(e) >= 1 /\ e[1] = h
    BY <2>4
  <2> QED
    BY <2>5, <2>6 DEF h, e
<1> QED
  BY <1>2, <1>3, <1>4

LEMMA ReviewIs ==
  ASSUME NEW a \in Authors, NEW more \in Continuations, ~Forgeable(more)
  PROVE  LET e == <<HeadLine(a, TRUE)>> \o more \o <<Line("evidence")>>
         IN  /\ e \in Seq(Lines) /\ Len(e) >= 1 /\ e[1] = HeadLine(a, TRUE)
             /\ \A i \in 2 .. Len(e) : e[i].kind # "head"
             /\ \E i \in 2 .. Len(e) : e[i].kind = "evidence"
<1> DEFINE f == <<HeadLine(a, TRUE)>> \o more
           v == Line("evidence")
           e == f \o <<v>>
<1>1. /\ f \in Seq(Lines) /\ Len(f) >= 1 /\ f[1] = HeadLine(a, TRUE)
      /\ \A i \in 2 .. Len(f) : f[i].kind # "head"
  BY CommentIs
<1>2. v \in Lines /\ v.kind = "evidence"
  BY LinesAre DEF Line
<1> HIDE DEF f, v
<1>3. /\ e \in Seq(Lines) /\ Len(e) = Len(f) + 1 /\ Len(f) \in Nat
      /\ \A i \in 1 .. Len(f) : e[i] = f[i]
      /\ e[Len(f) + 1] = v
  BY <1>1, <1>2
<1> HIDE DEF e
<1>4. e[1] = HeadLine(a, TRUE)
  <2>1. 1 \in 1 .. Len(f)
    BY <1>1, <1>3
  <2> QED
    BY <1>1, <1>3, <2>1, Zenon
<1>5. \A i \in 2 .. Len(e) : e[i].kind # "head"
  BY <1>1, <1>2, <1>3
<1>6. \E i \in 2 .. Len(e) : e[i].kind = "evidence"
  <2>1. Len(f) + 1 \in 2 .. Len(e)
    BY <1>1, <1>3
  <2> QED
    BY <1>2, <1>3, <2>1
<1>7. Len(e) >= 1
  BY <1>3
<1> QED
  BY <1>3, <1>4, <1>5, <1>6, <1>7 DEF e, f, v

LEMMA PostInvNext ==
  ASSUME PostInv, [TextNext]_textVars, \A b \in Bodies : ~Marked(b.lines)
  PROVE  PostInv'
<1>0. granted \in Nat
  BY GrantedIsNumber
<1>1. ASSUME NEW a \in Authors, NEW bracket \in BOOLEAN, NEW more \in Continuations, ~Forgeable(more)
      PROVE  LET e == <<HeadLine(a, bracket)>> \o more
             IN  /\ e \in Seq(Lines) /\ Len(e) >= 1 /\ e[1] = HeadLine(a, bracket)
                 /\ \A i \in 2 .. Len(e) : e[i].kind \notin {"head", "evidence"}
  BY <1>1, CommentIs
<1>2. \A a, b : HeadLine(a, b).kind = "head" /\ HeadLine(a, b).bracket = b /\ HeadLine(a, b).author = a
  BY DEF HeadLine
<1>3. ASSUME NEW a \in Authors, NEW bracket \in BOOLEAN, NEW more \in Continuations, ~Forgeable(more),
             NEW f \in Seq(Lines), IsFront(f),
             Put(f, <<HeadLine(a, bracket)>> \o more), granted' = granted
      PROVE  PostInv'
  <2> DEFINE e == <<HeadLine(a, bracket)>> \o more
  <2>1. /\ e \in Seq(Lines) /\ Len(e) >= 1 /\ e[1].kind = "head"
        /\ \A i \in 2 .. Len(e) : e[i].kind # "head" /\ e[i].kind # "evidence"
    BY <1>1, <1>2, <1>3
  <2>2. Put(f, e)
    BY <1>3
  <2> HIDE DEF e
  <2>3. granted' = granted + IF e[1].bracket /\ e[1].author # Owner
                                    /\ \E i \in 2 .. Len(e) : e[i].kind = "evidence"
                              THEN 1 ELSE 0
    BY <1>0, <1>3, <2>1
  <2> QED
    BY <1>3, <2>1, <2>2, <2>3, PutCounts
<1> DEFINE kept == UpToMarker(OnDisk(tail))
<1>k. kept \in Seq(Lines) /\ IsFront(kept)
  BY OnDiskLines, KeptIsFront DEF PostInv, IsFront
<1> HIDE DEF kept
<1>4. ASSUME NEW a \in Authors, NEW more \in Continuations, Review(a, more)
      PROVE  PostInv'
  <2> DEFINE e == <<HeadLine(a, TRUE)>> \o more \o <<Line("evidence")>>
  <2>1. /\ e \in Seq(Lines) /\ Len(e) >= 1 /\ e[1] = HeadLine(a, TRUE)
        /\ \A i \in 2 .. Len(e) : e[i].kind # "head"
        /\ \E i \in 2 .. Len(e) : e[i].kind = "evidence"
    BY <1>4, ReviewIs DEF Review
  <2>2. Put(kept, e) /\ granted' = granted + 1 /\ a # Owner
    BY <1>4 DEF Review, PutBehind, kept
  <2> HIDE DEF e
  <2>3. e[1].kind = "head" /\ e[1].bracket /\ e[1].author # Owner
    <3>1. HeadLine(a, TRUE).kind = "head" /\ HeadLine(a, TRUE).bracket /\ HeadLine(a, TRUE).author = a
      BY DEF HeadLine
    <3> QED
      BY <2>1, <2>2, <3>1, Zenon
  <2> QED
    BY <1>k, <2>1, <2>2, <2>3, PutCounts
<1>5. ASSUME NEW a \in Authors, NEW bracket \in BOOLEAN, NEW more \in Continuations, Remark(a, bracket, more)
      PROVE  PostInv'
  BY <1>3, <1>5, <1>k DEF Remark, PutBehind, kept
<1>6. ASSUME NEW ks, NEW a \in Authors, NEW more \in Continuations, EditKept(ks, a, more)
      PROVE  PostInv'
  BY <1>3, <1>6, <1>k DEF EditKept, PutBehind, kept
<1>7. ASSUME NEW ks, NEW b \in Bodies, NEW a \in Authors, NEW more \in Continuations, EditBody(ks, b, a, more)
      PROVE  PostInv'
  <2> DEFINE f == Append(b.lines, Line("marker"))
  <2>1. b.lines \in Seq(Lines) /\ ~Marked(b.lines)
    BY TextAssumption
  <2>2. f \in Seq(Lines) /\ IsFront(f)
    BY <2>1, AppendedIsFront DEF IsFront
  <2>3. Put(f, <<HeadLine(a, FALSE)>> \o more) /\ ~Forgeable(more) /\ granted' = granted
    BY <1>7 DEF EditBody
  <2> HIDE DEF f
  <2> QED
    BY <1>3, <2>2, <2>3
<1>8. CASE UNCHANGED textVars
  BY <1>8 DEF textVars, PostInv, OnDisk
<1> QED
  BY <1>4, <1>5, <1>6, <1>7, <1>8 DEF TextNext

(* The reviews that a reader of a post counts are those that were accepted   *)
(* as reviews and those the post came with, however often its comments are   *)
(* read and written again and whatever stood between them: no remark, no     *)
(* edit, also of the body, and no text in either is ever taken for one, and  *)
(* none is lost, as long as no new body has a marker in it.                  *)
THEOREM ReviewsStayEarned ==
  ASSUME \A b \in Bodies : ~Marked(b.lines)
  PROVE  TextSpec => []ReviewsAreEarned
<1>1. PostInv => ReviewsAreEarned
  <2> SUFFICES ASSUME PostInv PROVE ReviewsAreEarned
    OBVIOUS
  <2>1. OnDisk(tail) \in Seq(Lines)
    BY OnDiskLines DEF PostInv
  <2>2. Counted(OnDisk(tail)) = CountedIn(OnDisk(tail))
    BY <2>1, CountedAre DEF CountedIn
  <2> QED
    BY <2>2 DEF PostInv, ReviewsAreEarned
<1>2. PostInv /\ [TextNext]_textVars => PostInv'
  BY PostInvNext
<1> QED
  BY <1>1, <1>2, PostInvInit, PTL DEF TextSpec

------------------------------------------------------------------------------
(* Where a key stands in the front matter, and what an edit does to it.      *)

LEMMA SegmentsAre ==
  ASSUME NEW k \in Words, NEW v \in Words
  PROVE  /\ Segment(k, v) \in Segments
         /\ Segment(k, v).key = k /\ Segment(k, v).label = k /\ Segment(k, v).val = v
BY DEF Segment, Segments

LEMMA KeysAre ==
  ASSUME NEW l \in Seq(Segments)
  PROVE  /\ KeysAt(l) \in SUBSET (1 .. Len(l)) /\ Len(l) \in Nat
         /\ \A x \in 1 .. Len(l) :
               x \in KeysAt(l) <=> l[x].key # "" /\ \A j \in 1 .. x - 1 : l[j].key # "summary"
<1>1. DOMAIN l = 1 .. Len(l) /\ Len(l) \in Nat
  OBVIOUS
<1>2. KeysAt(l) = {x \in 1 .. Len(l) : l[x].key # "" /\ \A j \in 1 .. x - 1 : l[j].key # "summary"}
  <2>1. \A s : s \notin RestOfLine <=> s # "summary"
    BY DEF RestOfLine
  <2> QED
    BY <1>1, <2>1, Zenon DEF KeysAt, Looked
<1> QED
  BY <1>1, <1>2, Zenon

LEMMA PlacesAre ==
  ASSUME NEW text, NEW k
  PROVE  \A n, i : <<n, i>> \in Places(text, k) <=>
                     n \in DOMAIN text /\ i \in KeysAt(text[n]) /\ text[n][i].key = k
<1>1. ASSUME NEW p
      PROVE  p \in Places(text, k) <=>
               \E n \in DOMAIN text : \E i \in KeysAt(text[n]) : text[n][i].key = k /\ p = <<n, i>>
  <2> DEFINE S(n) == {<<n, i>> : i \in {x \in KeysAt(text[n]) : text[n][x].key = k}}
  <2>1. p \in Places(text, k) <=> \E n \in DOMAIN text : p \in S(n)
    <3> HIDE DEF S
    <3>1. Places(text, k) = UNION {S(n) : n \in DOMAIN text}
      BY DEF Places, S
    <3> QED
      BY <3>1, Zenon
  <2>2. ASSUME NEW n PROVE p \in S(n) <=> \E i \in KeysAt(text[n]) : text[n][i].key = k /\ p = <<n, i>>
    BY Zenon
  <2> HIDE DEF S
  <2> QED
    BY <2>1, <2>2, Zenon
<1>2. \A n, i, x, y : <<n, i>> = <<x, y>> => n = x /\ i = y
  OBVIOUS
<1>3. \A n, i : <<n, i>> \in Places(text, k) <=>
                n \in DOMAIN text /\ i \in KeysAt(text[n]) /\ text[n][i].key = k
  <2> SUFFICES ASSUME NEW n, NEW i
               PROVE  <<n, i>> \in Places(text, k) <=>
                        n \in DOMAIN text /\ i \in KeysAt(text[n]) /\ text[n][i].key = k
    OBVIOUS
  <2>1. ASSUME <<n, i>> \in Places(text, k)
        PROVE  n \in DOMAIN text /\ i \in KeysAt(text[n]) /\ text[n][i].key = k
    <3>1. PICK x \in DOMAIN text : \E y \in KeysAt(text[x]) : text[x][y].key = k /\ <<n, i>> = <<x, y>>
      BY <1>1, <2>1, Zenon
    <3>2. PICK y \in KeysAt(text[x]) : text[x][y].key = k /\ <<n, i>> = <<x, y>>
      BY <3>1, Zenon
    <3>3. n = x /\ i = y
      BY <1>2, <3>2, Zenon
    <3> QED
      BY <3>2, <3>3, Zenon
  <2>2. ASSUME n \in DOMAIN text, i \in KeysAt(text[n]), text[n][i].key = k
        PROVE  <<n, i>> \in Places(text, k)
    BY <1>1, <2>2, Zenon
  <2> QED
    BY <2>1, <2>2, Zenon
<1> QED
  BY <1>3, Zenon

LEMMA PlacesArePairs ==
  ASSUME NEW text, NEW k, NEW p \in Places(text, k)
  PROVE  p = <<p[1], p[2]>>
<1>1. PICK n \in DOMAIN text : p \in {<<n, i>> : i \in {x \in KeysAt(text[n]) : text[n][x].key = k}}
  BY DEF Places
<1>2. PICK i : p = <<n, i>>
  BY <1>1
<1>3. p[1] = n /\ p[2] = i
  BY <1>2
<1> QED
  BY <1>2, <1>3, Zenon

LEMMA LastPlaceIs ==
  ASSUME NEW text \in Seq(Seq(Segments)), NEW k, Places(text, k) # {}
  PROVE  LastPlace(text, k) \in Places(text, k)
<1> DEFINE P == Places(text, k)
           R == {p[1] : p \in P}
<1>1. ASSUME NEW p \in P
      PROVE  /\ p = <<p[1], p[2]>> /\ p[1] \in 1 .. Len(text)
             /\ text[p[1]] \in Seq(Segments) /\ p[2] \in 1 .. Len(text[p[1]])
  <2>1. p = <<p[1], p[2]>> /\ p[1] \in DOMAIN text /\ p[2] \in KeysAt(text[p[1]])
    <3>1. p = <<p[1], p[2]>>
      BY PlacesArePairs
    <3>2. <<p[1], p[2]>> \in Places(text, k)
      BY <3>1, Zenon
    <3>3. \A x, y : <<x, y>> \in Places(text, k) => x \in DOMAIN text /\ y \in KeysAt(text[x])
      BY PlacesAre, Zenon
    <3>4. p[1] \in DOMAIN text /\ p[2] \in KeysAt(text[p[1]])
      <4> DEFINE x == p[1]
                 y == p[2]
      <4> HIDE DEF x, y, P
      <4>1. <<x, y>> \in Places(text, k)
        BY <3>2 DEF x, y
      <4>2. x \in DOMAIN text /\ y \in KeysAt(text[x])
        BY <3>3, <4>1, Zenon
      <4> QED
        BY <4>2 DEF x, y
    <3> QED
      BY <3>1, <3>4, Zenon
  <2>2. p[1] \in 1 .. Len(text) /\ text[p[1]] \in Seq(Segments)
    BY <2>1
  <2>3. p[2] \in 1 .. Len(text[p[1]])
    BY <2>1, <2>2, KeysAre
  <2> QED
    BY <2>1, <2>2, <2>3
<1> HIDE DEF P
<1>2. R \in SUBSET (1 .. Len(text)) /\ R # {} /\ Len(text) \in Nat
  <2>1. PICK p \in P : TRUE
    BY DEF P
  <2>2. p[1] \in R
    OBVIOUS
  <2> QED
    BY <1>1, <2>2
<1>3. PICK r \in R : \A x \in R : x <= r
  <2> HIDE DEF R
  <2> QED
    BY <1>2, LastPosition
<1> DEFINE n == Len(text[r])
           C == {c \in 1 .. n : <<r, c>> \in P}
<1>4. C \in SUBSET (1 .. n) /\ C # {} /\ n \in Nat
  <2>1. PICK p \in P : p[1] = r
    BY <1>3
  <2>2. p = <<r, p[2]>> /\ p[2] \in 1 .. n /\ n \in Nat
    BY <1>1, <2>1
  <2> HIDE DEF n
  <2>3. p[2] \in C
    BY <2>2
  <2> QED
    BY <2>2, <2>3
<1> HIDE DEF n
<1>5. PICK c \in C : \A x \in C : x <= c
  <2> HIDE DEF C
  <2> QED
    BY <1>4, LastPosition
<1>6. ASSUME NEW q \in P PROVE After(<<r, c>>, q)
  <2>1. q = <<q[1], q[2]>> /\ q[1] \in 1 .. Len(text) /\ q[2] \in 1 .. Len(text[q[1]]) /\ q[1] \in R
    BY <1>1
  <2>2. r \in 1 .. Len(text) /\ c \in 1 .. n /\ q[1] <= r
    BY <1>2, <1>3, <1>5, <2>1
  <2>3. q[1] = r => q[2] \in C
    <3> SUFFICES ASSUME q[1] = r PROVE q[2] \in C
      OBVIOUS
    <3>1. q[2] \in 1 .. n /\ <<r, q[2]>> \in P
      BY <2>1 DEF n
    <3> QED
      BY <3>1
  <2>4. q[1] = r => q[2] <= c
    BY <1>5, <2>3
  <2>5. q[1] < r \/ q[1] = r
    BY <1>2, <2>1, <2>2
  <2>6. r > q[1] \/ (r = q[1] /\ c >= q[2])
    BY <1>2, <1>4, <2>1, <2>2, <2>4, <2>5
  <2> QED
    BY <2>6 DEF After
<1>7. <<r, c>> \in P
  BY <1>5
<1>8. \E p \in P : \A q \in P : After(p, q)
  BY <1>6, <1>7
<1> QED
  BY <1>8 DEF LastPlace, P

(* The end of a value, told without looking for it. *)
LEMMA OneNextKey ==
  ASSUME NEW n \in Nat, NEW K \in SUBSET (1 .. n), NEW x \in 1 .. n
  PROVE  /\ \E e \in x .. n : K \cap (x + 1 .. e) = {} /\ (e < n => e + 1 \in K)
         /\ \A e, j \in x .. n :
               /\ K \cap (x + 1 .. e) = {} /\ (e < n => e + 1 \in K)
               /\ K \cap (x + 1 .. j) = {} /\ (j < n => j + 1 \in K)
               => e = j
<1>1. \E e \in x .. n : K \cap (x + 1 .. e) = {} /\ (e < n => e + 1 \in K)
  <2> DEFINE S == K \cap (x + 1 .. n)
  <2>1. CASE S = {}
    BY <2>1
  <2>2. CASE S # {}
    <3>1. S \in SUBSET (1 .. n)
      OBVIOUS
    <3>2. PICK h \in S : \A y \in S : h <= y
      <4> HIDE DEF S
      <4> QED
        BY <2>2, <3>1, FirstPosition
    <3>3. h - 1 \in x .. n /\ K \cap (x + 1 .. h - 1) = {} /\ (h - 1) + 1 \in K
      BY <3>2
    <3> QED
      BY <3>3
  <2> QED
    BY <2>1, <2>2
<1>2. ASSUME NEW e \in x .. n, NEW j \in x .. n, K \cap (x + 1 .. e) = {}, j < n => j + 1 \in K
      PROVE  ~(j < e)
  <2> SUFFICES ASSUME j < e PROVE FALSE
    OBVIOUS
  <2>1. j + 1 \in x + 1 .. e /\ j < n
    OBVIOUS
  <2> QED
    BY <1>2, <2>1
<1>3. ASSUME NEW e \in x .. n, NEW j \in x .. n,
             K \cap (x + 1 .. e) = {}, e < n => e + 1 \in K,
             K \cap (x + 1 .. j) = {}, j < n => j + 1 \in K
      PROVE  e = j
  <2>1. ~(j < e) /\ ~(e < j)
    BY <1>2, <1>3
  <2> QED
    BY <2>1
<1> QED
  BY <1>1, <1>3

Keyed(line) == {y \in 1 .. Len(line) : line[y].key # ""}

EndsAt(line, x, e) ==
    /\ e \in x .. Len(line)
    /\ Keyed(line) \cap (x + 1 .. e) = {}
    /\ e < Len(line) => e + 1 \in Keyed(line)

LEMMA LastOfIs ==
  ASSUME NEW line \in Seq(Segments), NEW x \in 1 .. Len(line), line[x].key # "summary"
  PROVE  EndsAt(line, x, LastOf(line, x)) /\ \A e : EndsAt(line, x, e) => e = LastOf(line, x)
<1> DEFINE n == Len(line)
           K == Keyed(line)
           Ends(j) == (\A y \in x + 1 .. j : line[y].key = "") /\ (j < n => line[j + 1].key # "")
<1>1. ASSUME NEW j \in x .. n PROVE Ends(j) <=> EndsAt(line, x, j)
  <2>1. (\A y \in x + 1 .. j : line[y].key = "") <=> K \cap (x + 1 .. j) = {}
    <3>1. \A y \in x + 1 .. j : y \in 1 .. n
      OBVIOUS
    <3> QED
      BY <3>1 DEF Keyed
  <2>2. j < n => j + 1 \in 1 .. n
    OBVIOUS
  <2>3. j < n => (line[j + 1].key # "" <=> j + 1 \in K)
    BY <2>2 DEF Keyed
  <2> QED
    BY <2>1, <2>3 DEF EndsAt
<1>2. LastOf(line, x) = CHOOSE j \in x .. n : Ends(j)
  BY DEF LastOf, RestOfLine
<1>3. K \in SUBSET (1 .. n) /\ n \in Nat
  <2>1. K \in SUBSET (1 .. n)
    BY DEF Keyed
  <2> QED
    BY <2>1
<1> HIDE DEF Ends
<1>4. \E j \in x .. n : Ends(j)
  <2>1. \E e \in x .. n : K \cap (x + 1 .. e) = {} /\ (e < n => e + 1 \in K)
    <3> HIDE DEF K, n
    <3> QED
      BY <1>3, OneNextKey DEF n
  <2> QED
    BY <1>1, <2>1 DEF EndsAt
<1>5. LastOf(line, x) \in x .. n /\ Ends(LastOf(line, x))
  BY <1>2, <1>4
<1>6. \A e, j : EndsAt(line, x, e) /\ EndsAt(line, x, j) => e = j
  <2> HIDE DEF K, n
  <2> QED
    BY <1>3, OneNextKey DEF EndsAt, n, K
<1> QED
  BY <1>1, <1>5, <1>6


(* One segment is new; of a summary what stood behind it is gone. *)
LEMMA ReplacedLine ==
  ASSUME NEW l \in Seq(Segments), NEW i \in 1 .. Len(l), NEW k \in Words, NEW v \in Words
  PROVE  LET m == Replaced(l, i, k, v)
         IN  /\ m \in Seq(Segments)
             /\ k = "summary" => Len(m) = i
             /\ k # "summary" => Len(m) = Len(l)
             /\ \A x \in 1 .. Len(m) : x # i => m[x] = l[x]
             /\ m[i] = Segment(k, v)
<1> DEFINE a == SubSeq(l, 1, i - 1)
           w == Segment(k, v)
           c == IF k \in RestOfLine THEN <<>> ELSE SubSeq(l, i + 1, Len(l))
           n == Len(l)
<1>1. n \in Nat /\ w \in Segments
  BY SegmentsAre
<1>2. /\ a \in Seq(Segments) /\ Len(a) = i - 1 /\ \A x \in 1 .. i - 1 : a[x] = l[x]
  OBVIOUS
<1>3. /\ c \in Seq(Segments) /\ Len(c) \in Nat
      /\ k = "summary" => Len(c) = 0
      /\ k # "summary" => Len(c) = n - i
      /\ \A x \in 1 .. Len(c) : c[x] = l[i + x]
  <2>1. CASE k = "summary"
    <3>1. c = <<>>
      BY <2>1 DEF RestOfLine
    <3> HIDE DEF c
    <3> QED
      BY <2>1, <3>1
  <2>2. CASE k # "summary"
    <3>1. c = SubSeq(l, i + 1, n)
      BY <2>2 DEF RestOfLine
    <3>2. SubSeq(l, i + 1, n) \in Seq(Segments) /\ Len(SubSeq(l, i + 1, n)) = n - i
          /\ \A x \in 1 .. n - i : SubSeq(l, i + 1, n)[x] = l[i + x]
      BY <1>1
    <3> QED
      <4> HIDE DEF c
      <4> QED
        BY <1>1, <2>2, <3>1, <3>2
  <2> QED
    BY <2>1, <2>2
<1>4. Replaced(l, i, k, v) = (a \o <<w>>) \o c
  BY DEF Replaced
<1> HIDE DEF a, w, c
<1> DEFINE b == a \o <<w>>
<1>5. /\ b \in Seq(Segments) /\ Len(b) = i
      /\ \A x \in 1 .. i - 1 : b[x] = a[x]
      /\ b[i] = w
  BY <1>1, <1>2
<1> HIDE DEF b
<1> DEFINE m == b \o c
<1>6. /\ m \in Seq(Segments) /\ Len(m) = i + Len(c)
      /\ \A x \in 1 .. i : m[x] = b[x]
      /\ \A x \in 1 .. Len(c) : m[i + x] = c[x]
  <2>1. b \in Seq(Segments) /\ c \in Seq(Segments) /\ Len(b) = i
    BY <1>3, <1>5
  <2> QED
    BY <2>1
<1> HIDE DEF m
<1>7. ASSUME NEW x \in 1 .. Len(m), x # i PROVE m[x] = l[x]
  <2>1. CASE x < i
    BY <1>2, <1>5, <1>6, <2>1
  <2>2. CASE x > i
    <3>1. x - i \in 1 .. Len(c) /\ i + (x - i) = x
      <4>1. Len(c) \in Nat /\ Len(m) = i + Len(c) /\ x \in 1 .. Len(m)
        BY <1>3, <1>6
      <4> QED
        BY <2>2, <4>1
    <3> QED
      BY <1>3, <1>6, <3>1
  <2> QED
    BY <1>6, <1>7, <2>1, <2>2
<1>8. (k = "summary" => Len(m) = i) /\ (k # "summary" => Len(m) = Len(l))
  BY <1>1, <1>3, <1>6
<1>9. m[i] = w
  BY <1>5, <1>6
<1>10. m = Replaced(l, i, k, v)
  BY <1>4 DEF m, b
<1> QED
  BY <1>6, <1>7, <1>8, <1>9, <1>10 DEF w


(* A line l, and m with the segment at i replaced. *)
Edited(l, m, i, k, v) ==
    /\ i \in KeysAt(l) /\ l[i].key = k
    /\ i \in 1 .. Len(m)
    /\ k = "summary" => Len(m) = i
    /\ k # "summary" => Len(m) = Len(l)
    /\ \A x \in 1 .. Len(m) : x # i => m[x] = l[x]
    /\ m[i] = Segment(k, v)

(* The keys stay where they are: behind a summary there were none.          *)
LEMMA KeysStay ==
  ASSUME NEW l \in Seq(Segments), NEW m \in Seq(Segments), NEW i \in Nat, NEW k \in Words, NEW v \in Words,
         Edited(l, m, i, k, v)
  PROVE  /\ i \in 1 .. Len(m) /\ Len(m) <= Len(l)
         /\ \A x \in 1 .. Len(m) : m[x].key = l[x].key
         /\ KeysAt(m) = KeysAt(l)
         /\ \A x \in KeysAt(l) : x \in 1 .. Len(m)
<1> DEFINE A == KeysAt(l)
           B == KeysAt(m)
           p == Len(l)
           q == Len(m)
<1>1. p \in Nat /\ q \in Nat /\ A \in SUBSET (1 .. p) /\ B \in SUBSET (1 .. q)
  BY KeysAre
<1>2. i \in A /\ i \in 1 .. q /\ (k = "summary" => q = i) /\ (k # "summary" => q = p)
  BY DEF Edited
<1>3. \A x \in 1 .. q : m[x].key = l[x].key
  <2>1. m[i].key = l[i].key
    BY SegmentsAre DEF Edited
  <2> QED
    BY <2>1 DEF Edited
<1>4. l[i].key = k
  BY DEF Edited
<1>5. \A x \in 1 .. p : x \in A <=> l[x].key # "" /\ \A j \in 1 .. x - 1 : l[j].key # "summary"
  BY KeysAre
<1>6. \A x \in 1 .. q : x \in B <=> m[x].key # "" /\ \A j \in 1 .. x - 1 : m[j].key # "summary"
  BY KeysAre
<1> HIDE DEF A, B, p, q
<1>7. q <= p
  BY <1>1, <1>2
<1>8. ASSUME NEW x \in A PROVE x \in 1 .. q
  <2>1. k = "summary" => ~(i \in 1 .. x - 1)
    BY <1>1, <1>4, <1>5
  <2> QED
    BY <1>1, <1>2, <2>1
<1>9. ASSUME NEW x \in 1 .. q PROVE x \in B <=> x \in A
  <2>1. x \in 1 .. p /\ \A j \in 1 .. x - 1 : j \in 1 .. q
    BY <1>1, <1>7
  <2> QED
    BY <1>3, <1>5, <1>6, <2>1, Zenon
<1>10. A = B
  BY <1>1, <1>8, <1>9, Zenon
<1> QED
  BY <1>2, <1>3, <1>7, <1>8, <1>10 DEF A, B, p, q

LEMMA SamePart ==
  ASSUME NEW p \in Seq(Segments), NEW q \in Seq(Segments), NEW a \in Nat, NEW b \in Int,
         a >= 1, b <= Len(p), b <= Len(q), \A y \in a .. b : p[y] = q[y]
  PROVE  SubSeq(p, a, b) = SubSeq(q, a, b)
<1>1. Len(p) \in Nat /\ Len(q) \in Nat
  OBVIOUS
<1>2. CASE b < a
  BY <1>1, <1>2
<1>3. CASE b >= a
  BY <1>1, <1>3
<1> QED
  BY <1>2, <1>3

(* A summary is the last key of its line. *)
LEMMA SummaryIsLast ==
  ASSUME NEW l \in Seq(Segments), NEW x \in KeysAt(l), NEW y \in KeysAt(l), l[x].key = "summary"
  PROVE  y <= x
<1>1. x \in 1 .. Len(l) /\ y \in 1 .. Len(l) /\ Len(l) \in Nat
  BY KeysAre
<1>2. ~(x \in 1 .. y - 1)
  BY <1>1, KeysAre
<1> QED
  BY <1>1, <1>2

(* Every other value stays ... *)
LEMMA ValuesStay ==
  ASSUME NEW l \in Seq(Segments), NEW m \in Seq(Segments), NEW i \in Nat, NEW k \in Words, NEW v \in Words,
         Edited(l, m, i, k, v), NEW x \in KeysAt(l), x # i
  PROVE  ValueAt(m, x) = ValueAt(l, x)
<1>1. /\ x \in 1 .. Len(m) /\ i \in 1 .. Len(m) /\ Len(m) <= Len(l)
      /\ Len(l) \in Nat /\ Len(m) \in Nat
  BY KeysStay
<1>2. i \in KeysAt(l) /\ l[i].key = k /\ (k = "summary" => Len(m) = i) /\ (k # "summary" => Len(m) = Len(l))
  BY DEF Edited
<1>3. \A y \in 1 .. Len(m) : y # i => m[y] = l[y]
  BY DEF Edited
<1>4. m[x] = l[x]
  BY <1>1, <1>3
<1>5. \A y \in 1 .. Len(m) : m[y].key = l[y].key
  BY KeysStay
<1>6. CASE l[x].key = "summary"
  <2>1. i < x
    <3>1. i <= x
      BY <1>2, <1>6, SummaryIsLast
    <3> QED
      BY <1>1, <3>1
  <2>2. Len(m) = Len(l)
    <3>1. k = "summary" => x <= i
      BY <1>2, SummaryIsLast
    <3> QED
      BY <1>1, <1>2, <2>1, <3>1
  <2>3. LastOf(l, x) = Len(l) /\ LastOf(m, x) = Len(m)
    BY <1>4, <1>6 DEF LastOf, RestOfLine
  <2>4. SubSeq(m, x + 1, Len(m)) = SubSeq(l, x + 1, Len(m))
    <3>1. \A y \in x + 1 .. Len(m) : m[y] = l[y]
      BY <1>1, <1>3, <2>1
    <3> QED
      BY <1>1, <3>1, SamePart
  <2> QED
    BY <1>4, <2>2, <2>3, <2>4 DEF ValueAt
<1>7. CASE l[x].key # "summary"
  <2> DEFINE e == LastOf(l, x)
             A == Keyed(l)
             B == Keyed(m)
             p == Len(l)
             q == Len(m)
  <2>1. e \in x .. p /\ A \cap (x + 1 .. e) = {} /\ (e < p => e + 1 \in A)
    BY <1>1, <1>7, LastOfIs DEF EndsAt
  <2>2. i \in A
    BY <1>1, <1>2, KeysAre DEF Keyed
  <2>3. \A y \in 1 .. q : y \in B <=> y \in A
    <3>1. \A y \in 1 .. Len(m) : y \in 1 .. Len(l)
      BY <1>1
    <3> QED
      BY <1>5, <3>1, Zenon DEF Keyed
  <2>4. x \in 1 .. q /\ i \in 1 .. q /\ q <= p /\ p \in Nat /\ q \in Nat
    BY <1>1
  <2> HIDE DEF e, A, B, p, q
  <2>5. i < x \/ e < i
    BY <2>1, <2>2, <2>4
  <2>6. e <= q
    <3>1. k = "summary" => i >= x
      BY <1>2, SummaryIsLast
    <3>2. k = "summary" => e < i
      BY <2>4, <2>5, <3>1
    <3>3. k # "summary" => q = p
      BY <1>2 DEF p, q
    <3> QED
      BY <2>1, <2>4, <3>2, <3>3
  <2>7. e \in x .. q /\ B \cap (x + 1 .. e) = {} /\ (e < q => e + 1 \in B)
    <3>1. \A y \in x + 1 .. e : y \in 1 .. q
      BY <2>1, <2>4, <2>6
    <3>2. e < q => e + 1 \in 1 .. q /\ e < p
      BY <2>1, <2>4
    <3>3. e \in x .. q
      BY <2>1, <2>4, <2>6
    <3> QED
      BY <2>1, <2>3, <3>1, <3>2, <3>3
  <2>8. EndsAt(m, x, e)
    BY <2>7 DEF EndsAt, B, q
  <2>9. LastOf(m, x) = e
    <3>1. x \in 1 .. Len(m) /\ m[x].key # "summary"
      BY <1>1, <1>4, <1>7
    <3> QED
      BY <2>8, <3>1, LastOfIs
  <2>10. SubSeq(m, x + 1, e) = SubSeq(l, x + 1, e)
    <3>1. \A y \in x + 1 .. e : y \in 1 .. q /\ y # i
      BY <2>1, <2>4, <2>5, <2>6
    <3>2. \A y \in x + 1 .. e : m[y] = l[y]
      BY <1>3, <3>1 DEF q
    <3>3. x + 1 \in Nat /\ e \in Int /\ x + 1 >= 1 /\ e <= q /\ e <= p
      BY <2>1, <2>4, <2>6
    <3> QED
      BY <3>2, <3>3, SamePart DEF p, q
  <2> QED
    BY <1>4, <2>9, <2>10 DEF ValueAt, e
<1> QED
  BY <1>6, <1>7

(* ... and the new one is what was written, if a status is one segment.      *)
LEMMA NewValue ==
  ASSUME NEW l \in Seq(Segments), NEW m \in Seq(Segments), NEW i \in Nat, NEW k \in Words, NEW v \in Words,
         Edited(l, m, i, k, v),
         k # "summary" => Alone(l, i)
  PROVE  ValueAt(m, i) = <<v>>
<1>1. i \in 1 .. Len(m) /\ Len(l) \in Nat /\ Len(m) \in Nat
  BY KeysStay
<1>2. (k = "summary" => Len(m) = i) /\ (k # "summary" => Len(m) = Len(l)) /\ m[i] = Segment(k, v)
  BY DEF Edited
<1>3. m[i].key = k /\ m[i].val = v
  BY <1>2, SegmentsAre
<1>4. LastOf(m, i) = i
  <2>1. CASE k = "summary"
    BY <1>2, <1>3, <2>1 DEF LastOf, RestOfLine
  <2>2. CASE k # "summary"
    <3>1. i < Len(m) => m[i + 1].key # "" /\ i + 1 \in 1 .. Len(m)
      <4>1. \A y \in 1 .. Len(m) : m[y].key = l[y].key
        BY KeysStay
      <4>2. i < Len(m) => i + 1 \in 1 .. Len(m)
        BY <1>1
      <4> QED
        BY <1>2, <2>2, <4>1, <4>2 DEF Alone
    <3>2. i < Len(m) => i + 1 \in Keyed(m)
      BY <3>1 DEF Keyed
    <3>3. i \in i .. Len(m) /\ i + 1 .. i = {}
      BY <1>1
    <3>4. EndsAt(m, i, i)
      BY <3>2, <3>3 DEF EndsAt
    <3> QED
      BY <1>1, <1>3, <2>2, <3>4, LastOfIs
  <2> QED
    BY <2>1, <2>2
<1>5. SubSeq(m, i + 1, i) = <<>>
  BY <1>1
<1>6. <<m[i].val>> \o <<>> = <<m[i].val>>
  OBVIOUS
<1> QED
  BY <1>3, <1>4, <1>5, <1>6 DEF ValueAt

(* Without lookalikes the writer finds what the reader finds. *)
LineAgrees(l) ==
    \A i \in Looked(l) \cup Scanned(l) :
        \A k \in {"summary", "status"} : l[i].key = k <=> l[i].label = k

LEMMA LinesAgree ==
  ASSUME NEW l \in Seq(Segments), LineAgrees(l), NEW k \in {"summary", "status"}, NEW x
  PROVE  x \in KeysAt(l) /\ l[x].key = k <=> x \in Scanned(l) /\ l[x].label = k
<1> DEFINE n == Len(l)
<1>1. DOMAIN l = 1 .. n /\ n \in Nat
  OBVIOUS
<1>2. \A y : y \in Looked(l) <=> y \in 1 .. n /\ \A j \in 1 .. y - 1 : l[j].key # "summary"
  BY <1>1 DEF Looked, RestOfLine
<1>3. \A y : y \in Scanned(l) <=> y \in 1 .. n /\ \A j \in 1 .. y - 1 : l[j].label # "summary"
  BY <1>1 DEF Scanned, RestOfLine
<1> HIDE DEF n
<1>4. \A y \in 1 .. n : \A j \in 1 .. y - 1 : j \in 1 .. n /\ \A i \in 1 .. j - 1 : i \in 1 .. y - 1
  BY <1>1
<1>5. ASSUME x \in KeysAt(l), l[x].key = k
      PROVE  x \in Scanned(l) /\ l[x].label = k
  <2>1. x \in Looked(l)
    BY <1>5 DEF KeysAt
  <2>2. \A j \in 1 .. x - 1 : j \in Looked(l)
    BY <1>2, <1>4, <2>1, Zenon
  <2>3. \A j \in 1 .. x - 1 : l[j].label # "summary"
    BY <1>2, <2>1, <2>2, Zenon DEF LineAgrees
  <2> QED
    BY <1>2, <1>3, <1>5, <2>1, <2>3, Zenon DEF LineAgrees
<1>6. ASSUME x \in Scanned(l), l[x].label = k
      PROVE  x \in KeysAt(l) /\ l[x].key = k
  <2>1. \A j \in 1 .. x - 1 : j \in Scanned(l)
    BY <1>3, <1>4, <1>6, Zenon
  <2>2. \A j \in 1 .. x - 1 : l[j].key # "summary"
    BY <1>3, <1>6, <2>1, Zenon DEF LineAgrees
  <2>3. x \in Looked(l) /\ l[x].key = k
    BY <1>2, <1>3, <1>6, <2>2, Zenon DEF LineAgrees
  <2>4. k # ""
    OBVIOUS
  <2> QED
    BY <2>3, <2>4 DEF KeysAt
<1> QED
  BY <1>5, <1>6

LEMMA MarksArePlaces ==
  ASSUME NEW text \in Seq(Seq(Segments)), NoLookalikes(text), NEW k \in {"summary", "status"}
  PROVE  Marks(text, k) = Places(text, k) /\ Target(text, k) = LastPlace(text, k)
<1> DEFINE S(n) == {<<n, i>> : i \in {x \in KeysAt(text[n]) : text[n][x].key = k}}
           T(n) == {<<n, i>> : i \in {x \in Scanned(text[n]) : text[n][x].label = k}}
<1>1. ASSUME NEW n \in DOMAIN text PROVE S(n) = T(n)
  <2>1. text[n] \in Seq(Segments)
    OBVIOUS
  <2>2. LineAgrees(text[n])
    BY DEF NoLookalikes, LineAgrees
  <2> DEFINE A == {x \in KeysAt(text[n]) : text[n][x].key = k}
             B == {x \in Scanned(text[n]) : text[n][x].label = k}
  <2>3. A = B
    BY <2>1, <2>2, LinesAgree
  <2>4. S(n) = {<<n, i>> : i \in A} /\ T(n) = {<<n, i>> : i \in B}
    OBVIOUS
  <2> HIDE DEF A, B, S, T
  <2> QED
    BY <2>3, <2>4
<1>2. Places(text, k) = UNION {S(n) : n \in DOMAIN text} /\ Marks(text, k) = UNION {T(n) : n \in DOMAIN text}
  BY DEF Places, Marks
<1> HIDE DEF S, T
<1>3. {S(n) : n \in DOMAIN text} = {T(n) : n \in DOMAIN text}
  BY <1>1
<1>4. Marks(text, k) = Places(text, k)
  BY <1>2, <1>3
<1>5. Target(text, k) = LastPlace(text, k)
  BY <1>4, Zenon DEF Target, LastPlace
<1> QED
  BY <1>4, <1>5

(* The line of the last place of a key, before and after it is set. *)
LEMMA SetFieldIs ==
  ASSUME NEW text \in Seq(Seq(Segments)), NoLookalikes(text),
         NEW k \in {"summary", "status"}, NEW v \in Words, Places(text, k) # {}
  PROVE  LET p == LastPlace(text, k)
             new == SetField(text, k, v)
         IN  /\ p \in Places(text, k) /\ p = <<p[1], p[2]>> /\ p[1] \in DOMAIN text
             /\ new \in Seq(Seq(Segments)) /\ DOMAIN new = DOMAIN text
             /\ \A n \in DOMAIN text : n # p[1] => new[n] = text[n]
             /\ p[2] \in Nat /\ text[p[1]] \in Seq(Segments) /\ new[p[1]] \in Seq(Segments)
             /\ Edited(text[p[1]], new[p[1]], p[2], k, v)
<1> DEFINE p == LastPlace(text, k)
           r == p[1]
           i == p[2]
           l == text[r]
           m == Replaced(l, i, k, v)
           new == SetField(text, k, v)
<1>0. k \in Words
  BY TextAssumption
<1>1. p \in Places(text, k) /\ p = <<r, i>>
  BY LastPlaceIs, PlacesArePairs
<1>2. new = [text EXCEPT ![r] = m]
  BY MarksArePlaces DEF SetField
<1> HIDE DEF p
<1>3. r \in DOMAIN text /\ i \in KeysAt(l) /\ l[i].key = k
  <2>1. \A x, y : <<x, y>> \in Places(text, k) =>
                    x \in DOMAIN text /\ y \in KeysAt(text[x]) /\ text[x][y].key = k
    BY PlacesAre
  <2>2. <<r, i>> \in Places(text, k)
    BY <1>1, Zenon
  <2> HIDE DEF r, i
  <2> QED
    BY <2>1, <2>2, Zenon
<1> HIDE DEF r, i, new
<1>4. l \in Seq(Segments)
  BY <1>3
<1> HIDE DEF l
<1>5. i \in 1 .. Len(l) /\ Len(l) \in Nat
  BY <1>3, <1>4, KeysAre
<1>6. /\ m \in Seq(Segments)
      /\ k = "summary" => Len(m) = i
      /\ k # "summary" => Len(m) = Len(l)
      /\ \A x \in 1 .. Len(m) : x # i => m[x] = l[x]
      /\ m[i] = Segment(k, v)
  BY <1>0, <1>4, <1>5, ReplacedLine
<1> HIDE DEF m
<1>7. Edited(l, m, i, k, v)
  <2>1. i \in 1 .. Len(m)
    BY <1>5, <1>6
  <2> QED
    BY <1>3, <1>6, <2>1, Zenon DEF Edited
<1>8. /\ new \in Seq(Seq(Segments)) /\ DOMAIN new = DOMAIN text
      /\ new[r] = m /\ \A n \in DOMAIN text : n # r => new[n] = text[n]
  BY <1>2, <1>3, <1>6
<1>9. i \in Nat
  BY <1>5
<1> QED
  BY <1>1, <1>3, <1>4, <1>6, <1>7, <1>8, <1>9, Zenon DEF p, r, i, l, new

(* Nothing that is a key moves. *)
LEMMA PlacesStay ==
  ASSUME NEW text \in Seq(Seq(Segments)), NoLookalikes(text),
         NEW k \in {"summary", "status"}, NEW v \in Words, Places(text, k) # {}, NEW j
  PROVE  Places(SetField(text, k, v), j) = Places(text, j)
<1> DEFINE p == LastPlace(text, k)
           r == p[1]
           i == p[2]
           l == text[r]
           new == SetField(text, k, v)
           m == new[r]
<1>1. /\ r \in DOMAIN text /\ DOMAIN new = DOMAIN text
      /\ \A n \in DOMAIN text : n # r => new[n] = text[n]
      /\ i \in Nat /\ l \in Seq(Segments) /\ m \in Seq(Segments)
      /\ Edited(l, m, i, k, v)
  BY SetFieldIs
<1>0. k \in Words
  BY TextAssumption
<1> HIDE DEF p, r, i, l, m, new
<1>2. KeysAt(m) = KeysAt(l) /\ \A x \in KeysAt(l) : m[x].key = l[x].key
  BY <1>0, <1>1, KeysStay
<1>3. ASSUME NEW n, NEW x
      PROVE  <<n, x>> \in Places(new, j) <=> <<n, x>> \in Places(text, j)
  <2>1. <<n, x>> \in Places(new, j) <=> n \in DOMAIN text /\ x \in KeysAt(new[n]) /\ new[n][x].key = j
    BY <1>1, PlacesAre
  <2>2. <<n, x>> \in Places(text, j) <=> n \in DOMAIN text /\ x \in KeysAt(text[n]) /\ text[n][x].key = j
    BY PlacesAre
  <2>3. n \in DOMAIN text =>
          (x \in KeysAt(new[n]) /\ new[n][x].key = j <=> x \in KeysAt(text[n]) /\ text[n][x].key = j)
    <3>1. CASE n = r
      <4>1. x \in KeysAt(m) /\ m[x].key = j <=> x \in KeysAt(l) /\ l[x].key = j
        BY <1>2, Zenon
      <4> QED
        BY <3>1, <4>1, Zenon DEF m, l
    <3>2. CASE n # r
      BY <1>1, <3>2, Zenon
    <3> QED
      BY <3>1, <3>2
  <2> QED
    BY <2>1, <2>2, <2>3, Zenon
<1>4. ASSUME NEW q PROVE q \in Places(new, j) <=> q \in Places(text, j)
  <2>1. q \in Places(new, j) => q = <<q[1], q[2]>>
    BY PlacesArePairs, Zenon
  <2>2. q \in Places(text, j) => q = <<q[1], q[2]>>
    BY PlacesArePairs, Zenon
  <2>3. <<q[1], q[2]>> \in Places(new, j) <=> <<q[1], q[2]>> \in Places(text, j)
    BY <1>3, Zenon
  <2>4. CASE q = <<q[1], q[2]>>
    <3> DEFINE w == <<q[1], q[2]>>
    <3>1. w \in Places(new, j) <=> w \in Places(text, j)
      BY <2>3
    <3>2. q = w
      BY <2>4
    <3> HIDE DEF w
    <3> QED
      BY <3>1, <3>2
  <2> QED
    BY <2>1, <2>2, <2>4
<1>5. Places(new, j) = Places(text, j)
  BY <1>4, Zenon
<1> QED
  BY <1>5 DEF new

LEMMA FieldStep ==
  ASSUME NEW text \in Seq(Seq(Segments)), NoLookalikes(text), NEW k \in {"summary", "status"}, NEW v \in Words,
         Places(text, k) # {}, StatusIsAWord(text), NEW j
  PROVE  Field(SetField(text, k, v), j) = IF j = k THEN <<v>> ELSE Field(text, j)
<1> DEFINE p == LastPlace(text, k)
           r == p[1]
           i == p[2]
           l == text[r]
           new == SetField(text, k, v)
           m == new[r]
<1>0. k \in Words
  BY TextAssumption
<1>1. /\ p \in Places(text, k) /\ r \in DOMAIN text /\ DOMAIN new = DOMAIN text
      /\ p = <<r, i>>
      /\ \A n \in DOMAIN text : n # r => new[n] = text[n]
      /\ i \in Nat /\ l \in Seq(Segments) /\ m \in Seq(Segments)
      /\ Edited(l, m, i, k, v)
  BY <1>0, SetFieldIs
<1>2. Places(new, j) = Places(text, j)
  BY <1>0, PlacesStay
<1>3. LastPlace(new, j) = LastPlace(text, j)
  BY <1>2, Zenon DEF LastPlace
<1>4. CASE j = k
  <2>1. Field(new, j) = ValueAt(m, i)
    BY <1>2, <1>3, <1>4 DEF Field
  <2>2. i \in KeysAt(l) /\ l[i].key = k
    BY <1>1 DEF Edited
  <2>3. k # "summary" => Alone(l, i)
    BY <1>1, <2>2 DEF StatusIsAWord
  <2> HIDE DEF p, r, i, l, m, new
  <2>4. ValueAt(m, i) = <<v>>
    BY <1>0, <1>1, <2>3, NewValue
  <2> QED
    BY <1>4, <2>1, <2>4 DEF new
<1>5. CASE j # k /\ Places(text, j) = {}
  BY <1>2, <1>5 DEF Field
<1>6. CASE j # k /\ Places(text, j) # {}
  <2> DEFINE q == LastPlace(text, j)
             n == q[1]
             x == q[2]
  <2>1. q \in Places(text, j) /\ q = <<n, x>>
    BY <1>6, LastPlaceIs, PlacesArePairs
  <2>2. Field(new, j) = ValueAt(new[n], x) /\ Field(text, j) = ValueAt(text[n], x)
    BY <1>2, <1>3, <1>6 DEF Field
  <2> HIDE DEF q, p, r, i, l, m, new
  <2>3. n \in DOMAIN text /\ x \in KeysAt(text[n]) /\ text[n][x].key = j
    <3>1. \A a, b : <<a, b>> \in Places(text, j) =>
                      a \in DOMAIN text /\ b \in KeysAt(text[a]) /\ text[a][b].key = j
      BY PlacesAre
    <3>2. <<n, x>> \in Places(text, j)
      BY <2>1, Zenon
    <3> HIDE DEF n, x
    <3> QED
      BY <3>1, <3>2, Zenon
  <2> HIDE DEF n, x
  <2>4. ValueAt(new[n], x) = ValueAt(text[n], x)
    <3>1. CASE n # r
      BY <1>1, <2>3, <3>1, Zenon
    <3>2. CASE n = r
      <4>1. x \in KeysAt(l) /\ l[x].key = j
        BY <2>3, <3>2 DEF l
      <4>2. l[i].key = k
        BY <1>1 DEF Edited
      <4>3. x # i
        BY <1>6, <4>1, <4>2
      <4>4. ValueAt(m, x) = ValueAt(l, x)
        BY <1>0, <1>1, <4>1, <4>3, ValuesStay
      <4> QED
        BY <3>2, <4>4 DEF m, l
    <3> QED
      BY <3>1, <3>2
  <2> QED
    BY <1>6, <2>2, <2>4 DEF new
<1> QED
  BY <1>4, <1>5, <1>6

LEMMA WordsStay ==
  ASSUME NEW text \in Seq(Seq(Segments)), NoLookalikes(text),
         NEW k \in {"summary", "status"}, NEW v \in Words,
         Places(text, k) # {}, StatusIsAWord(text)
  PROVE  StatusIsAWord(SetField(text, k, v)) /\ NoLookalikes(SetField(text, k, v))
<1> DEFINE p == LastPlace(text, k)
           r == p[1]
           i == p[2]
           l == text[r]
           new == SetField(text, k, v)
           m == new[r]
<1>1. /\ r \in DOMAIN text /\ DOMAIN new = DOMAIN text
      /\ \A n \in DOMAIN text : n # r => new[n] = text[n]
      /\ i \in Nat /\ l \in Seq(Segments) /\ m \in Seq(Segments)
      /\ Edited(l, m, i, k, v)
  BY SetFieldIs
<1> HIDE DEF p, r, i, l, m, new
<1>2. /\ KeysAt(m) = KeysAt(l) /\ Len(m) <= Len(l) /\ Len(m) \in Nat /\ Len(l) \in Nat
      /\ \A x \in 1 .. Len(m) : m[x].key = l[x].key
      /\ \A x \in KeysAt(l) : x \in 1 .. Len(m)
  <2>1. i \in Nat /\ l \in Seq(Segments) /\ m \in Seq(Segments) /\ Edited(l, m, i, k, v)
    BY <1>1
  <2>2. k \in Words
    BY TextAssumption
  <2> QED
    BY <2>1, <2>2, KeysStay
<1>3. ASSUME NEW n \in DOMAIN text, NEW x \in KeysAt(new[n]), new[n][x].key = "status"
      PROVE  Alone(new[n], x)
  <2>1. CASE n # r
    BY <1>1, <1>3, <2>1, Zenon DEF StatusIsAWord
  <2>2. CASE n = r
    <3>1. x \in KeysAt(l) /\ x \in 1 .. Len(m) /\ m[x].key = "status"
      BY <1>2, <1>3, <2>2 DEF m
    <3>2. l[x].key = "status"
      BY <1>2, <3>1
    <3>3. Alone(l, x)
      BY <1>1, <3>1, <3>2, Zenon DEF StatusIsAWord, l
    <3>4. x < Len(m) => x + 1 \in 1 .. Len(m) /\ x < Len(l)
      BY <1>2, <3>1
    <3>5. x < Len(m) => m[x + 1].key # ""
      BY <1>2, <3>3, <3>4, Zenon DEF Alone
    <3>6. Alone(m, x)
      BY <3>5 DEF Alone
    <3> QED
      BY <2>2, <3>6 DEF m
  <2> QED
    BY <2>1, <2>2
<1>4. StatusIsAWord(new)
  BY <1>1, <1>3, Zenon DEF StatusIsAWord
<1>5. LineAgrees(l) /\ \A n \in DOMAIN text : LineAgrees(text[n])
  BY <1>1 DEF NoLookalikes, LineAgrees, l
<1>6. \A x \in 1 .. Len(m) : m[x].label = l[x].label
  <2>1. i \in KeysAt(l) /\ l[i].key = k /\ m[i] = Segment(k, v)
    BY <1>1 DEF Edited
  <2>2. l[i].label = k
    BY <1>5, <2>1 DEF LineAgrees, KeysAt
  <2>3. m[i].label = k
    BY <2>1 DEF Segment
  <2>4. \A x \in 1 .. Len(m) : x # i => m[x] = l[x]
    BY <1>1 DEF Edited
  <2> QED
    BY <2>2, <2>3, <2>4, Zenon
<1>7. LineAgrees(m)
  <2> DEFINE a == Len(l)
             b == Len(m)
  <2>1. DOMAIN l = 1 .. a /\ DOMAIN m = 1 .. b
    BY <1>1
  <2>2. \A x \in 1 .. b : x \in 1 .. a /\ \A j \in 1 .. x - 1 : j \in 1 .. b
    BY <1>2
  <2>3. ASSUME NEW x PROVE x \in Looked(m) => x \in Looked(l) /\ x \in 1 .. b
    <3> HIDE DEF a, b
    <3> QED
      BY <1>2, <2>1, <2>2, Zenon DEF Looked, b
  <2>4. ASSUME NEW x PROVE x \in Scanned(m) => x \in Scanned(l) /\ x \in 1 .. b
    <3> HIDE DEF a, b
    <3> QED
      BY <1>6, <2>1, <2>2, Zenon DEF Scanned, b
  <2> SUFFICES ASSUME NEW x \in Looked(m) \cup Scanned(m), NEW q \in {"summary", "status"}
               PROVE  m[x].key = q <=> m[x].label = q
    BY DEF LineAgrees
  <2>5. x \in Looked(l) \cup Scanned(l) /\ x \in 1 .. b
    BY <2>3, <2>4
  <2>6. m[x].key = l[x].key /\ m[x].label = l[x].label
    BY <1>2, <1>6, <2>5, Zenon
  <2>7. l[x].key = q <=> l[x].label = q
    BY <1>5, <2>5, Zenon DEF LineAgrees
  <2> QED
    BY <2>6, <2>7, Zenon
<1>8. ASSUME NEW n \in DOMAIN text PROVE LineAgrees(new[n])
  <2>1. CASE n = r
    BY <1>7, <2>1 DEF m
  <2>2. CASE n # r
    BY <1>1, <1>5, <2>2, Zenon
  <2> QED
    BY <2>1, <2>2
<1>9. NoLookalikes(new)
  BY <1>1, <1>8, Zenon DEF NoLookalikes, LineAgrees
<1> QED
  BY <1>4, <1>9 DEF new

FrontForm(text) == text \in Seq(Seq(Segments)) /\ StatusIsAWord(text) /\ NoLookalikes(text)

LEMMA WithFieldIs ==
  ASSUME NEW text, FrontForm(text), NEW ks, NEW k \in {"summary", "status"}, Settable(ks, k, text)
  PROVE  LET new == WithField(ks, k, text)
         IN  FrontForm(new) /\ \A j : Field(new, j) = IF j = k /\ k \in ks THEN <<"new">> ELSE Field(text, j)
<1> DEFINE v == "new"
<1>1. v \in Words
  BY TextAssumption
<1>2. CASE k \notin ks
  BY <1>2 DEF WithField
<1>3. CASE k \in ks
  <2>1. text \in Seq(Seq(Segments)) /\ StatusIsAWord(text) /\ NoLookalikes(text)
    BY DEF FrontForm
  <2>2. Places(text, k) # {}
    BY <1>3, <2>1, MarksArePlaces DEF Settable
  <2>3. WithField(ks, k, text) = SetField(text, k, v)
    BY <1>3 DEF WithField
  <2> HIDE DEF v
  <2>4. SetField(text, k, v) \in Seq(Seq(Segments))
    BY <1>1, <2>1, <2>2, SetFieldIs
  <2>5. StatusIsAWord(SetField(text, k, v)) /\ NoLookalikes(SetField(text, k, v))
    BY <1>1, <2>1, <2>2, WordsStay
  <2>6. \A j : Field(SetField(text, k, v), j) = IF j = k THEN <<v>> ELSE Field(text, j)
    BY <1>1, <2>1, <2>2, FieldStep
  <2> QED
    BY <1>3, <2>3, <2>4, <2>5, <2>6 DEF FrontForm, v
<1> QED
  BY <1>2, <1>3

LEMMA EditedFront ==
  ASSUME FrontForm(raw), NEW ks \in SUBSET {"summary", "status"}, EditFields(ks, <<>>)
  PROVE  FrontForm(raw') /\ \A j : Field(raw', j) = IF j \in ks THEN <<"new">> ELSE Field(raw, j)
<1> DEFINE text == WithField(ks, "summary", raw)
           new == WithField(ks, "status", text)
<1>1. Settable(ks, "summary", raw) /\ Settable(ks, "status", text) /\ raw' = new \o <<>>
  BY DEF EditFields
<1>2. /\ FrontForm(text)
      /\ \A j : Field(text, j) = IF j = "summary" /\ "summary" \in ks THEN <<"new">> ELSE Field(raw, j)
  BY <1>1, WithFieldIs
<1> HIDE DEF text
<1>3. /\ FrontForm(new)
      /\ \A j : Field(new, j) = IF j = "status" /\ "status" \in ks THEN <<"new">> ELSE Field(text, j)
  BY <1>1, <1>2, WithFieldIs
<1> HIDE DEF new
<1>4. raw' = new
  BY <1>1, <1>3 DEF FrontForm
<1>5. \A j : j \in ks <=> (j = "summary" /\ "summary" \in ks) \/ (j = "status" /\ "status" \in ks)
  OBVIOUS
<1> QED
  BY <1>2, <1>3, <1>4, <1>5

------------------------------------------------------------------------------
(* The lines behind the front matter, if they are tidy. *)
LEMMA MarkerIs ==
  ASSUME NEW t \in Seq(Lines), NEW M \in 1 .. Len(t), t[M].kind = "marker",
         \A j \in 1 .. M - 1 : t[j].kind # "marker"
  PROVE  Marked(t) /\ MarkerAt(t) = M
<1>1. Marked(t)
  BY DEF Marked
<1> DEFINE x == MarkerAt(t)
<1>2. x \in DOMAIN t /\ t[x].kind = "marker" /\ \A j \in 1 .. x - 1 : t[j].kind # "marker"
  BY <1>1, FirstMarker
<1> HIDE DEF x
<1>3. x \in 1 .. Len(t) /\ Len(t) \in Nat
  BY <1>2
<1>4. ~(x \in 1 .. M - 1) /\ ~(M \in 1 .. x - 1)
  BY <1>2, Zenon
<1>5. x = M
  BY <1>3, <1>4
<1> QED
  BY <1>1, <1>5 DEF x

LEMMA PrefixIs ==
  ASSUME NEW p \in Seq(Lines), NEW q \in Seq(Lines), Len(p) <= Len(q),
         \A i \in 1 .. Len(p) : q[i] = p[i]
  PROVE  IsPrefix(p, q)
<1> DEFINE n == Len(p)
<1>1. n \in Nat /\ Len(q) \in Nat
  OBVIOUS
<1>2. SubSeq(p, 1, n) = SubSeq(q, 1, n)
  BY <1>1
<1> QED
  BY <1>2 DEF IsPrefix

(* A post that reads: lines, the marker, and the blocks as they stand. *)
LEMMA TidyReread ==
  ASSUME NEW t \in Seq(Lines), NEW M \in 1 .. Len(t), t[M].kind = "marker",
         \A j \in 1 .. M - 1 : t[j].kind # "marker",
         NEW F \in M + 1 .. Len(t), t[F].kind = "head",
         F = M + 1 \/ (F = M + 2 /\ t[M + 1] = Line("blank"))
  PROVE  SubSeq(t, 1, MarkerAt(t)) \o Blocks(t) = t
<1>1. Marked(t) /\ MarkerAt(t) = M
  BY MarkerIs
<1>2. Len(t) \in Nat /\ M + 1 \in 1 .. Len(t)
  OBVIOUS
<1>3. HeadsIn(t) = {i \in DOMAIN t : i > M /\ t[i].kind = "head"}
  BY <1>1 DEF HeadsIn
<1>4. F \in HeadsIn(t)
  BY <1>3
<1>5. Line("blank").kind # "head"
  BY DEF Line
<1>6. \A j \in HeadsIn(t) : F <= j
  BY <1>3, <1>5
<1>7. FirstHead(t) = F
  <2> DEFINE x == FirstHead(t)
  <2>1. x \in HeadsIn(t) /\ \A j \in HeadsIn(t) : x <= j
    BY <1>4, <1>6, Zenon DEF FirstHead
  <2> HIDE DEF x
  <2>2. x <= F /\ F <= x /\ x \in 1 .. Len(t)
    BY <1>3, <1>4, <1>6, <2>1
  <2> QED
    BY <1>2, <2>2 DEF x
<1> DEFINE b == IF t[M + 1].kind = "blank" THEN <<Line("blank")>> ELSE <<>>
           p == SubSeq(t, 1, M)
           q == SubSeq(t, F, Len(t))
<1>8. SubSeq(t, 1, MarkerAt(t)) \o Blocks(t) = p \o (b \o q)
  BY <1>1, <1>4, <1>7 DEF Blocks
<1>9. /\ b \in Seq(Lines) /\ Len(b) = F - (M + 1)
      /\ \A i \in 1 .. Len(b) : b[i] = t[M + i]
  <2>1. CASE F = M + 1
    <3>1. b = <<>>
      BY <2>1
    <3> HIDE DEF b
    <3> QED
      BY <2>1, <3>1
  <2>2. CASE F = M + 2 /\ t[M + 1] = Line("blank")
    <3> DEFINE B == Line("blank")
    <3>1. B.kind = "blank" /\ B \in Lines /\ t[M + 1] = B
      BY <2>2, LinesAre DEF Line
    <3> HIDE DEF B
    <3>2. b = <<B>>
      BY <3>1 DEF B
    <3> HIDE DEF b
    <3>3. b \in Seq(Lines) /\ Len(b) = 1 /\ b[1] = B
      BY <3>1, <3>2
    <3>4. \A i \in 1 .. Len(b) : i = 1
      BY <3>3
    <3>5. Len(b) = F - (M + 1)
      BY <2>2, <3>3
    <3> QED
      BY <3>1, <3>3, <3>4, <3>5
  <2> QED
    BY <2>1, <2>2
<1>10. /\ p \in Seq(Lines) /\ Len(p) = M
       /\ \A i \in 1 .. M : p[i] = t[i]
  <2>1. 1 \in 1 .. Len(t) + 1 /\ M \in 1 - 1 .. Len(t) /\ M - 1 + 1 = M
    BY <1>2
  <2>2. \A i \in 1 .. M : 1 + i - 1 = i
    OBVIOUS
  <2> QED
    BY <2>1, <2>2, PartAt
<1>11. /\ q \in Seq(Lines) /\ Len(q) = Len(t) - F + 1
       /\ \A i \in 1 .. Len(t) - F + 1 : q[i] = t[F + i - 1]
  <2>1. F \in 1 .. Len(t) + 1 /\ Len(t) \in F - 1 .. Len(t)
    BY <1>2
  <2> QED
    BY <2>1, PartAt
<1> HIDE DEF b, p, q
<1> DEFINE y == b \o q
           n == Len(t)
<1>12. /\ y \in Seq(Lines) /\ Len(y) = Len(b) + Len(q)
       /\ \A i \in 1 .. Len(b) : y[i] = b[i]
       /\ \A i \in 1 .. Len(q) : y[Len(b) + i] = q[i]
  <2>1. b \in Seq(Lines) /\ q \in Seq(Lines)
    BY <1>9, <1>11
  <2> QED
    BY <2>1, ConcatAt
<1> HIDE DEF y
<1> DEFINE z == p \o y
<1>13. /\ z \in Seq(Lines) /\ Len(z) = Len(p) + Len(y)
       /\ \A i \in 1 .. Len(p) : z[i] = p[i]
       /\ \A i \in 1 .. Len(y) : z[Len(p) + i] = y[i]
  <2>1. p \in Seq(Lines) /\ y \in Seq(Lines)
    BY <1>10, <1>12
  <2> QED
    BY <2>1, ConcatAt
<1> HIDE DEF z, n
<1>14. n \in Nat /\ M \in 1 .. n /\ F \in M + 1 .. n
  BY <1>2 DEF n
<1>15. Len(z) = n
  BY <1>9, <1>10, <1>11, <1>12, <1>13, <1>14 DEF n
<1>16. ASSUME NEW i \in 1 .. n PROVE z[i] = t[i]
  <2>1. CASE i <= M
    BY <1>10, <1>13, <1>14, <2>1
  <2>2. CASE M < i /\ i < F
    <3> DEFINE h == i - M
    <3>1. h \in 1 .. Len(b) /\ M + h = i /\ h \in 1 .. Len(y)
      BY <1>9, <1>11, <1>12, <1>14, <2>2 DEF n
    <3> HIDE DEF h
    <3>2. z[M + h] = y[h] /\ y[h] = b[h] /\ b[h] = t[M + h]
      BY <1>9, <1>10, <1>12, <1>13, <3>1
    <3> QED
      BY <3>1, <3>2
  <2>3. CASE F <= i
    <3> DEFINE h == i - F + 1
               g == i - M
    <3>1. /\ h \in 1 .. n - F + 1 /\ F + h - 1 = i
          /\ g \in 1 .. n - M /\ M + g = i /\ (F - (M + 1)) + h = g
      BY <1>14, <2>3
    <3> HIDE DEF h, g
    <3>2. Len(y) = n - M
      BY <1>9, <1>11, <1>12, <1>14 DEF n
    <3>3. z[M + g] = y[g]
      BY <1>10, <1>13, <3>1, <3>2
    <3>4. y[Len(b) + h] = q[h]
      BY <1>11, <1>12, <3>1 DEF n
    <3>5. y[g] = q[h]
      BY <1>9, <3>1, <3>4
    <3>6. q[h] = t[F + h - 1]
      BY <1>11, <3>1 DEF n
    <3> QED
      BY <3>1, <3>3, <3>5, <3>6
  <2> QED
    BY <1>14, <2>1, <2>2, <2>3
<1>17. z = t
  <2>1. z \in Seq(Lines) /\ t \in Seq(Lines) /\ Len(z) = Len(t) /\ \A i \in 1 .. Len(t) : z[i] = t[i]
    BY <1>13, <1>15, <1>16 DEF n
  <2> QED
    BY <2>1
<1> QED
  BY <1>8, <1>17 DEF z, y

LEMMA OnDiskAt ==
  ASSUME NEW t \in Seq(Lines)
  PROVE  /\ OnDisk(t) \in Seq(Lines) /\ Len(OnDisk(t)) = Len(t) + 1
         /\ \A i \in 1 .. Len(t) : OnDisk(t)[i] = t[i]
         /\ OnDisk(t)[Len(t) + 1] = Line("blank")
<1> DEFINE B == Line("blank")
<1>1. B \in Lines
  BY LinesAre
<1> HIDE DEF B
<1>2. /\ Append(t, B) \in Seq(Lines) /\ Len(Append(t, B)) = Len(t) + 1
      /\ \A i \in 1 .. Len(t) : Append(t, B)[i] = t[i]
      /\ Append(t, B)[Len(t) + 1] = B
  BY <1>1
<1> QED
  BY <1>2 DEF OnDisk, B

(* The empty line at the end of a file moves no marker. *)
LEMMA DiskMarks ==
  ASSUME NEW t \in Seq(Lines)
  PROVE  /\ Marked(OnDisk(t)) <=> Marked(t)
         /\ Marked(t) => MarkerAt(OnDisk(t)) = MarkerAt(t)
<1> DEFINE d == OnDisk(t)
           n == Len(t)
<1>1. /\ d \in Seq(Lines) /\ Len(d) = n + 1 /\ n \in Nat
      /\ \A i \in 1 .. n : d[i] = t[i]
      /\ d[n + 1] = Line("blank")
  <2>1. n \in Nat
    OBVIOUS
  <2> QED
    BY OnDiskAt, <2>1, Zenon
<1>2. d[n + 1].kind # "marker"
  <2>1. Line("blank").kind # "marker"
    BY DEF Line
  <2> QED
    BY <1>1, <2>1, Zenon
<1>3. DOMAIN d = 1 .. n + 1 /\ DOMAIN t = 1 .. n
  BY <1>1
<1> HIDE DEF d
<1>4. \A i \in 1 .. n + 1 : i \in 1 .. n \/ i = n + 1
  BY <1>1
<1>5. \A i \in 1 .. n : i \in 1 .. n + 1
  BY <1>1
<1>6. Marked(d) <=> Marked(t)
  BY <1>1, <1>2, <1>3, <1>4, <1>5, Zenon DEF Marked
<1>7. ASSUME Marked(t) PROVE MarkerAt(d) = MarkerAt(t)
  <2> DEFINE M == MarkerAt(t)
  <2>1. M \in 1 .. n /\ t[M].kind = "marker" /\ \A j \in 1 .. M - 1 : t[j].kind # "marker"
    BY <1>3, <1>7, FirstMarker
  <2> HIDE DEF M
  <2>2. M \in 1 .. Len(d) /\ \A j \in 1 .. M - 1 : j \in 1 .. n
    BY <1>1, <2>1
  <2>3. d[M].kind = "marker" /\ \A j \in 1 .. M - 1 : d[j].kind # "marker"
    BY <1>1, <2>1, <2>2, Zenon
  <2> QED
    BY <1>1, <2>2, <2>3, MarkerIs DEF M
<1> QED
  BY <1>6, <1>7 DEF d

LEMMA BlocksAre == ASSUME NEW t \in Seq(Lines) PROVE Blocks(t) \in Seq(Lines)
<1>1. CASE HeadsIn(t) = {}
  BY <1>1 DEF Blocks
<1>2. CASE HeadsIn(t) # {}
  <2> DEFINE F == FirstHead(t)
             b == IF t[MarkerAt(t) + 1].kind = "blank" THEN <<Line("blank")>> ELSE <<>>
             q == SubSeq(t, F, Len(t))
  <2>1. HeadsIn(t) \in SUBSET (1 .. Len(t)) /\ Len(t) \in Nat
    BY DEF HeadsIn
  <2>2. \E i \in HeadsIn(t) : \A j \in HeadsIn(t) : i <= j
    BY <1>2, <2>1, FirstPosition
  <2>3. F \in 1 .. Len(t)
    BY <2>1, <2>2 DEF FirstHead
  <2> HIDE DEF F
  <2>4. q \in Seq(Lines)
    <3>1. F \in 1 .. Len(t) + 1 /\ Len(t) \in F - 1 .. Len(t)
      BY <2>1, <2>3
    <3> QED
      BY <3>1, PartAt
  <2>5. b \in Seq(Lines)
    BY LinesAre
  <2>6. Blocks(t) = b \o q
    BY <1>2 DEF Blocks, F
  <2> HIDE DEF b, q
  <2> QED
    BY <2>4, <2>5, <2>6
<1> QED
  BY <1>1, <1>2

(* What is written behind a marker: a blank line or none, and a head.       *)
StartsWell(c) ==
    \/ Len(c) = 0
    \/ Len(c) >= 1 /\ c[1].kind = "head"
    \/ Len(c) >= 2 /\ c[1] = Line("blank") /\ c[2].kind = "head"

(* Of a tidy post the blocks are what stood behind the marker. *)
LEMMA TidyBlocks ==
  ASSUME NEW t \in Seq(Lines), Tidy(t)
  PROVE  LET c == Blocks(OnDisk(t))
             h == CommentsOf(t)
         IN  /\ c \in Seq(Lines) /\ StartsWell(c)
             /\ h \in Seq(Lines) /\ Len(h) <= Len(c) /\ \A i \in 1 .. Len(h) : c[i] = h[i]
<1> DEFINE d == OnDisk(t)
           n == Len(t)
           c == Blocks(d)
           h == CommentsOf(t)
<1>1. /\ d \in Seq(Lines) /\ Len(d) = n + 1 /\ n \in Nat
      /\ \A i \in 1 .. n : d[i] = t[i]
      /\ d[n + 1] = Line("blank")
  BY OnDiskAt
<1>2. DOMAIN d = 1 .. n + 1 /\ DOMAIN t = 1 .. n
  BY <1>1
<1>3. d[n + 1].kind = "blank"
  <2>1. Line("blank").kind = "blank"
    BY DEF Line
  <2> QED
    BY <1>1, <2>1, Zenon
<1>4. c \in Seq(Lines)
  BY <1>1, BlocksAre
<1>5. (Marked(d) <=> Marked(t)) /\ (Marked(t) => MarkerAt(d) = MarkerAt(t))
  BY DiskMarks
<1> HIDE DEF d
<1>6. ASSUME HeadsIn(d) = {}, h = <<>>
      PROVE  StartsWell(c) /\ h \in Seq(Lines) /\ Len(h) <= Len(c) /\ \A i \in 1 .. Len(h) : c[i] = h[i]
  <2>1. c = <<>>
    BY <1>6 DEF Blocks
  <2> HIDE DEF c, h
  <2> QED
    BY <1>6, <2>1 DEF StartsWell
<1>7. CASE ~Marked(t)
  <2>1. HeadsIn(d) = {} /\ h = <<>>
    BY <1>5, <1>7 DEF HeadsIn, CommentsOf
  <2> QED
    BY <1>4, <1>6, <2>1 DEF d
<1>8. CASE Marked(t)
  <2> DEFINE M == MarkerAt(t)
  <2>1. M \in 1 .. n /\ t[M].kind = "marker" /\ \A j \in 1 .. M - 1 : t[j].kind # "marker"
    BY <1>2, <1>8, FirstMarker
  <2>2. \/ M = n
        \/ M < n /\ t[M + 1].kind = "head"
        \/ M + 1 < n /\ t[M + 1] = Line("blank") /\ t[M + 2].kind = "head"
    BY <1>8 DEF Tidy
  <2>3. h = SubSeq(t, M + 1, n)
    BY <1>8 DEF CommentsOf
  <2>4. Marked(d) /\ MarkerAt(d) = M
    BY <1>5, <1>8
  <2> HIDE DEF M
  <2>5. CASE M = n
    <3>1. \A i \in DOMAIN d : i > M => i = n + 1
      BY <1>1, <1>2, <2>5
    <3>2. ASSUME NEW i \in HeadsIn(d) PROVE FALSE
      <4>1. i \in DOMAIN d /\ i > M /\ d[i].kind = "head"
        BY <2>4, <3>2 DEF HeadsIn
      <4>2. i = n + 1
        BY <3>1, <4>1, Zenon
      <4>3. d[i].kind = "blank"
        BY <1>3, <4>2, Zenon
      <4> QED
        BY <4>1, <4>3
    <3>3. HeadsIn(d) = {}
      BY <3>2
    <3>4. h = <<>>
      BY <1>1, <2>3, <2>5
    <3> QED
      BY <1>4, <1>6, <3>3, <3>4 DEF d
  <2>6. ASSUME NEW F \in M + 1 .. n, t[F].kind = "head",
               F = M + 1 \/ (F = M + 2 /\ t[M + 1] = Line("blank"))
        PROVE  /\ StartsWell(c) /\ h \in Seq(Lines) /\ Len(h) <= Len(c)
               /\ \A i \in 1 .. Len(h) : c[i] = h[i]
    <3>1. F \in 1 .. n /\ F \in M + 1 .. Len(d) /\ M + 1 \in 1 .. n /\ M \in 1 .. Len(d)
      BY <1>1, <2>1
    <3>2. d[F].kind = "head" /\ d[M + 1] = t[M + 1]
      BY <1>1, <2>6, <3>1, Zenon
    <3>3. F = M + 1 \/ (F = M + 2 /\ d[M + 1] = Line("blank"))
      BY <2>6, <3>2, Zenon
    <3>4. \A j \in 1 .. M - 1 : j \in 1 .. n
      BY <1>1, <2>1
    <3>5. d[M].kind = "marker" /\ \A j \in 1 .. M - 1 : d[j].kind # "marker"
      BY <1>1, <2>1, <3>4, Zenon
    <3> DEFINE p == SubSeq(d, 1, M)
    <3>6. p \o c = d
      BY <1>1, <2>4, <3>1, <3>2, <3>3, <3>5, TidyReread
    <3>7. /\ p \in Seq(Lines) /\ Len(p) = M
      <4>1. 1 \in 1 .. Len(d) + 1 /\ M \in 1 - 1 .. Len(d) /\ M - 1 + 1 = M
        BY <3>1
      <4> QED
        BY <1>1, <4>1, PartAt
    <3> HIDE DEF p, c, h, n
    <3>8. Len(d) = Len(p) + Len(c) /\ \A i \in 1 .. Len(c) : d[Len(p) + i] = c[i]
      <4>1. p \in Seq(Lines) /\ c \in Seq(Lines)
        BY <1>4, <3>7
      <4>2. /\ Len(p \o c) = Len(p) + Len(c)
            /\ \A i \in 1 .. Len(c) : (p \o c)[Len(p) + i] = c[i]
        BY <4>1, ConcatAt
      <4> QED
        BY <3>6, <4>2, Zenon
    <3>9. Len(c) \in Nat
      BY <1>4
    <3>10. Len(c) = n + 1 - M /\ \A i \in 1 .. Len(c) : d[M + i] = c[i]
      <4>1. \A i \in 1 .. Len(c) : d[M + i] = c[i]
        BY <3>7, <3>8, Zenon
      <4>2. n + 1 = M + Len(c)
        BY <1>1, <3>7, <3>8
      <4> QED
        BY <1>1, <2>1, <3>9, <4>1, <4>2
    <3>11. StartsWell(c)
      <4> DEFINE l == Len(c)
      <4>1. F - M \in 1 .. l /\ M + (F - M) = F /\ M + 1 \in 1 .. n
        BY <1>1, <2>1, <3>1, <3>10
      <4>2. c[F - M].kind = "head"
        BY <3>2, <3>10, <4>1
      <4> HIDE DEF l
      <4>3. CASE F = M + 1
        <5>1. F - M = 1
          BY <2>1, <4>3
        <5>2. l >= 1
          BY <4>1, <5>1
        <5> QED
          BY <4>2, <5>1, <5>2 DEF StartsWell, l
      <4>4. CASE F = M + 2 /\ d[M + 1] = Line("blank")
        <5>1. F - M = 2
          BY <2>1, <4>4
        <5>2. l >= 2 /\ 1 \in 1 .. l
          BY <4>1, <5>1, <3>9 DEF l
        <5>3. c[1] = Line("blank")
          BY <3>10, <4>4, <5>2 DEF l
        <5> QED
          BY <4>2, <5>1, <5>2, <5>3 DEF StartsWell, l
      <4> QED
        BY <3>3, <4>3, <4>4
    <3>12. /\ h \in Seq(Lines) /\ Len(h) = n - M
           /\ \A i \in 1 .. n - M : h[i] = t[M + i]
      <4>1. M + 1 \in 1 .. Len(t) + 1 /\ n \in (M + 1) - 1 .. Len(t) /\ n - (M + 1) + 1 = n - M
        BY <1>1, <2>1 DEF n
      <4>2. \A i \in 1 .. n - M : (M + 1) + i - 1 = M + i
        BY <1>1, <2>1
      <4> QED
        BY <2>3, <4>1, <4>2, PartAt
    <3>13. ASSUME NEW i \in 1 .. Len(h) PROVE c[i] = h[i]
      <4>1. i \in 1 .. n - M /\ i \in 1 .. Len(c) /\ M + i \in 1 .. n
        BY <1>1, <2>1, <3>10, <3>12
      <4> QED
        BY <1>1, <3>10, <3>12, <4>1
    <3>14. Len(h) <= Len(c)
      BY <1>1, <2>1, <3>10, <3>12
    <3> QED
      BY <3>11, <3>12, <3>13, <3>14
  <2>7. CASE M < n /\ t[M + 1].kind = "head"
    <3>1. M + 1 \in M + 1 .. n
      BY <1>1, <2>1, <2>7
    <3> QED
      BY <1>4, <2>6, <2>7, <3>1 DEF d
  <2>8. CASE M + 1 < n /\ t[M + 1] = Line("blank") /\ t[M + 2].kind = "head"
    <3>1. M + 2 \in M + 1 .. n
      BY <1>1, <2>1, <2>8
    <3> QED
      BY <1>4, <2>6, <2>8, <3>1 DEF d
  <2> QED
    BY <2>2, <2>5, <2>7, <2>8
<1> QED
  BY <1>7, <1>8

(* A tidy post is tidy when it is written, and its comments stand first.    *)
LEMMA FrontStep ==
  ASSUME NEW t \in Seq(Lines), Tidy(t), NEW f \in Seq(Lines), IsFront(f),
         NEW e \in Seq(Lines), Len(e) >= 1, e[1].kind = "head"
  PROVE  LET w == Rewritten(OnDisk(t), f, e)
             h == CommentsOf(t)
             N == Len(f)
         IN  /\ w \in Seq(Lines) /\ Tidy(w) /\ Marked(w)
             /\ N \in Nat /\ N + Len(h) <= Len(w) /\ h \in Seq(Lines)
             /\ \A i \in 1 .. N : w[i] = f[i]
             /\ \A i \in 1 .. Len(h) : w[N + i] = h[i]
             /\ IsPrefix(h, CommentsOf(w))
<1> DEFINE c == Blocks(OnDisk(t))
           h == CommentsOf(t)
           N == Len(f)
           x == f \o c
           w == Rewritten(OnDisk(t), f, e)
<1>1. /\ c \in Seq(Lines) /\ StartsWell(c)
      /\ h \in Seq(Lines) /\ Len(h) <= Len(c) /\ \A i \in 1 .. Len(h) : c[i] = h[i]
  BY TidyBlocks
<1>2. N \in Nat /\ N >= 1 /\ f[N].kind = "marker" /\ \A j \in 1 .. N - 1 : f[j].kind # "marker"
  BY DEF IsFront
<1>3. w = x \o e
  BY DEF Rewritten
<1> HIDE DEF c, h, N, w
<1>4. /\ x \in Seq(Lines) /\ Len(x) = N + Len(c)
      /\ \A i \in 1 .. N : x[i] = f[i]
      /\ \A i \in 1 .. Len(c) : x[N + i] = c[i]
  BY <1>1, ConcatAt DEF N
<1> HIDE DEF x
<1>5. /\ w \in Seq(Lines) /\ Len(w) = Len(x) + Len(e)
      /\ \A i \in 1 .. Len(x) : w[i] = x[i]
      /\ \A i \in 1 .. Len(e) : w[Len(x) + i] = e[i]
  <2>1. x \in Seq(Lines)
    BY <1>4
  <2> QED
    BY <1>3, <2>1, ConcatAt
<1> DEFINE C == Len(c)
           E == Len(e)
           H == Len(h)
           W == Len(w)
<1>6. /\ C \in Nat /\ E \in Nat /\ H \in Nat /\ W \in Nat /\ E >= 1 /\ H <= C
      /\ W = N + C + E /\ Len(x) = N + C
  BY <1>1, <1>2, <1>4, <1>5
<1>7. \A i \in 1 .. N : w[i] = f[i]
  <2>1. \A i \in 1 .. N : i \in 1 .. Len(x)
    BY <1>2, <1>6
  <2> QED
    BY <1>4, <1>5, <2>1, Zenon
<1>8. \A i \in 1 .. C : w[N + i] = c[i]
  <2>1. \A i \in 1 .. C : N + i \in 1 .. Len(x)
    <3>1. N \in Nat /\ C \in Nat /\ Len(x) = N + C
      BY <1>2, <1>6
    <3> HIDE DEF C
    <3> QED
      BY <3>1
  <2> QED
    BY <1>4, <1>5, <2>1, Zenon
<1>9. w[N + C + 1] = e[1]
  <2>1. 1 \in 1 .. Len(e)
    BY <1>6
  <2> QED
    BY <1>5, <1>6, <2>1
<1> HIDE DEF C, E, H, W
<1>10. \A i \in 1 .. H : w[N + i] = h[i]
  <2>1. \A i \in 1 .. H : i \in 1 .. C
    BY <1>6
  <2> QED
    BY <1>1, <1>8, <2>1, Zenon DEF H
<1>11. Marked(w) /\ MarkerAt(w) = N
  <2>1. N \in 1 .. W /\ N \in 1 .. N /\ \A j \in 1 .. N - 1 : j \in 1 .. N
    BY <1>2, <1>6
  <2>2. w[N].kind = "marker" /\ \A j \in 1 .. N - 1 : w[j].kind # "marker"
    BY <1>2, <1>7, <2>1, Zenon
  <2> QED
    BY <1>5, <2>1, <2>2, MarkerIs DEF W
<1>12. Tidy(w)
  <2>1. \/ N < W /\ w[N + 1].kind = "head"
        \/ N + 1 < W /\ w[N + 1] = Line("blank") /\ w[N + 2].kind = "head"
    <3>1. CASE C = 0
      <4>1. N + C + 1 = N + 1 /\ N < W
        BY <1>2, <1>6, <3>1
      <4> QED
        BY <1>9, <4>1
    <3>2. CASE C >= 1 /\ c[1].kind = "head"
      <4>1. 1 \in 1 .. C /\ N < W
        BY <1>2, <1>6, <3>2
      <4> QED
        BY <1>8, <3>2, <4>1
    <3>3. CASE C >= 2 /\ c[1] = Line("blank") /\ c[2].kind = "head"
      <4>1. 1 \in 1 .. C /\ 2 \in 1 .. C /\ N + 1 < W
        BY <1>2, <1>6, <3>3
      <4> QED
        BY <1>8, <3>3, <4>1
    <3> QED
      BY <1>1, <3>1, <3>2, <3>3 DEF StartsWell, C
  <2> QED
    BY <1>11, <2>1, Zenon DEF Tidy, W
<1>13. IsPrefix(h, CommentsOf(w))
  <2> DEFINE g == SubSeq(w, N + 1, W)
  <2>1. CommentsOf(w) = g
    BY <1>11 DEF CommentsOf, W
  <2>2. /\ g \in Seq(Lines) /\ Len(g) = W - N
        /\ \A i \in 1 .. W - N : g[i] = w[N + i]
    <3>1. N + 1 \in 1 .. Len(w) + 1 /\ W \in (N + 1) - 1 .. Len(w) /\ W - (N + 1) + 1 = W - N
      BY <1>2, <1>6 DEF W
    <3>2. \A i \in 1 .. W - N : (N + 1) + i - 1 = N + i
      BY <1>2, <1>6
    <3>3. w \in Seq(Lines)
      BY <1>5
    <3>4. /\ g \in Seq(Lines) /\ Len(g) = W - (N + 1) + 1
          /\ \A i \in 1 .. W - (N + 1) + 1 : g[i] = w[(N + 1) + i - 1]
      BY <3>1, <3>3, PartAt
    <3> HIDE DEF g
    <3> QED
      BY <3>1, <3>2, <3>4
  <2> HIDE DEF g
  <2>3. H <= W - N /\ \A i \in 1 .. H : i \in 1 .. W - N
    BY <1>2, <1>6
  <2>4. \A i \in 1 .. H : g[i] = h[i]
    BY <1>10, <2>2, <2>3, Zenon
  <2> QED
    BY <1>1, <2>1, <2>2, <2>3, <2>4, PrefixIs DEF H
<1>14. N + H <= W
  BY <1>2, <1>6
<1> QED
  BY <1>1, <1>2, <1>5, <1>7, <1>10, <1>11, <1>12, <1>13, <1>14 DEF w, h, N, H, W

(* What a post begins with stands there after a verb that keeps the body ... *)
LEMMA KeptStep ==
  ASSUME NEW t \in Seq(Lines), Tidy(t), NEW e \in Seq(Lines), Len(e) >= 1, e[1].kind = "head"
  PROVE  LET w == Rewritten(OnDisk(t), UpToMarker(OnDisk(t)), e)
         IN  IsPrefix(t, w) /\ Tidy(w)
<1> DEFINE d == OnDisk(t)
           f == UpToMarker(d)
           w == Rewritten(d, f, e)
           h == CommentsOf(t)
           n == Len(t)
           N == Len(f)
<1>1. /\ d \in Seq(Lines) /\ Len(d) = n + 1 /\ n \in Nat
      /\ \A i \in 1 .. n : d[i] = t[i]
  BY OnDiskAt
<1>2. f \in Seq(Lines) /\ IsFront(f)
  BY <1>1, KeptIsFront DEF IsFront
<1>3. /\ w \in Seq(Lines) /\ Tidy(w)
      /\ N \in Nat /\ N + Len(h) <= Len(w) /\ h \in Seq(Lines)
      /\ \A i \in 1 .. N : w[i] = f[i]
      /\ \A i \in 1 .. Len(h) : w[N + i] = h[i]
  <2> HIDE DEF f
  <2> QED
    BY <1>2, FrontStep
<1>4. (Marked(d) <=> Marked(t)) /\ (Marked(t) => MarkerAt(d) = MarkerAt(t))
  BY DiskMarks
<1> HIDE DEF d, w
<1>5. ASSUME ~Marked(t) PROVE IsPrefix(t, w)
  <2> DEFINE mk == Line("marker")
  <2>1. f = Append(d, mk)
    BY <1>4, <1>5 DEF UpToMarker
  <2>2. mk \in Lines
    BY LinesAre
  <2> HIDE DEF f, mk
  <2>3. Len(f) = n + 2 /\ \A i \in 1 .. n + 1 : f[i] = d[i]
    BY <1>1, <2>1, <2>2
  <2> HIDE DEF h, n
  <2>4. \A i \in 1 .. n : i \in 1 .. n + 1 /\ i \in 1 .. N
    BY <1>1, <2>3 DEF N
  <2>5. \A i \in 1 .. n : w[i] = t[i]
    BY <1>1, <1>3, <2>3, <2>4, Zenon
  <2>6. n <= Len(w)
    BY <1>1, <1>3, <2>3
  <2> QED
    BY <1>3, <2>5, <2>6, PrefixIs DEF n
<1>6. ASSUME Marked(t) PROVE IsPrefix(t, w)
  <2> DEFINE M == MarkerAt(t)
  <2>1. M \in 1 .. n
    BY <1>1, <1>6, FirstMarker
  <2>2. f = SubSeq(d, 1, M)
    BY <1>4, <1>6 DEF UpToMarker
  <2>3. h = SubSeq(t, M + 1, n)
    BY <1>6 DEF CommentsOf
  <2> HIDE DEF M, f, h
  <2>4. Len(f) = M /\ \A i \in 1 .. M : f[i] = d[i]
    <3>1. 1 \in 1 .. Len(d) + 1 /\ M \in 1 - 1 .. Len(d) /\ M - 1 + 1 = M
      BY <1>1, <2>1
    <3>2. \A i \in 1 .. M : 1 + i - 1 = i
      BY <2>1
    <3> QED
      BY <1>1, <2>2, <3>1, <3>2, PartAt
  <2>5. Len(h) = n - M /\ \A i \in 1 .. n - M : h[i] = t[M + i]
    <3>1. M + 1 \in 1 .. Len(t) + 1 /\ n \in (M + 1) - 1 .. Len(t) /\ n - (M + 1) + 1 = n - M
      BY <1>1, <2>1
    <3>2. \A i \in 1 .. n - M : (M + 1) + i - 1 = M + i
      BY <1>1, <2>1
    <3> QED
      BY <2>3, <3>1, <3>2, PartAt
  <2> HIDE DEF n
  <2>6. ASSUME NEW i \in 1 .. n PROVE w[i] = t[i]
    <3>1. CASE i <= M
      <4>1. i \in 1 .. M /\ i \in 1 .. N
        BY <2>1, <2>4, <3>1 DEF N
      <4> QED
        BY <1>1, <1>3, <2>4, <4>1, Zenon
    <3>2. CASE i > M
      <4> DEFINE g == i - M
      <4>1. g \in 1 .. n - M /\ g \in 1 .. Len(h) /\ M + g = i /\ N = M
        BY <1>1, <2>1, <2>4, <2>5, <3>2
      <4> HIDE DEF g, N
      <4> QED
        BY <1>3, <2>5, <4>1
    <3> QED
      BY <1>1, <2>1, <3>1, <3>2
  <2>7. n <= Len(w)
    <3>1. N = M
      BY <2>4
    <3> HIDE DEF N
    <3>2. Len(w) \in Nat /\ N + Len(h) <= Len(w)
      BY <1>3
    <3> QED
      BY <1>1, <2>1, <2>5, <3>1, <3>2
  <2> QED
    BY <1>3, <2>6, <2>7, PrefixIs DEF n
<1> QED
  BY <1>3, <1>5, <1>6 DEF w, d

(* ... and after a new body the comments stand behind it. *)
LEMMA BodyStep ==
  ASSUME NEW t \in Seq(Lines), Tidy(t), NEW e \in Seq(Lines), Len(e) >= 1, e[1].kind = "head",
         NEW b \in Bodies, ~Marked(b.lines)
  PROVE  LET w == Rewritten(OnDisk(t), Append(b.lines, Line("marker")), e)
         IN  BodyIs(w, b) /\ IsPrefix(CommentsOf(t), CommentsOf(w)) /\ Tidy(w)
<1> DEFINE f == Append(b.lines, Line("marker"))
           w == Rewritten(OnDisk(t), f, e)
           h == CommentsOf(t)
<1>1. b.lines \in Seq(Lines)
  BY TextAssumption
<1>2. f \in Seq(Lines) /\ IsFront(f)
  BY <1>1, AppendedIsFront DEF IsFront
<1> HIDE DEF f
<1>3. /\ w \in Seq(Lines) /\ Tidy(w)
      /\ Len(f) \in Nat /\ Len(f) + Len(h) <= Len(w) /\ h \in Seq(Lines)
      /\ \A i \in 1 .. Len(f) : w[i] = f[i]
      /\ IsPrefix(h, CommentsOf(w))
  BY <1>2, FrontStep
<1> HIDE DEF w, h
<1>4. Len(f) <= Len(w)
  <2>1. Len(h) \in Nat /\ Len(w) \in Nat
    BY <1>3
  <2> QED
    BY <1>3, <2>1
<1>5. IsPrefix(f, w)
  BY <1>2, <1>3, <1>4, PrefixIs
<1> QED
  BY <1>3, <1>5 DEF BodyIs, f, w, h

(* What a verb puts, and what it was asked for. *)
LEMMA EveryVerbPuts ==
  ASSUME TextNext
  PROVE  \E e \in Seq(Lines) :
            /\ Len(e) >= 1 /\ e[1].kind = "head"
            /\ \/ PutBehind(e) /\ "body" \notin asked'
               \/ "body" \in asked' /\ \E b \in Bodies : Put(Append(b.lines, Line("marker")), e)
<1> DEFINE Done(e) ==
              /\ Len(e) >= 1 /\ e[1].kind = "head"
              /\ \/ PutBehind(e) /\ "body" \notin asked'
                 \/ "body" \in asked' /\ \E b \in Bodies : Put(Append(b.lines, Line("marker")), e)
<1>1. PICK a \in Authors, more \in Continuations :
         \/ \E bracket \in BOOLEAN : Remark(a, bracket, more)
         \/ Review(a, more)
         \/ \E ks \in SUBSET {"summary", "status"} :
               EditKept(ks, a, more) \/ \E b \in Bodies : EditBody(ks, b, a, more)
  BY DEF TextNext
<1>2. ~Forgeable(more)
  BY <1>1 DEF Remark, Review, EditKept, EditBody
<1>3. \A b : HeadLine(a, b).kind = "head"
  BY DEF HeadLine
<1>4. ASSUME NEW bracket \in BOOLEAN,
             \/ PutBehind(<<HeadLine(a, bracket)>> \o more) /\ "body" \notin asked'
             \/ /\ "body" \in asked'
                /\ \E b \in Bodies : Put(Append(b.lines, Line("marker")), <<HeadLine(a, bracket)>> \o more)
      PROVE  \E e \in Seq(Lines) : Done(e)
  <2> DEFINE e == <<HeadLine(a, bracket)>> \o more
  <2>1. e \in Seq(Lines) /\ Len(e) >= 1 /\ e[1] = HeadLine(a, bracket)
    BY <1>2, CommentIs
  <2>2. \/ PutBehind(e) /\ "body" \notin asked'
        \/ "body" \in asked' /\ \E b \in Bodies : Put(Append(b.lines, Line("marker")), e)
    BY <1>4
  <2> HIDE DEF e
  <2>3. e[1].kind = "head"
    BY <1>3, <2>1, Zenon
  <2> QED
    BY <2>1, <2>2, <2>3, Zenon
<1>5. CASE Review(a, more)
  <2> DEFINE e == <<HeadLine(a, TRUE)>> \o more \o <<Line("evidence")>>
  <2>1. e \in Seq(Lines) /\ Len(e) >= 1 /\ e[1] = HeadLine(a, TRUE)
    BY <1>2, ReviewIs
  <2>2. PutBehind(e) /\ "body" \notin asked'
    BY <1>5 DEF Review
  <2> HIDE DEF e
  <2>3. e[1].kind = "head"
    BY <1>3, <2>1, Zenon
  <2> QED
    BY <2>1, <2>2, <2>3, Zenon
<1>6. CASE \E bracket \in BOOLEAN : Remark(a, bracket, more)
  BY <1>4, <1>6 DEF Remark
<1>7. ASSUME NEW ks \in SUBSET {"summary", "status"}, EditKept(ks, a, more)
      PROVE  \E e \in Seq(Lines) : Done(e)
  <2>1. PutBehind(<<HeadLine(a, FALSE)>> \o more) /\ asked' = ks /\ FALSE \in BOOLEAN
    BY <1>7 DEF EditKept
  <2>2. "body" \notin asked'
    BY <2>1
  <2> HIDE DEF Done
  <2> QED
    BY <1>4, <2>1, <2>2, Zenon
<1>8. ASSUME NEW ks, NEW b \in Bodies, EditBody(ks, b, a, more)
      PROVE  \E e \in Seq(Lines) : Done(e)
  <2>1. /\ Put(Append(b.lines, Line("marker")), <<HeadLine(a, FALSE)>> \o more)
        /\ "body" \in asked' /\ FALSE \in BOOLEAN
    BY <1>8 DEF EditBody
  <2> HIDE DEF Done
  <2> QED
    BY <1>4, <2>1, Zenon
<1> HIDE DEF Done
<1>9. \E e \in Seq(Lines) : Done(e)
  <2>1. CASE Review(a, more)
    BY <1>5, <2>1 DEF Done
  <2>2. CASE \E bracket \in BOOLEAN : Remark(a, bracket, more)
    BY <1>6, <2>2 DEF Done
  <2>3. CASE \E ks \in SUBSET {"summary", "status"} :
               EditKept(ks, a, more) \/ \E b \in Bodies : EditBody(ks, b, a, more)
    BY <1>7, <1>8, <2>3, Zenon
  <2> QED
    BY <1>1, <2>1, <2>2, <2>3
<1> QED
  BY <1>9 DEF Done

PostForm == FrontForm(raw) /\ Tidy(tail)

(* The front matter after a verb. *)
LEMMA FrontAfter ==
  ASSUME TextNext, FrontForm(raw), \A b \in Bodies : OnlyBody(b)
  PROVE  /\ FrontForm(raw')
         /\ \A j : Field(raw', j) =
                     IF j \in asked' \cap {"summary", "status"} THEN <<"new">> ELSE Field(raw, j)
<1> DEFINE F == {"summary", "status"}
<1>1. \/ raw' = raw /\ asked' = {}
      \/ \E ks \in SUBSET F : asked' \cap F = ks /\ EditFields(ks, <<>>)
  <2>1. ASSUME NEW ks \in SUBSET F, NEW a, NEW more, EditKept(ks, a, more)
        PROVE  asked' \cap F = ks /\ EditFields(ks, <<>>)
    BY <2>1 DEF EditKept
  <2>2. ASSUME NEW ks \in SUBSET F, NEW b \in Bodies, NEW a, NEW more, EditBody(ks, b, a, more)
        PROVE  asked' \cap F = ks /\ EditFields(ks, <<>>)
    <3>1. asked' = ks \cup {"body"} /\ EditFields(ks, b.bullets) /\ b.bullets = <<>>
      BY <2>2 DEF EditBody, OnlyBody
    <3>2. asked' \cap F = ks
      BY <3>1
    <3> QED
      BY <3>1, <3>2
  <2> HIDE DEF F
  <2>3. ASSUME NEW a, NEW more, NEW bracket, Remark(a, bracket, more) \/ Review(a, more)
        PROVE  raw' = raw /\ asked' = {}
    BY <2>3 DEF Remark, Review
  <2> QED
    BY <2>1, <2>2, <2>3, Zenon DEF TextNext, F
<1>2. CASE raw' = raw /\ asked' = {}
  BY <1>2
<1>3. ASSUME NEW ks \in SUBSET F, asked' \cap F = ks, EditFields(ks, <<>>)
      PROVE  FrontForm(raw') /\ \A j : Field(raw', j) = IF j \in asked' \cap F THEN <<"new">> ELSE Field(raw, j)
  BY <1>3, EditedFront
<1> QED
  BY <1>1, <1>2, <1>3

LEMMA EditStep ==
  ASSUME PostInv, PostForm, [TextNext]_textVars, \A b \in Bodies : OnlyBody(b)
  PROVE  /\ PostForm'
         /\ \/ UNCHANGED textVars
            \/ /\ \A j \in KeysOf(raw) \cup KeysOf(raw') :
                     Field(raw', j) = IF j \in asked' \cap {"summary", "status"} THEN <<"new">> ELSE Field(raw, j)
               /\ "body" \notin asked' => IsPrefix(tail, tail')
               /\ "body" \in asked' => /\ \E b \in Bodies : BodyIs(tail', b)
                                       /\ IsPrefix(CommentsOf(tail), CommentsOf(tail'))
<1>1. CASE UNCHANGED textVars
  BY <1>1 DEF textVars, PostForm, Tidy
<1>2. CASE TextNext
  <2>1. PICK e \in Seq(Lines) :
            /\ Len(e) >= 1 /\ e[1].kind = "head"
            /\ \/ PutBehind(e) /\ "body" \notin asked'
               \/ "body" \in asked' /\ \E b \in Bodies : Put(Append(b.lines, Line("marker")), e)
    BY <1>2, EveryVerbPuts
  <2>2. tail \in Seq(Lines) /\ Tidy(tail) /\ FrontForm(raw)
    BY DEF PostInv, PostForm
  <2>3. /\ FrontForm(raw')
        /\ \A j : Field(raw', j) =
                    IF j \in asked' \cap {"summary", "status"} THEN <<"new">> ELSE Field(raw, j)
    BY <1>2, <2>2, FrontAfter
  <2>4. CASE PutBehind(e) /\ "body" \notin asked'
    <3>1. tail' = Rewritten(OnDisk(tail), UpToMarker(OnDisk(tail)), e)
      BY <2>4 DEF PutBehind, Put
    <3>2. IsPrefix(tail, tail') /\ Tidy(tail')
      BY <2>1, <2>2, <3>1, KeptStep
    <3>3. PostForm'
      BY <2>3, <3>2 DEF PostForm
    <3> QED
      BY <2>3, <2>4, <3>2, <3>3
  <2>5. ASSUME "body" \in asked', NEW b \in Bodies, Put(Append(b.lines, Line("marker")), e)
        PROVE  /\ Tidy(tail') /\ \E c \in Bodies : BodyIs(tail', c)
               /\ IsPrefix(CommentsOf(tail), CommentsOf(tail'))
    <3>1. tail' = Rewritten(OnDisk(tail), Append(b.lines, Line("marker")), e) /\ ~Marked(b.lines)
      BY <2>5 DEF Put, OnlyBody
    <3> QED
      BY <2>1, <2>2, <3>1, BodyStep
  <2>6. CASE "body" \in asked' /\ \E b \in Bodies : Put(Append(b.lines, Line("marker")), e)
    <3>1. /\ Tidy(tail') /\ \E c \in Bodies : BodyIs(tail', c)
          /\ IsPrefix(CommentsOf(tail), CommentsOf(tail'))
      BY <2>5, <2>6
    <3>2. PostForm'
      BY <2>3, <3>1 DEF PostForm
    <3> QED
      BY <2>3, <2>6, <3>1, <3>2
  <2> QED
    BY <2>1, <2>4, <2>6
<1> QED
  BY <1>1, <1>2

(* Of a post in the form that comment and edit give it (a status is one      *)
(* word, no other part of a bullet looks like a status or a summary, and the *)
(* blank line before the first comment is one), an edit changes the values   *)
(* it is asked to and no other; nothing that stood behind the front matter   *)
(* is ever lost, but for a body that a new one replaces, if that is only a   *)
(* body; any such post, any number of comments and edits.                    *)
THEOREM EditsLeaveTheRest ==
  ASSUME \A text \in FrontMatters : StatusIsAWord(text) /\ NoLookalikes(text),
         \A t \in Tails : Tidy(t), \A b \in Bodies : OnlyBody(b)
  PROVE  TextSpec => EditsKeepTheRest
<1> DEFINE Form == PostInv /\ PostForm
           Leaves == /\ \A j \in KeysOf(raw) \cup KeysOf(raw') :
                           Field(raw', j) = IF j \in asked' \cap {"summary", "status"} THEN <<"new">> ELSE Field(raw, j)
                     /\ "body" \notin asked' => IsPrefix(tail, tail')
                     /\ "body" \in asked' => /\ \E b \in Bodies : BodyIs(tail', b)
                                             /\ IsPrefix(CommentsOf(tail), CommentsOf(tail'))
<1>1. TextInit => Form
  <2> SUFFICES ASSUME TextInit PROVE Form
    OBVIOUS
  <2>1. raw \in FrontMatters /\ tail \in Tails
    BY DEF TextInit
  <2>2. FrontForm(raw)
    BY <2>1, TextAssumption DEF FrontForm
  <2> QED
    BY <2>1, <2>2, PostInvInit DEF PostForm
<1>2. Form /\ [TextNext]_textVars => Form'
  <2>1. \A b \in Bodies : ~Marked(b.lines)
    BY DEF OnlyBody
  <2> QED
    BY <2>1, PostInvNext, EditStep
<1>3. Form /\ [TextNext]_textVars => [Leaves]_textVars
  BY EditStep
<1>4. EditsKeepTheRest <=> [][Leaves]_textVars
  BY DEF EditsKeepTheRest
<1> HIDE DEF Form, Leaves
<1> QED
  BY <1>1, <1>2, <1>3, <1>4, PTL DEF TextSpec
================================================================================
