-------------------------------- MODULE HqStore --------------------------------
(***************************************************************************)
(* The write verbs of the hq post store (post, comment, edit and index) as *)
(* separate processes on one community directory: a file per post, an      *)
(* INDEX.md derived from them, and an flock around every write verb.  Each *)
(* client runs one verb.  The kernel frees an flock when its holder dies.  *)
(***************************************************************************)
EXTENDS Naturals, FiniteSets

CONSTANTS
    Clients,      \* processes, one verb each
    Nobody,       \* value of holder: the flock is free
    Categories,   \* directories under posts/
    Slugs,        \* what _slugify makes of titles
    Subjects, NoSubject,
    Limit         \* the largest number with three digits, 999 in the code

ASSUME StoreAssumption ==
    /\ Nobody \notin Clients
    /\ Subjects # {} /\ NoSubject \notin Subjects
    /\ Limit \in Nat \ {0}

VARIABLES
    git,          \* rigid: a .git is found at or above the anchor
    disk,         \* posts by file name
    index,        \* what INDEX.md lists: ids with their summaries
    holder,       \* the process that holds the flock
    pc, req,      \* where each client is, in which verb
    memo,         \* the post it has in memory: a file name and a record
    listing,      \* the lines of the index it is about to write
    drifted       \* history: a kill came between a post and its index

storeVars == <<git, disk, index, holder, drifted>>
clientVars == <<pc, req, memo, listing>>
vars == <<storeVars, clientVars>>

Numbers == 1 .. Limit + 1
Names == [cat : Categories, num : Numbers, slug : Slugs]
Ids == [cat : Categories, num : Numbers]
NoId == [cat |-> "none", num |-> 0]

(* body and summary name the client that wrote them. *)
Record == [subject : Subjects \cup {NoSubject}, supersedes : Ids \cup {NoId},
           body : Clients \cup {Nobody}, summary : Clients \cup {Nobody},
           comments : SUBSET Clients]

IdOf(n) == [cat |-> n.cat, num |-> n.num]

(* What a client may be called for: it cites posts that are there, or       *)
(* guesses an id that is not.                                               *)
Cited == {IdOf(n) : n \in DOMAIN disk}

Requests ==
    {r \in [verb : {"post"}, cat : Categories, slug : Slugs,
            subject : Subjects \cup {NoSubject},
            supersedes : {id \in Ids : id.num <= Limit} \cup {NoId}] :
        r.supersedes # NoId => r.subject # NoSubject}
    \cup [verb : {"comment"}, target : Cited \cup {NoId}]
    \cup [verb : {"edit"}, target : Cited \cup {NoId}, part : {"body", "summary"}]
    \cup [verb : {"index"}]

(* _post_files: the glob has exactly three digits in it. *)
Listed(d) == {n \in DOMAIN d : n.num <= Limit}

Listing(d) == {[id |-> IdOf(n), summary |-> d[n].summary] : n \in Listed(d)}

StoreTypeOK ==
    /\ git \in BOOLEAN /\ drifted \in BOOLEAN
    /\ DOMAIN disk \subseteq Names /\ \A n \in DOMAIN disk : disk[n] \in Record
    /\ index \subseteq [id : Ids, summary : Clients \cup {Nobody}]
    /\ holder \in Clients \cup {Nobody}
    /\ pc \in [Clients -> {"wait", "enter", "write", "scan", "replace", "unlock",
                           "done", "killed"}]
    /\ \A c \in Clients :
          pc[c] = "write" => memo[c][1] \in Names /\ memo[c][2] \in Record

(* The store a campaign starts from: empty, or with its first post.         *)
FirstPost(n) ==
    [m \in {n} |-> [subject |-> CHOOSE s \in Subjects : TRUE, supersedes |-> NoId,
                    body |-> Nobody, summary |-> Nobody, comments |-> {}]]

Init ==
    /\ git \in BOOLEAN
    /\ \E stock \in SUBSET {n \in Names : n.num = 1} :
          /\ Cardinality(stock) <= 1
          /\ disk = [n \in stock |-> FirstPost(n)[n]]
    /\ index = Listing(disk)
    /\ holder = Nobody
    /\ pc = [c \in Clients |-> "wait"]
    /\ req = [c \in Clients |-> [verb |-> "index"]]
    /\ memo = [c \in Clients |-> <<>>]
    /\ listing = [c \in Clients |-> {}]
    /\ drifted = FALSE

Goto(c, loc) == pc' = [pc EXCEPT ![c] = loc]

------------------------------------------------------------------------------
(* with_store_lock *)

(* What the client was called for is of no interest before it has the lock. *)
FlockShared(c) ==
    /\ pc[c] = "wait"
    /\ holder' = c
    /\ Goto(c, "enter")
    /\ \E r \in Requests : req' = [req EXCEPT ![c] = r]
    /\ UNCHANGED <<git, disk, index, drifted, memo, listing>>

Flock(c) ==
    /\ pc[c] = "wait"
    /\ holder = Nobody
    /\ holder' = c
    /\ Goto(c, "enter")
    /\ \E r \in Requests : req' = [req EXCEPT ![c] = r]
    /\ UNCHANGED <<git, disk, index, drifted, memo, listing>>

(* HqError after five seconds of failed attempts. *)
TimeOut(c) ==
    /\ pc[c] = "wait"
    /\ holder # Nobody
    /\ Goto(c, "done")
    /\ UNCHANGED <<storeVars, req, memo, listing>>

(* What a process had in memory is gone with it. *)
Forget(c) ==
    /\ req' = [req EXCEPT ![c] = [verb |-> "index"]]
    /\ memo' = [memo EXCEPT ![c] = <<>>]
    /\ listing' = [listing EXCEPT ![c] = {}]

Unlock(c) ==
    /\ pc[c] = "unlock"
    /\ holder' = Nobody
    /\ Goto(c, "done")
    /\ Forget(c)
    /\ UNCHANGED <<git, disk, index, drifted>>

(* A kill of the holder.  (That of a process that waits is its never        *)
(* running again.)                                                          *)
Kill(c) ==
    /\ holder = c
    /\ holder' = Nobody
    /\ drifted' = (drifted \/ (pc[c] \in {"scan", "replace"} /\ req[c].verb # "index"))
    /\ Goto(c, "killed")
    /\ Forget(c)
    /\ UNCHANGED <<git, disk, index>>

------------------------------------------------------------------------------
(* The verbs, with the lock held. *)

(* HqError, through the finally that frees the flock.                       *)
Refuse(c) ==
    /\ Goto(c, "unlock")
    /\ UNCHANGED memo

(* A post waits in memory to be written to its file.                        *)
Hold(c, n, post) ==
    /\ memo' = [memo EXCEPT ![c] = <<n, post>>]
    /\ Goto(c, "write")

(* next_number: one more than the largest, read off the file names.         *)
OneMoreThan(taken) == CHOOSE k \in Numbers : k - 1 \in taken \cup {0} /\ \A t \in taken : t < k

NextNumber == OneMoreThan({n.num : n \in Listed(disk)})

IndexOnly(c) ==
    /\ pc[c] = "enter" /\ req[c].verb = "index"
    /\ Goto(c, "scan")
    /\ UNCHANGED <<storeVars, req, memo, listing>>

(* post_new: the target of supersedes must be there. *)
PlanPost(c) ==
    LET r == req[c]
        n == [cat |-> r.cat, num |-> NextNumber, slug |-> r.slug]
    IN  /\ pc[c] = "enter" /\ r.verb = "post"
        /\ IF r.supersedes = NoId \/ r.supersedes \in {IdOf(m) : m \in Listed(disk)}
           THEN Hold(c, n, [subject |-> r.subject, supersedes |-> r.supersedes,
                            body |-> c, summary |-> c, comments |-> {}])
           ELSE Refuse(c)
        /\ UNCHANGED <<storeVars, req, listing>>

(* read_post: any number of digits, but one matching file. *)
Matching(id) == {n \in DOMAIN disk : IdOf(n) = id}

Amended(c, post) ==
    LET r == req[c]
    IN  [post EXCEPT !.comments = @ \cup {c},
                     !.body = IF r.verb = "edit" /\ r.part = "body" THEN c ELSE @,
                     !.summary = IF r.verb = "edit" /\ r.part = "summary" THEN c ELSE @]

(* comment and edit read the post; a no-git anchor refuses the edit.        *)
ReadPost(c) ==
    LET found == Matching(req[c].target)
    IN  /\ pc[c] = "enter" /\ req[c].verb \in {"comment", "edit"}
        /\ IF Cardinality(found) = 1 /\ (git \/ req[c].verb = "comment")
           THEN \E n \in found : Hold(c, n, Amended(c, disk[n]))
           ELSE Refuse(c)
        /\ UNCHANGED <<storeVars, req, listing>>

(* write_post: a temporary file and os.replace.  The index follows for a    *)
(* new post and for a new summary.                                          *)
Reindexes(r) == r.verb = "post" \/ (r.verb = "edit" /\ r.part = "summary")

WritePostOnly(c) ==
    /\ pc[c] = "write"
    /\ disk' = [n \in DOMAIN disk \cup {memo[c][1]} |->
                  IF n = memo[c][1] THEN memo[c][2] ELSE disk[n]]
    /\ Goto(c, IF req[c].verb = "post" THEN "scan" ELSE "unlock")
    /\ UNCHANGED <<git, index, holder, drifted, req, memo, listing>>

WritePost(c) ==
    /\ pc[c] = "write"
    /\ disk' = [n \in DOMAIN disk \cup {memo[c][1]} |->
                  IF n = memo[c][1] THEN memo[c][2] ELSE disk[n]]
    /\ Goto(c, IF Reindexes(req[c]) THEN "scan" ELSE "unlock")
    /\ UNCHANGED <<git, index, holder, drifted, req, memo, listing>>

(* update_index: read every post, then replace INDEX.md. *)
ScanPosts(c) ==
    /\ pc[c] = "scan"
    /\ listing' = [listing EXCEPT ![c] = Listing(disk)]
    /\ Goto(c, "replace")
    /\ UNCHANGED <<storeVars, req, memo>>

ReplaceIndex(c) ==
    /\ pc[c] = "replace"
    /\ index' = listing[c]
    /\ drifted' = FALSE
    /\ Goto(c, "unlock")
    /\ UNCHANGED <<git, disk, holder, req, memo, listing>>

VerbStep(c) ==
    \/ IndexOnly(c) \/ PlanPost(c) \/ ReadPost(c) \/ WritePost(c) \/ ScanPosts(c) \/ ReplaceIndex(c)
    \/ Unlock(c)

Next == \E c \in Clients : Flock(c) \/ TimeOut(c) \/ VerbStep(c) \/ Kill(c)

Spec == Init /\ [][Next]_vars

------------------------------------------------------------------------------
(* Up to the largest number that the glob can see, and through kills, the   *)
(* verbs are indivisible steps on a shelf of posts: a number is given once, *)
(* a post supersedes one that was there, no comment is lost, and where      *)
(* there is no git posts stay as they were written.                         *)
Shelf == INSTANCE PostShelf WITH shelf <- [n \in Listed(disk) |-> disk[n]], revisable <- git

AtomicVerbs == Shelf!ShelfSpec

(* "The verb path never drifts": with no write verb under way, and unless   *)
(* one was killed between its post and the index, INDEX.md lists what is on *)
(* disk, summaries included.                                                *)
IndexCurrent == holder = Nobody /\ ~drifted => index = Listing(disk)
================================================================================
