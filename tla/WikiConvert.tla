------------------------------ MODULE WikiConvert ------------------------------
(***************************************************************************)
(* convert-wiki-form.py: pages of a retired wiki become posts of the hq    *)
(* store, in two phases with a human between them.  plan lists the pages   *)
(* and leaves out what only a reader can say; apply refuses an unfinished  *)
(* plan, mints a post per page, writes the map from old page names to new  *)
(* ids, and with --commit removes the pages.  A run may die anywhere; the  *)
(* next one goes on from what the store, the map and the wiki hold.        *)
(***************************************************************************)
EXTENDS Integers, Sequences

CONSTANTS
    Pages,          \* files of the wiki, numbered in the order of their paths
    Path, Name,     \* the path and the bare file name a page may be cited by
    Meta,           \* root-level README.md and INDEX.md
    Unfiled,        \* pages whose category has no topic
    Mangled,        \* pages whose body does not survive the post format
    Subjects, NoSubject,
    MayFile,        \* the subjects a reader may see in each page
    Origin, Told,   \* the harness of each page; a harness given by hand
    Late,           \* pages that another store brings, if ever
    NoReuse,        \* readers give no page the subject of another page's post
    NoRenaming,     \* readers give a page that has a post that post's subject
    HasGit,         \* the anchor is in a git repository
    MaxCrashes

ASSUME WikiAssumption ==
    /\ Pages \subseteq Int /\ Meta \subseteq Pages /\ Unfiled \subseteq Pages
    /\ Mangled \subseteq Pages /\ Late \subseteq Pages
    /\ NoSubject \notin Subjects
    /\ \A p \in Pages : Origin[p] # Told
    /\ MayFile \in [Pages -> SUBSET Subjects]
    /\ NoReuse \in BOOLEAN /\ NoRenaming \in BOOLEAN /\ HasGit \in BOOLEAN
    /\ MaxCrashes \in Nat

Keys(p) == {Path[p], Name[p]}
AllKeys == UNION {Keys(p) : p \in Pages}
Harnesses == {Origin[p] : p \in Pages} \cup {Told}

VARIABLES
    wiki,           \* pages on disk, with what git thinks of each
    arrived,        \* history: pages that were ever there
    posts,          \* of the store, in the order of their numbers
    hasPlan, drops, refusals, stamp,    \* the plan file ...
    entries,        \* ... and its entries: the subject a reader gave a page
    hasMap, map, ambiguous,               \* the idmap file
    pc, commit,     \* the run of apply: where it is, and its flag
    known,          \* the posts by subject, as read at the start
    todo,           \* entries it has not come to
    pairs,          \* created + skipped: page and post id
    crashes

planVars == <<hasPlan, drops, refusals, stamp, entries>>
mapVars == <<hasMap, map, ambiguous>>
runVars == <<pc, commit, known, todo, pairs>>
vars == <<wiki, arrived, posts, planVars, mapVars, runVars, crashes>>

Status == {"clean", "dirty", "untracked"}
Locations == {"idle", "convert", "remove", "unlink"}
Empty == [x \in {} |-> x]

Posted == {posts[i].subject : i \in DOMAIN posts}

WikiTypeOK ==
    /\ arrived \subseteq Pages
    /\ DOMAIN wiki \subseteq arrived /\ \A p \in DOMAIN wiki : wiki[p] \in Status
    /\ posts \in Seq([subject : Subjects, from : Pages, harness : Harnesses])
    /\ hasPlan \in BOOLEAN /\ drops \subseteq Meta /\ refusals \subseteq Unfiled
    /\ stamp \in Harnesses
    /\ DOMAIN entries \subseteq Pages \ (Meta \cup Unfiled)
    /\ \A p \in DOMAIN entries : entries[p] \in Subjects \cup {NoSubject}
    /\ hasMap \in BOOLEAN /\ ambiguous \subseteq AllKeys
    /\ DOMAIN map \subseteq AllKeys /\ \A k \in DOMAIN map : map[k] \in DOMAIN posts
    /\ pc \in Locations /\ commit \in BOOLEAN
    /\ \A s \in DOMAIN known : known[s] \in DOMAIN posts
    /\ todo \subseteq DOMAIN entries
    /\ DOMAIN pairs \subseteq DOMAIN entries /\ \A p \in DOMAIN pairs : pairs[p] \in DOMAIN posts
    /\ crashes \in 0 .. MaxCrashes

Init ==
    /\ arrived = Pages \ Late
    /\ wiki \in [arrived -> Status]
    /\ posts = <<>>
    /\ hasPlan = FALSE /\ entries = Empty /\ drops = {} /\ refusals = {} /\ stamp = Told
    /\ hasMap = FALSE /\ map = Empty /\ ambiguous = {}
    /\ pc = "idle" /\ commit = FALSE /\ known = Empty /\ todo = {} /\ pairs = Empty
    /\ crashes = 0

------------------------------------------------------------------------------
(* plan, and the people around it *)

(* migrated.jsonl: each move of a store leaves a row with its harness.      *)
Ledger == {Origin[p] : p \in arrived}

(* resolve_harness: without --harness there must be exactly one.            *)
StampOfAny(h) == h = Told \/ h \in Ledger

Stamp(h) == h = Told \/ Ledger = {h}

(* plan: every page is dropped, refused, or an entry with nulls for what    *)
(* cannot be derived, for which NoSubject stands.  It may be run at any time *)
(* and writes over the plan there is; it does not look whether a page is     *)
(* converted.                                                               *)
Plan ==
    LET there == DOMAIN wiki
    IN  /\ pc = "idle" /\ there # {}
        /\ stamp' \in {h \in Harnesses : Stamp(h)}
        /\ hasPlan' = TRUE
        /\ drops' = there \cap Meta
        /\ refusals' = (there \ Meta) \cap Unfiled
        /\ entries' = [p \in there \ (Meta \cup Unfiled) |-> NoSubject]
        /\ UNCHANGED <<wiki, arrived, posts, mapVars, runVars, crashes>>

Colliding(p) ==
    \E q \in DOMAIN entries \ {p} : entries[q] = entries[p]

(* A reader fills in an entry, or puts another subject there.               *)
Judge(p) ==
    /\ pc = "idle" /\ p \in DOMAIN entries
    /\ \E s \in MayFile[p] :
          /\ entries' = [entries EXCEPT ![p] = s]
          /\ \A i \in DOMAIN posts :
                /\ NoReuse => (posts[i].subject = s => posts[i].from = p)
                /\ NoRenaming => (posts[i].from = p => posts[i].subject = s)
    /\ UNCHANGED <<wiki, arrived, posts, hasPlan, drops, refusals, stamp, mapVars, runVars, crashes>>

(* "edit or remove them": the refused pages stay where they are.            *)
Dismiss ==
    /\ pc = "idle" /\ refusals # {}
    /\ refusals' = {}
    /\ UNCHANGED <<wiki, arrived, posts, hasPlan, entries, drops, stamp, mapVars, runVars, crashes>>

(* Another store is moved in beside the first; pages are edited, committed. *)
Arrive(p) ==
    /\ pc = "idle" /\ p \notin arrived
    /\ arrived' = arrived \cup {p}
    /\ wiki' = [q \in DOMAIN wiki \cup {p} |-> IF q = p THEN "untracked" ELSE wiki[q]]
    /\ UNCHANGED <<posts, planVars, mapVars, runVars, crashes>>

GitCommit ==
    /\ pc = "idle"
    /\ \E p \in DOMAIN wiki : wiki[p] = "dirty"
    /\ wiki' = [p \in DOMAIN wiki |-> IF wiki[p] = "dirty" THEN "clean" ELSE wiki[p]]
    /\ UNCHANGED <<arrived, posts, planVars, mapVars, runVars, crashes>>

------------------------------------------------------------------------------
(* apply *)

Unfinished == \E p \in DOMAIN entries : entries[p] = NoSubject

RefusesAnythingButCollisions == Unfinished \/ refusals # {}

Refuses ==
    \/ Unfinished
    \/ \E p \in DOMAIN entries : Colliding(p)
    \/ refusals # {}

(* The refusals come before anything is written. *)
SetOff ==
    /\ pc = "idle" /\ hasPlan /\ ~Refuses
    /\ commit' \in BOOLEAN
    /\ todo' = DOMAIN entries
    /\ pairs' = Empty
    /\ pc' = "convert"
    /\ UNCHANGED <<wiki, arrived, posts, planVars, mapVars, crashes>>

StartForgetful == SetOff /\ known' = Empty

(* Then the posts that are there, by subject; of two with one subject which *)
(* one depends on their categories.                                         *)
Start ==
    /\ SetOff
    /\ known' \in {f \in [Posted -> DOMAIN posts] :
                      \A s \in Posted : posts[f[s]].subject = s}

(* What a dead run had in memory. *)
Leave ==
    /\ pc' = "idle" /\ commit' = FALSE
    /\ known' = Empty /\ todo' = {} /\ pairs' = Empty

Paired(p, id) == pairs' = [q \in DOMAIN pairs \cup {p} |-> IF q = p THEN id ELSE pairs[q]]

(* The next entry, in the order of the plan. *)
First(p) == p \in todo /\ \A q \in todo : p <= q

(* "already converted": its subject has a post. *)
Skip ==
    \E p \in todo :
        LET s == entries[p]
        IN  /\ pc = "convert" /\ First(p) /\ s \in DOMAIN known
            /\ Paired(p, known[s])
            /\ todo' = todo \ {p}
            /\ UNCHANGED <<wiki, arrived, posts, planVars, mapVars, pc, commit, known, crashes>>

(* post_new, and the check that the body came through; a page that is not   *)
(* there cannot be parsed.                                                  *)
Mint ==
    \E p \in todo :
        LET s == entries[p]
            id == Len(posts) + 1
        IN  /\ pc = "convert" /\ First(p) /\ s \notin DOMAIN known
            /\ posts' = IF p \in DOMAIN wiki
                        THEN Append(posts, [subject |-> s, from |-> p, harness |-> stamp])
                        ELSE posts
            /\ IF p \in Mangled \/ p \notin DOMAIN wiki
               THEN Leave
               ELSE /\ Paired(p, id)
                    /\ todo' = todo \ {p}
                    /\ known' = [t \in DOMAIN known \cup {s} |-> IF t = s THEN id ELSE known[t]]
                    /\ UNCHANGED <<pc, commit>>
            /\ UNCHANGED <<wiki, arrived, planVars, mapVars, crashes>>

(* write_idmap: the keys of this run over those of earlier ones, and no key *)
(* that two pages claim in one run, or once did.                            *)
Claims(k) == {pairs[p] : p \in {q \in DOMAIN pairs : k \in Keys(q)}}
Claimed == UNION {Keys(p) : p \in DOMAIN pairs}
Disputed == {k \in Claimed : \E x, y \in Claims(k) : x # y}

WriteMapOver(prior, disputed) ==
    /\ pc = "convert" /\ todo = {}
    /\ hasMap' = TRUE
    /\ ambiguous' = disputed \cup Disputed
    /\ map' = [k \in (DOMAIN prior \cup Claimed) \ ambiguous' |->
                 IF k \in Claimed THEN CHOOSE id \in Claims(k) : TRUE ELSE prior[k]]
    /\ IF commit THEN pc' = "remove" /\ UNCHANGED <<commit, known, todo, pairs>> ELSE Leave
    /\ UNCHANGED <<wiki, arrived, posts, planVars, crashes>>

WriteMapAnew == WriteMapOver(Empty, {})

WriteMap == WriteMapOver(map, ambiguous)

Removed == (DOMAIN pairs \cup drops) \cap DOMAIN wiki

Without(gone) == wiki' = [p \in DOMAIN wiki \ gone |-> wiki[p]]

(* git rm refuses all of them when one differs from what is committed, and  *)
(* with --ignore-unmatch leaves alone what it does not know.  It fails with  *)
(* an empty list and outside of a repository.                               *)
GitFails == ~HasGit \/ DOMAIN pairs \cup drops = {}

GitRmStrict ==
    /\ pc = "remove"
    /\ IF GitFails \/ \E p \in Removed : wiki[p] # "clean"
       THEN Leave /\ UNCHANGED wiki
       ELSE /\ Without(Removed)
            /\ pc' = "unlink" /\ UNCHANGED <<commit, known, todo, pairs>>
    /\ UNCHANGED <<arrived, posts, planVars, mapVars, crashes>>

GitRm ==
    /\ pc = "remove"
    /\ IF GitFails \/ \E p \in Removed : wiki[p] = "dirty"
       THEN Leave /\ UNCHANGED wiki
       ELSE /\ Without({p \in Removed : wiki[p] = "clean"})
            /\ pc' = "unlink" /\ UNCHANGED <<commit, known, todo, pairs>>
    /\ UNCHANGED <<arrived, posts, planVars, mapVars, crashes>>

(* The untracked ones, one by one; after the last git add and rmdir.        *)
Unlink ==
    /\ pc = "unlink"
    /\ IF Removed = {}
       THEN Leave /\ UNCHANGED wiki
       ELSE /\ \E p \in Removed : Without({p})
            /\ UNCHANGED runVars
    /\ UNCHANGED <<arrived, posts, planVars, mapVars, crashes>>

(* Killed, or ended by an error of post_new, of the disk or of git.         *)
Crash ==
    /\ pc # "idle" /\ crashes < MaxCrashes
    /\ crashes' = crashes + 1
    /\ Leave
    /\ UNCHANGED <<wiki, arrived, posts, planVars, mapVars>>

RunStep == Skip \/ Mint \/ WriteMap \/ GitRm \/ Unlink

Chores == Plan \/ Dismiss \/ GitCommit \/ \E p \in Pages : Judge(p)

Next == Start \/ RunStep \/ Chores \/ (\E p \in Pages : Arrive(p)) \/ Crash

Spec == Init /\ [][Next]_vars

(* A run goes on; people fill in and disentangle what is left in a plan,     *)
(* commit what git finds changed and rerun with --commit, as apply tells     *)
(* them to, over and over if need be.  In the end they plan only when all    *)
(* pages of the last plan are gone and others are there, and put a subject   *)
(* in the place of another only where two are the same.                      *)
Due ==
    hasPlan =>
        /\ DOMAIN wiki \cap (DOMAIN entries \cup drops) = {}
        /\ ~(DOMAIN wiki \subseteq Unfiled)

NeededChores ==
    /\ Plan => Due
    /\ \A p \in Pages : Judge(p) => entries[p] = NoSubject \/ Colliding(p)

Fairness ==
    /\ WF_vars(RunStep)
    /\ SF_vars(Chores /\ NeededChores)
    /\ SF_vars(Start /\ commit')
    /\ <>[][NeededChores]_vars

FairSpec == Spec /\ Fairness

------------------------------------------------------------------------------
(* "A page removed without a post is the one outcome this tool exists to    *)
(* make impossible": of a page that is gone there is a post minted from it, *)
(* whatever crashed and however often it was planned and applied, if readers *)
(* reuse no subject.  Dropped pages excepted.                               *)
Gone == arrived \ (DOMAIN wiki \cup Meta)
NoPageLost == \A p \in Gone : \E i \in DOMAIN posts : posts[i].from = p

(* A rerun, also of a run that was cut short or with a new plan, mints no    *)
(* second copy of a page whose readers stay with its subject.               *)
OnePostEach == \A i, j \in DOMAIN posts : posts[i].from = posts[j].from => i = j

(* "A wrong harness is worse than a missing one because it looks answered":  *)
(* a post bears the harness its page came from, or what somebody said, also *)
(* when a second store is moved in between the steps.                       *)
StampedByOrigin ==
    \A i \in DOMAIN posts : posts[i].harness \in {Origin[posts[i].from], Told}

(* The map is there before the pages go, and no later run takes a page out  *)
(* of it: a citation by path finds the post of its page, or is known to be  *)
(* ambiguous.  (A path that is another page's bare name can be taken over   *)
(* by a later run.)                                                         *)
CitationsResolve ==
    \A p \in Gone :
        (\A q \in Pages \ {p} : Path[p] \notin Keys(q)) =>
            /\ hasMap
            /\ Path[p] \in DOMAIN map
            /\ posts[map[Path[p]]].from = p

(* "A staging state with one exit": in a git repository, once all pages have *)
(* come, with people who rerun it the conversion empties the wiki but for    *)
(* what nobody can file.                                                    *)
ConversionEnds == <>[](DOMAIN wiki \subseteq Unfiled)
================================================================================
