---------------------------- MODULE SubagentHooks ----------------------------
(***************************************************************************)
(* The hooks of a campaign's other sessions, on the board of TaskClaim and *)
(* the store of StoreGate: SessionStart and SubagentStart when they begin, *)
(* SubagentStop when a subagent would stop and TeammateIdle when a         *)
(* teammate would rest.  The store changes under them: the campaign's file *)
(* is edited by hand, left broken or removed, an anchor comes and goes and *)
(* the board is moved.  A hook reads the gate first and the board after.   *)
(***************************************************************************)
EXTENDS TaskClaim, StoreGate

CONSTANTS
    InitialStores,   \* the store, and the file the campaign is in
    Listed,          \* workers the orchestrator has a row for at the start
    MaxChanges       \* how often the store may change

ASSUME HooksAssumption ==
    /\ InitialStores \subseteq Stores \X Files
    /\ Workers # {} /\ Listed \subseteq Workers
    /\ Unlogged = {}     \* bound: the log of the campaign fits in what is read
    /\ MaxChanges \in Nat

VARIABLES
    store,
    home,        \* the file the campaign's tasks are really in
    changes,     \* of the store, so far
    kind,        \* subagent or teammate
    at,          \* where a session is
    resumed,     \* subagents that were held: stop_hook_active
    observed,    \* observations.jsonl: roles that were no match for the roster
    row,         \* its row in workers[]
    memory,      \* memory files: of which role, and beside which board file
    why,         \* of those who left: on which ground they were let go
    touched,     \* history: the store changed between gate and board
    unexplained  \* history: silences for which there was no reason

sessionVars == <<kind, at, resumed, observed, row, memory, why, touched, unexplained>>
storeVars == <<store, home, changes>>
vars == <<boardVars, storeVars, sessionVars>>

Places == {"new", "work", "read", "gone"}

HooksTypeOK ==
    /\ BoardTypeOK
    /\ store \in Stores /\ home \in Files /\ changes \in 0 .. MaxChanges
    /\ kind \in [Workers -> {"subagent", "teammate"}]
    /\ at \in [Workers -> Places]
    /\ resumed \subseteq Workers
    /\ observed \subseteq Workers
    /\ row \in [Workers -> {"unlisted", "working", "reported"}]
    /\ memory \subseteq Workers \X {"hq", "old"}
    /\ why \in [Workers -> {"", "clear", "stale", "resumed", "silence", "warned"}]
    /\ touched \subseteq Workers /\ unexplained \subseteq Workers

Init ==
    /\ BoardInit
    /\ \E i \in InitialStores : store = i[1] /\ home = i[2]
    /\ changes = 0
    /\ kind \in [Workers -> {"subagent", "teammate"}]
    /\ at = [w \in Workers |-> "new"]
    /\ resumed = {}
    /\ observed = {}
    /\ row = [w \in Workers |-> IF w \in Listed THEN "working" ELSE "unlisted"]
    /\ memory = {}
    /\ why = [w \in Workers |-> ""]
    /\ touched = {} /\ unexplained = {}

(* A hook that reads the file the campaign is in sees its tasks and roster; *)
(* another file that it reads was left behind, with anything in it.          *)
Sees == StateFile(store) = home

InProgress == {t \in Tasks : Sees /\ board[t].status = "in_progress"}

(* Reasons to say nothing: the campaign is closed, its file is gone or holds *)
(* something that is no board, the hooks are to look in another place, or it *)
(* changed while the hook was looking.                                       *)
Explained(w) ==
    \/ store[home] \in {"none", "closed", "shapeless"}
    \/ home = "state" /\ ~store.marker
    \/ ~Sees \/ (Anchored(store) /\ home # "hq")
    \/ w \in touched

Hush(w) == unexplained' = IF Explained(w) THEN unexplained ELSE unexplained \cup {w}

------------------------------------------------------------------------------
(* The start of a session *)

Rostered == {w \in Workers : row[w] # "unlisted"}

(* check_board: a roster that does not know the role is a mismatch, an empty *)
(* roster is not.                                                            *)
Mismatch(w) == Sees /\ Rostered # {} /\ row[w] = "unlisted"

(* Neither hook can keep a session from starting; each says what it found.   *)
(* SubagentStart leaves an unreadable file to the stop hooks.                *)
StartsSilent(w) ==
    \/ Verdict(store) \in {"no root", "off"}
    \/ Verdict(store) = "unreadable" /\ kind[w] = "subagent"

Start(w) ==
    /\ at[w] = "new"
    /\ at' = [at EXCEPT ![w] = "work"]
    /\ \/ /\ Verdict(store) = "on" /\ kind[w] = "subagent"
          /\ Mismatch(w) \/ ~Sees
          /\ observed' = observed \cup {w}
       \/ /\ ~(Verdict(store) = "on" /\ kind[w] = "subagent" /\ Mismatch(w))
          /\ UNCHANGED observed
    /\ IF StartsSilent(w) THEN Hush(w) ELSE UNCHANGED unexplained
    /\ UNCHANGED <<boardVars, storeVars, kind, resumed, row, memory, why, touched>>

------------------------------------------------------------------------------
(* Leaving *)

Leave(w, ground) ==
    /\ at' = [at EXCEPT ![w] = "gone"]
    /\ why' = [why EXCEPT ![w] = ground]
    /\ touched' = touched \ {w}
    /\ resumed' = resumed \ {w}
    /\ IF ground = "silence" THEN Hush(w) ELSE UNCHANGED unexplained

(* exit 2: back to work.  A subagent's next stop says that it was held.      *)
Hold(w) ==
    /\ at' = [at EXCEPT ![w] = "work"]
    /\ resumed' = IF kind[w] = "subagent" THEN resumed \cup {w} ELSE resumed
    /\ touched' = touched \ {w}
    /\ UNCHANGED <<why, unexplained>>

(* Nothing to do, on the campaign's board or on one that was left behind.   *)
Clear == IF Sees THEN "clear" ELSE "stale"

ToBoard(w) ==
    /\ at' = [at EXCEPT ![w] = "read"]
    /\ UNCHANGED <<resumed, why, touched, unexplained>>

Asks(w, k) == kind[w] = k /\ at[w] = "work"

Reads(w, k) == kind[w] = k /\ at[w] = "read"

Rest == UNCHANGED <<boardVars, storeVars, kind, observed, row, memory>>

(* SubagentStop until the gate.  stop_hook_active is looked at first: a      *)
(* store that stays corrupt holds nobody twice.                              *)
StopGate(w) ==
    /\ Asks(w, "subagent")
    /\ \/ w \in resumed /\ Leave(w, "resumed")
       \/ w \notin resumed /\ ~FindsRoot(store) /\ Leave(w, "silence")
       \/ w \notin resumed /\ FindsRoot(store) /\ Corrupt(store) /\ Hold(w)
       \/ w \notin resumed /\ FindsRoot(store) /\ ~Corrupt(store) /\ ToBoard(w)
    /\ Rest

(* What it still owns.  Who has no identity in concurrent mode may be the    *)
(* owner of anything in progress.                                            *)
OwnedByName(w) == {t \in InProgress : board[t].claimed_by = w}

Owned(w) == IF Concurrent /\ w \notin Anonymous THEN OwnedByName(w) ELSE InProgress

(* The memory of a role is looked for where the anchor says (agent_memory_md). *)
HasMemory(w) == <<w, BoardFile(store)>> \in memory

(* _campaign_failures: a row, the memory of the role, and a report.          *)
OwesReportOnly(w) ==
    /\ Sees /\ Rostered # {}
    /\ row[w] = "working"

Owes(w) ==
    /\ Sees /\ Rostered # {}
    /\ row[w] # "reported" \/ ~HasMemory(w)

StopDecide(w) ==
    /\ Reads(w, "subagent")
    /\ \/ ~(Active(store) /\ Loads(store)) /\ Leave(w, "silence")
       \/ Active(store) /\ Loads(store) /\ (Owned(w) # {} \/ Owes(w) \/ ~Sees) /\ Hold(w)
       \/ Active(store) /\ Loads(store) /\ Owned(w) = {} /\ ~Owes(w) /\ Leave(w, Clear)
    /\ Rest

(* TeammateIdle has no way out of a hold but the board, so a corrupt store   *)
(* is warned about and holds nobody.                                         *)
IdleGate(w) ==
    /\ Asks(w, "teammate")
    /\ \/ ~FindsRoot(store) /\ Leave(w, "silence")
       \/ FindsRoot(store) /\ Corrupt(store) /\ Leave(w, "warned")
       \/ FindsRoot(store) /\ ~Corrupt(store) /\ ToBoard(w)
    /\ Rest

(* Work that is left for a teammate.  One without HARNESS_WORKER_ID goes by  *)
(* its name and an empty string, which is what a task nobody claimed shows.  *)
OwnedIdleUnclaimed(w) == {t \in InProgress : board[t].claimed_by = NoWorker}

OwnedIdle(w) ==
    {t \in InProgress :
        board[t].claimed_by \in IF w \in Anonymous THEN {NoWorker} ELSE {w}}

LeftSelfReport == {t \in Tasks : Sees /\ \/ t \in Pending(board)
                                         \/ /\ board[t].status = "failed"
                                            /\ EffectiveSelfReport(board, t) < MaxAttempts
                                            /\ DepsCompleted(board, t)}

Left == {t \in Tasks : Sees /\ t \in Eligible(board)}

IdleDecide(w) ==
    /\ Reads(w, "teammate")
    /\ \/ ~(Active(store) /\ Loads(store)) /\ Leave(w, "silence")
       \/ Active(store) /\ Loads(store) /\ (OwnedIdle(w) \cup Left # {} \/ ~Sees) /\ Hold(w)
       \/ Active(store) /\ Loads(store) /\ OwnedIdle(w) \cup Left = {} /\ Leave(w, Clear)
    /\ Rest

------------------------------------------------------------------------------
(* Work (TaskClaim), and what sessions write down (no code of the hooks)     *)

Works(w) == at[w] = "work"

(* harness-claim.py loads what state_path names and asks no gate; a session  *)
(* can record something where there is a board to edit.                      *)
Editable == Sees /\ Loads(store)

Claim(w) ==
    /\ Works(w) /\ Editable
    /\ ReapOnly(w) \/ \E t \in Tasks : ClaimTask(w, t)
    /\ UNCHANGED <<storeVars, sessionVars>>

Outcome(w) ==
    /\ Works(w) /\ Editable
    /\ \E t \in Tasks : board[t].claimed_by = w /\ (Complete(w, t) \/ Fail(w, t))
    /\ UNCHANGED <<storeVars, sessionVars>>

Report(w) ==
    /\ Works(w) /\ kind[w] = "subagent" /\ Editable /\ row[w] = "working"
    /\ row' = [row EXCEPT ![w] = "reported"]
    /\ UNCHANGED <<boardVars, storeVars, kind, at, resumed, observed, memory, why, touched, unexplained>>

Remember(w) ==
    /\ Works(w) /\ kind[w] = "subagent" /\ ~HasMemory(w)
    /\ memory' = memory \cup {<<w, BoardFile(store)>>}
    /\ UNCHANGED <<boardVars, storeVars, kind, at, resumed, observed, row, why, touched, unexplained>>

(* The orchestrator adds a row.                                              *)
Enroll(w) ==
    /\ kind[w] = "subagent" /\ Editable /\ Rostered # {} /\ row[w] = "unlisted"
    /\ row' = [row EXCEPT ![w] = "working"]
    /\ UNCHANGED <<boardVars, storeVars, kind, at, resumed, observed, memory, why, touched, unexplained>>

Pass == Tick /\ UNCHANGED <<storeVars, sessionVars>>

(* Hands on the store: the campaign's file edited or removed, an anchor      *)
(* seeded, broken, repaired or removed, the campaign moved to where the      *)
(* anchor says it is, with the memory files or without.                      *)
Edits ==
    {[store EXCEPT ![home] = c] : c \in Contents}
    \cup {[store EXCEPT !.anchor = a] : a \in {"none", "ok", "garbled"}}
    \cup {[store EXCEPT !.above = a] : a \in IF Anchored(store) THEN {"garbled", "same id"} ELSE {}}
    \cup {[store EXCEPT !.marker = home # "state"]}

Moved == [store EXCEPT !.hq = store[home], ![home] = "none"]

MovedMemories == {<<m[1], "hq">> : m \in memory}

ChangeStore ==
    /\ changes < MaxChanges
    /\ \/ store' \in Edits \ {store} /\ UNCHANGED <<home, memory>>
       \/ /\ Anchored(store) /\ home # "hq"
          /\ store' = Moved /\ home' = "hq"
          /\ memory' \in {memory, MovedMemories}
    /\ changes' = changes + 1
    /\ touched' = touched \cup {w \in Workers : at[w] = "read"}
    /\ UNCHANGED <<boardVars, kind, at, resumed, observed, row, why, unexplained>>

HookStep(w) == StopGate(w) \/ StopDecide(w) \/ IdleGate(w) \/ IdleDecide(w)

Next ==
    \/ \E w \in Workers :
          \/ Start(w) \/ HookStep(w)
          \/ Claim(w) \/ Outcome(w) \/ Report(w) \/ Remember(w) \/ Enroll(w)
    \/ Pass
    \/ ChangeStore

Spec == Init /\ [][Next]_vars

(* Sessions that started try to leave, over and over; hooks run to their end; *)
(* a session that is sent back to work gets to claim and to record in the end, *)
(* however often it tries to leave in between; the work of a file that was    *)
(* left behind, which the same hooks hand out, comes to an end; time passes.  *)
Fairness ==
    /\ \A w \in Workers :
          /\ WF_vars(HookStep(w))
          /\ SF_vars(\E t \in Tasks : ClaimTask(w, t) /\ Claim(w))
          /\ SF_vars(Outcome(w))
          /\ SF_vars(~Sees /\ IdleDecide(w) /\ at'[w] = "gone")
    /\ WF_vars(Pass)

FairSpec == Spec /\ Fairness

------------------------------------------------------------------------------
(* Whoever was let go because nothing was left to do owns nothing in         *)
(* progress, now or later, and on a roster it has reported and left a        *)
(* memory file, where the root kept those when it went.  The warning of      *)
(* SubagentStart ("SubagentStop will hold your exit over it") comes true:    *)
(* such a role was enrolled meanwhile.                                       *)
NobodyLeavesWork ==
    \A w \in Workers :
        why[w] = "clear" =>
            /\ \A t \in Tasks : board[t].status = "in_progress" => board[t].claimed_by # w
            /\ kind[w] = "subagent" /\ Rostered # {} =>
                  row[w] = "reported" /\ \E m \in memory : m[1] = w

(* "Must fail loud, not be silently read as an inactive store": a hook that  *)
(* says nothing has one of the reasons listed at Explained.                  *)
SilenceIsExplained == unexplained = {}

(* When all teammates rest nothing is left that one of them could do, in     *)
(* whatever order they went and whoever failed last.                         *)
LastAwakeSettles ==
    (/\ changes = 0
     /\ \A w \in Workers : kind[w] = "teammate" /\ why[w] = "clear") => Settled

(* Every session that started gets away.  A subagent is held once, also on a *)
(* store that stays corrupt; what keeps a teammate up is work that it can    *)
(* get: "a task the Stop hook already ruled out cannot keep a teammate       *)
(* awake".  A teammate without an identity of its own may be kept for ever.  *)
EverySessionLeaves ==
    <>[](\A w \in Workers :
            at[w] \in {"new", "gone"} \/ (kind[w] = "teammate" /\ w \in Anonymous))
================================================================================
