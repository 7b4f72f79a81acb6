------------------------------ MODULE HarnessStop ------------------------------
(***************************************************************************)
(* The two Stop hooks, harness-stop.py and self-reflect-stop.py, which     *)
(* Claude Code runs side by side whenever a session wants to end, over the *)
(* board of TaskClaim.  A session is a worker of TaskClaim.  The hooks     *)
(* share three files of the root with the hooks of every other session:    *)
(* the block counter, the activation bit and the reflection marker.        *)
(***************************************************************************)
EXTENDS TaskClaim

CONSTANTS
    MaxBlocks,     \* MAX_CONSECUTIVE_BLOCKS
    MaxReflect,    \* REFLECT_MAX_ITERATIONS
    MaxSessions,   \* session_config.max_sessions, 0 for no limit
    MaxPerSession, \* session_config.max_tasks_per_session, 0 for no limit
    Unbacked,      \* tasks without a validation command or a base commit
    CostKnown,     \* cost.actual_tokens is recorded before the close
    Corruptible,   \* the state file may stop parsing
    MaxPrompts     \* bound: how often users wake or restart a session

ASSUME StopAssumption ==
    /\ {CostKnown, Corruptible} \subseteq BOOLEAN
    /\ {MaxBlocks, MaxReflect, MaxSessions, MaxPerSession, MaxPrompts} \subseteq Nat
    /\ Unbacked \subseteq Tasks
    /\ IsFiniteSet(Tasks) /\ Workers # {}
    /\ Unlogged = {}     \* bound: the log of the campaign fits in what is read

VARIABLES
    onBoard,       \* rigid: the root has a board.json; otherwise harness-tasks.json
    active,        \* board.json says "active"; .harness-active exists
    corrupt,       \* the state file does not parse
    sessionCount,  \* session_count of the state file
    outcomes,      \* outcome lines of the running session, up to MaxPerSession
    counter,       \* .harness-stop-counter; no file reads as no blocks
    reflect,       \* .harness-reflect exists
    reflected,     \* reflection passes counted for each session id
    hook,          \* what harness-stop.py of a session does next
    mirror,        \* the same for self-reflect-stop.py
    view,          \* the counter value harness-stop.py has in memory
    resumed,       \* stop_hook_active: the session goes on because of a block
    why,           \* history: why harness-stop.py last let the session go
    row,           \* history: blocks in a row without any task completing
    prompts        \* how often users woke or restarted a session

hookVars == <<hook, mirror, view, resumed, why, row>>
rootVars == <<onBoard, active, corrupt, sessionCount, outcomes, counter, reflect, reflected, prompts>>
vars == <<boardVars, rootVars, hookVars>>

Count == [blocks : Nat, done : Nat]
NoBlocks == [blocks |-> 0, done |-> 0]

StopTypeOK ==
    /\ BoardTypeOK
    /\ {onBoard, active, corrupt, reflect} \subseteq BOOLEAN
    /\ {sessionCount, prompts} \subseteq Nat /\ outcomes \in 0 .. MaxPerSession
    /\ counter \in Count
    /\ reflected \in [Workers -> 0 .. MaxReflect]
    /\ hook \in [Workers -> {"work", "load", "read", "write", "reset", "touch", "unlink",
                             "allow", "block", "left"}]
    /\ mirror \in [Workers -> {"off", "due", "allow", "block"}]
    /\ view \in [Workers -> Count]
    /\ resumed \in [Workers -> BOOLEAN]
    /\ why \in [Workers -> {"none", "corrupt", "inactive", "limit", "finished", "valve"}]
    /\ row \in [Workers -> Nat]

Init ==
    /\ BoardInit
    /\ onBoard \in BOOLEAN
    /\ active = TRUE /\ corrupt = FALSE /\ reflect = FALSE
    /\ sessionCount = 1 /\ outcomes = 0 /\ prompts = 0
    /\ counter = NoBlocks
    /\ reflected = [w \in Workers |-> 0]
    /\ hook = [w \in Workers |-> "work"]
    /\ mirror = [w \in Workers |-> "off"]
    /\ view = [w \in Workers |-> NoBlocks]
    /\ resumed = [w \in Workers |-> FALSE]
    /\ why = [w \in Workers |-> "none"]
    /\ row = [w \in Workers |-> 0]

------------------------------------------------------------------------------
(* harness-stop.py: what it finds in the state file. *)

(* The gate reports a broken board before anything else; a broken legacy    *)
(* file is only met by an active harness.                                   *)
Unreadable == corrupt /\ (onBoard \/ active)

LimitReached ==
    \/ MaxSessions > 0 /\ sessionCount >= MaxSessions
    \/ /\ ~Concurrent
       /\ MaxPerSession > 0 /\ sessionCount > 0
       /\ outcomes >= MaxPerSession

InProgress == {t \in Tasks : board[t].status = "in_progress"}

(* Tasks in progress that hold this session: in concurrent mode a known     *)
(* worker answers for its own and for those nobody has claimed.             *)
Blocking(w) ==
    IF Concurrent /\ w \notin Anonymous
    THEN {t \in InProgress : board[t].claimed_by \in {w, NoWorker}}
    ELSE InProgress

NothingLeftToClaim(w) == Eligible(board) = {}

NothingLeft(w) == Eligible(board) = {} /\ Blocking(w) = {}

IntegrityFailures ==
    IF onBoard THEN Unbacked \cap (InProgress \cup Completed(board)) ELSE {}

CostGap == onBoard /\ ~CostKnown

Hook(w, next) == hook' = [hook EXCEPT ![w] = next]

LetGo(w, reason) == why' = [why EXCEPT ![w] = reason]

(* The decision, from one reading of the state file. *)
Decide(w) ==
    /\ hook[w] = "load"
    /\ \/ /\ Unreadable
          /\ IF resumed[w]
             THEN Hook(w, "allow") /\ LetGo(w, "corrupt")
             ELSE Hook(w, "block") /\ UNCHANGED why
          /\ UNCHANGED view
       \/ /\ ~Unreadable /\ ~active
          /\ Hook(w, "allow") /\ LetGo(w, "inactive")
          /\ UNCHANGED view
       \/ /\ ~Unreadable /\ active /\ LimitReached
          /\ Hook(w, "reset") /\ LetGo(w, "limit")
          /\ UNCHANGED view
       \/ /\ ~Unreadable /\ active /\ ~LimitReached
          /\ IF \/ IntegrityFailures # {} /\ ~resumed[w]
                \/ NothingLeft(w) /\ CostGap /\ ~resumed[w]
             THEN Hook(w, "block") /\ UNCHANGED <<why, view>>
             ELSE IF NothingLeft(w)
             THEN Hook(w, "reset") /\ LetGo(w, "finished") /\ UNCHANGED view
             ELSE /\ Hook(w, "read")
                  /\ view' = [view EXCEPT ![w].done = Cardinality(Completed(board))]
                  /\ UNCHANGED why
    /\ UNCHANGED <<boardVars, rootVars, mirror, resumed, row>>

(* Tasks remain: one more block, counted from the file unless a task was    *)
(* completed since it was written.                                          *)
ReadCounterAtLeast(w) ==
    LET before == IF view[w].done >= counter.done THEN 0 ELSE counter.blocks
    IN  /\ hook[w] = "read"
        /\ view' = [view EXCEPT ![w].blocks = before + 1]
        /\ Hook(w, "write")
        /\ UNCHANGED <<boardVars, rootVars, mirror, resumed, why, row>>

ReadCounter(w) ==
    LET before == IF view[w].done > counter.done THEN 0 ELSE counter.blocks
    IN  /\ hook[w] = "read"
        /\ view' = [view EXCEPT ![w].blocks = before + 1]
        /\ Hook(w, "write")
        /\ UNCHANGED <<boardVars, rootVars, mirror, resumed, why, row>>

(* The safety valve opens on a session that only runs because of a block.   *)
WriteCounter(w) ==
    /\ hook[w] = "write"
    /\ counter' = view[w]
    /\ IF resumed[w] /\ view[w].blocks > MaxBlocks
       THEN Hook(w, "reset") /\ LetGo(w, "valve")
       ELSE Hook(w, "block") /\ UNCHANGED why
    /\ UNCHANGED <<boardVars, onBoard, active, corrupt, sessionCount, outcomes, reflect, reflected,
                   prompts, mirror, view, resumed, row>>

ResetCounter(w) ==
    /\ hook[w] = "reset"
    /\ counter' = NoBlocks
    /\ Hook(w, IF why[w] = "finished" THEN "touch" ELSE "allow")
    /\ UNCHANGED <<boardVars, onBoard, active, corrupt, sessionCount, outcomes, reflect, reflected,
                   prompts, mirror, view, resumed, why, row>>

(* The campaign is over: leave the marker for the other hook, then switch   *)
(* the harness off.  A board is switched off by the session, not here.      *)
TouchReflect(w) ==
    /\ hook[w] = "touch"
    /\ reflect' = TRUE
    /\ Hook(w, "unlink")
    /\ UNCHANGED <<boardVars, onBoard, active, corrupt, sessionCount, outcomes, counter, reflected,
                   prompts, mirror, view, resumed, why, row>>

UnlinkActive(w) ==
    /\ hook[w] = "unlink"
    /\ active' = (active /\ onBoard)
    /\ Hook(w, "allow")
    /\ UNCHANGED <<boardVars, onBoard, corrupt, sessionCount, outcomes, counter, reflect, reflected,
                   prompts, mirror, view, resumed, why, row>>

StopHook(w) ==
    \/ Decide(w) \/ ReadCounter(w) \/ WriteCounter(w)
    \/ ResetCounter(w) \/ TouchReflect(w) \/ UnlinkActive(w)

------------------------------------------------------------------------------
(* self-reflect-stop.py: one more pass over the work while the marker is    *)
(* there, up to the ceiling or until the session says REFLECT-DONE.         *)
Reflect(w) ==
    LET enough == reflected[w] >= MaxReflect
    IN  /\ mirror[w] = "due"
        /\ \E said \in BOOLEAN :
              IF ~reflect \/ said \/ enough
              THEN /\ mirror' = [mirror EXCEPT ![w] = "allow"]
                   /\ reflect' = (reflect /\ ~said /\ MaxReflect = 0)
                   /\ UNCHANGED reflected
              ELSE /\ mirror' = [mirror EXCEPT ![w] = "block"]
                   /\ reflected' = [reflected EXCEPT ![w] = @ + 1]
                   /\ UNCHANGED reflect
        /\ UNCHANGED <<boardVars, onBoard, active, corrupt, sessionCount, outcomes, counter, prompts,
                       hook, view, resumed, why, row>>

------------------------------------------------------------------------------
(* Claude Code, the sessions and their users (no code of the hooks).        *)

Stop(w) ==
    /\ hook[w] = "work"
    /\ Hook(w, "load")
    /\ mirror' = [mirror EXCEPT ![w] = "due"]
    /\ UNCHANGED <<boardVars, rootVars, view, resumed, why, row>>

(* Both hooks have answered: one block is enough to go on. *)
Answered(w) == hook[w] \in {"allow", "block"} /\ mirror[w] \in {"allow", "block"}

(* Bound: the history counts no further once the valve has failed.          *)
RowCap == MaxBlocks + 2

Resume(w) ==
    /\ Answered(w)
    /\ "block" \in {hook[w], mirror[w]}
    /\ row' = [row EXCEPT ![w] = IF hook[w] = "block" /\ @ < RowCap THEN @ + 1 ELSE @]
    /\ Hook(w, "work")
    /\ mirror' = [mirror EXCEPT ![w] = "off"]
    /\ resumed' = [resumed EXCEPT ![w] = TRUE]
    /\ UNCHANGED <<boardVars, rootVars, view, why>>

Leave(w) ==
    /\ Answered(w)
    /\ "block" \notin {hook[w], mirror[w]}
    /\ Hook(w, "left")
    /\ mirror' = [mirror EXCEPT ![w] = "off"]
    /\ row' = [row EXCEPT ![w] = 0]
    /\ UNCHANGED <<boardVars, rootVars, view, resumed, why>>

Record(w, t) ==
    /\ Complete(w, t) \/ Fail(w, t)
    /\ outcomes' = IF outcomes < MaxPerSession THEN outcomes + 1 ELSE outcomes
    /\ row' = IF board'[t].status = "completed" THEN [v \in Workers |-> 0] ELSE row
    /\ UNCHANGED <<onBoard, active, corrupt, sessionCount, counter, reflect, reflected, prompts,
                   hook, mirror, view, resumed, why>>

Work(w) ==
    /\ hook[w] = "work"
    /\ ~corrupt
    /\ \/ /\ ReapOnly(w) \/ \E t \in Tasks : ClaimTask(w, t) \/ StartByHand(w, t)
          /\ UNCHANGED <<rootVars, hookVars>>
       \/ \E t \in Tasks : Record(w, t)

(* A user wakes a session, or starts the harness in a new one.              *)
Prompt(w) ==
    /\ hook[w] \in {"work", "left"}
    /\ prompts < MaxPrompts
    /\ prompts' = prompts + 1
    /\ resumed' = [resumed EXCEPT ![w] = FALSE]
    /\ row' = [row EXCEPT ![w] = 0]
    /\ Hook(w, "work")
    /\ \/ UNCHANGED <<sessionCount, outcomes, reflected>>
       \/ /\ hook[w] = "left"
          /\ sessionCount' = sessionCount + 1
          /\ outcomes' = 0
          /\ reflected' = [reflected EXCEPT ![w] = 0]
    /\ UNCHANGED <<boardVars, onBoard, active, corrupt, counter, reflect, mirror, view, why>>

Corrupt ==
    /\ Corruptible
    /\ corrupt' = ~corrupt
    /\ UNCHANGED <<boardVars, onBoard, active, sessionCount, outcomes, counter, reflect, reflected,
                   prompts, hookVars>>

CloseCampaign(w) ==
    /\ hook[w] = "work" /\ onBoard /\ active
    /\ active' = FALSE
    /\ UNCHANGED <<boardVars, onBoard, corrupt, sessionCount, outcomes, counter, reflect, reflected,
                   prompts, hookVars>>

LeaseTick == Tick /\ UNCHANGED <<rootVars, hookVars>>

Next ==
    \/ \E w \in Workers :
          \/ StopHook(w) \/ Reflect(w)
          \/ Stop(w) \/ Resume(w) \/ Leave(w) \/ Work(w) \/ Prompt(w) \/ CloseCampaign(w)
    \/ Corrupt
    \/ LeaseTick

Spec == Init /\ [][Next]_vars

(* The hooks run, Claude Code acts on their answers, and a session that has *)
(* nothing better to do tries to stop again.  Nobody owes any work.         *)
Fairness ==
    \A w \in Workers :
        /\ WF_vars(StopHook(w)) /\ WF_vars(Reflect(w))
        /\ WF_vars(Stop(w)) /\ WF_vars(Resume(w) \/ Leave(w))

FairSpec == Spec /\ Fairness

------------------------------------------------------------------------------
(* The safety valve: N blocks in a row without any task completing, and the *)
(* stop is allowed.  One block more is possible: the integrity gate and the *)
(* corrupt-file gate block a first stop without counting it.                *)
RowBounded == \A w \in Workers : row[w] <= MaxBlocks + 1

(* The sessions that went because the work was finished did not leave any:  *)
(* when the last of them has gone, nothing is eligible or in progress.      *)
LastOutFinished ==
    (\A w \in Workers : hook[w] = "left" /\ why[w] = "finished") => Settled

(* Of a root without a board: the activation marker goes when every task is *)
(* finished, not before.                                                    *)
GoneMeansFinished == ~onBoard /\ ~active => Settled

(* The counter cuts every loop: a session that keeps trying to stop gets    *)
(* away in the end, whatever the other sessions do to the shared counter.   *)
EveryStopEnds == \A w \in Workers : hook[w] = "load" ~> hook[w] = "left"
==============================================================================
