------------------------- MODULE SubagentHooksProofs -------------------------
(* Proofs about SubagentHooks for any sessions, tasks, roster and store:    *)
(* who is silent has a reason, who is let go leaves no work, and the last   *)
(* teammate to rest leaves a settled board.                                 *)
EXTENDS SubagentHooks, TaskClaimProofs

(* The store is one that the gate knows.                                    *)
StoreFits == store \in Stores /\ home \in Files

(* Between gate and board a store that did not change is still not corrupt. *)
ReadIsSound == \A w \in Workers : at[w] = "read" /\ w \notin touched => ~Corrupt(store)

(* Whoever was let go is gone.                                              *)
GoneIsGone == \A w \in Workers : why[w] # "" => at[w] = "gone"

(* A task in progress has an owner, one with an identity.                   *)
OwnersNamed ==
    \A t \in Tasks : board[t].status = "in_progress" => board[t].claimed_by \in Workers \ Anonymous

HooksInv == HooksTypeOK /\ StoreFits /\ ReadIsSound /\ GoneIsGone

------------------------------------------------------------------------------
(* Where a hook can stop: each of the four hook steps is one of these.      *)
LEMMA HookStepShape ==
  ASSUME NEW w \in Workers, HookStep(w)
  PROVE  /\ at[w] \in {"work", "read"}
         /\ UNCHANGED <<boardVars, storeVars, kind, observed, row, memory>>
         /\ \/ \E ground \in {"clear", "stale", "resumed", "silence", "warned"} : Leave(w, ground)
            \/ Hold(w)
            \/ ToBoard(w) /\ ~Corrupt(store)
BY DEF HookStep, StopGate, StopDecide, IdleGate, IdleDecide, Asks, Reads, Rest, Clear

(* What the hooks and the sessions do to the board is what TaskClaim lets   *)
(* its workers do.                                                          *)
LEMMA HooksStepTheBoard == [Next]_vars => [BoardNext]_boardVars
<1> SUFFICES ASSUME [Next]_vars
             PROVE  [BoardNext]_boardVars
  OBVIOUS
<1>1. ASSUME NEW w \in Workers, HookStep(w)
      PROVE  UNCHANGED boardVars
  BY <1>1, HookStepShape DEF boardVars
<1>2. ASSUME NEW w \in Workers, Start(w) \/ Report(w) \/ Remember(w) \/ Enroll(w)
      PROVE  UNCHANGED boardVars
  BY <1>2 DEF Start, Report, Remember, Enroll, boardVars
<1>3. ASSUME NEW w \in Workers, Claim(w) \/ Outcome(w)
      PROVE  BoardNext
  BY <1>3 DEF Claim, Outcome, BoardNext
<1>4. CASE Pass
  BY <1>4 DEF Pass, BoardNext
<1>5. CASE ChangeStore \/ UNCHANGED vars
  BY <1>5 DEF ChangeStore, vars, boardVars
<1> QED
  BY <1>1, <1>2, <1>3, <1>4, <1>5 DEF Next

(* An edit makes a store of a store.                                        *)
LEMMA EditsFit ==
  ASSUME StoreFits, NEW s \in Edits
  PROVE  s \in Stores
<1> USE DEF StoreFits, Stores, Files, Contents
<1>1. ASSUME NEW c \in Contents, s = [store EXCEPT ![home] = c]
      PROVE  s \in Stores
  <2>1. CASE home = "hq"
    BY <1>1, <2>1
  <2>2. CASE home = "old"
    BY <1>1, <2>2
  <2>3. CASE home = "state"
    BY <1>1, <2>3
  <2> QED
    BY <2>1, <2>2, <2>3
<1>2. ASSUME NEW a \in {"none", "ok", "garbled"}, s = [store EXCEPT !.anchor = a]
      PROVE  s \in Stores
  BY <1>2
<1>3. ASSUME NEW a \in {"garbled", "same id"}, s = [store EXCEPT !.above = a]
      PROVE  s \in Stores
  BY <1>3
<1>4. CASE s = [store EXCEPT !.marker = home # "state"]
  BY <1>4
<1> QED
  BY <1>1, <1>2, <1>3, <1>4 DEF Edits

(* Neither does moving the campaign lead out of the stores.                 *)
LEMMA MoveFits ==
  ASSUME StoreFits, home # "hq"
  PROVE  Moved \in Stores
<1> USE DEF StoreFits, Stores, Files, Contents, Moved
<1>1. CASE home = "old"
  BY <1>1
<1>2. CASE home = "state"
  BY <1>2
<1> QED
  BY <1>1, <1>2

(* The store stays one that the gate knows.                                 *)
LEMMA StoreFitsStep ==
  ASSUME StoreFits, [Next]_vars
  PROVE  StoreFits'
<1>1. CASE UNCHANGED <<store, home>>
  BY <1>1 DEF StoreFits
<1>2. CASE ChangeStore
  <2>1. CASE store' \in Edits /\ home' = home
    BY <2>1, EditsFit DEF StoreFits
  <2>2. CASE home # "hq" /\ store' = Moved /\ home' = "hq"
    BY <2>2, MoveFits DEF StoreFits, Files
  <2> QED
    BY <1>2, <2>1, <2>2 DEF ChangeStore
<1>3. ASSUME NEW w \in Workers, HookStep(w)
      PROVE  UNCHANGED <<store, home>>
  BY <1>3, HookStepShape DEF storeVars
<1>4. [Next]_vars => ChangeStore \/ UNCHANGED <<store, home>>
  BY <1>3 DEF Next, vars, storeVars, Start, Claim, Outcome, Report, Remember, Enroll, Pass
<1> QED
  BY <1>1, <1>2, <1>4

(* The ranges of the sessions' own variables.                               *)
SessionTypeOK ==
    /\ changes \in 0 .. MaxChanges
    /\ kind \in [Workers -> {"subagent", "teammate"}]
    /\ at \in [Workers -> Places]
    /\ resumed \subseteq Workers
    /\ observed \subseteq Workers
    /\ row \in [Workers -> {"unlisted", "working", "reported"}]
    /\ memory \subseteq Workers \X {"hq", "old"}
    /\ why \in [Workers -> {"", "clear", "stale", "resumed", "silence", "warned"}]
    /\ touched \subseteq Workers /\ unexplained \subseteq Workers

LEMMA SessionTypeStep ==
  ASSUME SessionTypeOK, [Next]_vars
  PROVE  SessionTypeOK'
<1> USE DEF SessionTypeOK, Places
<1>1. ASSUME NEW w \in Workers, Start(w)
      PROVE  SessionTypeOK'
  BY <1>1 DEF Start, Hush, storeVars
<1>2. ASSUME NEW w \in Workers, HookStep(w)
      PROVE  SessionTypeOK'
  <2>1. ASSUME NEW ground \in {"clear", "stale", "resumed", "silence", "warned"},
               Leave(w, ground)
        PROVE  SessionTypeOK'
    BY <1>2, <2>1, HookStepShape DEF Leave, Hush, storeVars
  <2>2. CASE Hold(w)
    BY <1>2, <2>2, HookStepShape DEF Hold, storeVars
  <2>3. CASE ToBoard(w)
    BY <1>2, <2>3, HookStepShape DEF ToBoard, storeVars
  <2> QED
    BY <1>2, <2>1, <2>2, <2>3, HookStepShape
<1>3. ASSUME NEW w \in Workers, Claim(w) \/ Outcome(w)
      PROVE  SessionTypeOK'
  BY <1>3 DEF Claim, Outcome, sessionVars, storeVars
<1>4. ASSUME NEW w \in Workers, Report(w) \/ Enroll(w)
      PROVE  SessionTypeOK'
  BY <1>4 DEF Report, Enroll, storeVars
<1>7. ASSUME NEW w \in Workers, Remember(w)
      PROVE  SessionTypeOK'
  <2>1. <<w, BoardFile(store)>> \in Workers \X {"hq", "old"}
    BY DEF BoardFile
  <2> QED
    BY <1>7, <2>1 DEF Remember, storeVars
<1>5. CASE Pass \/ UNCHANGED vars
  BY <1>5 DEF Pass, vars, sessionVars, storeVars
<1>6. CASE ChangeStore
  <2>1. changes' \in 0 .. MaxChanges
    <3>1. MaxChanges \in Nat /\ changes \in 0 .. MaxChanges
      BY HooksAssumption
    <3>2. changes < MaxChanges /\ changes' = changes + 1
      BY <1>6 DEF ChangeStore
    <3> HIDE DEF SessionTypeOK, Places
    <3> QED
      BY <3>1, <3>2, SMTT(30)
  <2>2. /\ UNCHANGED <<kind, at, resumed, observed, row, why, unexplained>>
        /\ touched' = touched \cup {w \in Workers : at[w] = "read"}
    BY <1>6 DEF ChangeStore
  <2>3. memory' \in {memory, MovedMemories}
    BY <1>6 DEF ChangeStore
  <2>4. memory' \subseteq Workers \X {"hq", "old"}
    <3>1. \A m \in memory : m[1] \in Workers
      OBVIOUS
    <3>2. ASSUME NEW n \in MovedMemories
          PROVE  n \in Workers \X {"hq", "old"}
      <4>1. PICK m \in memory : n = <<m[1], "hq">>
        BY Zenon DEF MovedMemories
      <4>2. m[1] \in Workers
        BY <3>1
      <4> QED
        BY <4>1, <4>2
    <3> QED
      BY <2>3, <3>2
  <2> QED
    BY <2>1, <2>2, <2>4
<1> QED
  BY <1>1, <1>2, <1>3, <1>4, <1>5, <1>6, <1>7 DEF Next

LEMMA ReadIsSoundStep ==
  ASSUME SessionTypeOK, ReadIsSound, [Next]_vars
  PROVE  ReadIsSound'
<1> USE DEF SessionTypeOK, ReadIsSound
<1>1. ASSUME NEW w \in Workers, Start(w) \/ Claim(w) \/ Outcome(w) \/ Report(w) \/ Remember(w)
                                \/ Enroll(w)
      PROVE  ReadIsSound'
  BY <1>1 DEF Start, Claim, Outcome, Report, Remember, Enroll, sessionVars, storeVars,
              Corrupt, Parses, LegacyFile
<1>2. ASSUME NEW w \in Workers, HookStep(w)
      PROVE  ReadIsSound'
  <2>1. store' = store
    BY <1>2, HookStepShape DEF storeVars
  <2>2. Corrupt(store') = Corrupt(store)
    BY <2>1
  <2>3. ASSUME NEW ground \in {"clear", "stale", "resumed", "silence", "warned"},
               Leave(w, ground)
        PROVE  ReadIsSound'
    BY <2>2, <2>3 DEF Leave
  <2>4. CASE Hold(w)
    BY <2>2, <2>4 DEF Hold
  <2>5. CASE ToBoard(w) /\ ~Corrupt(store)
    BY <2>2, <2>5 DEF ToBoard
  <2> QED
    BY <1>2, <2>3, <2>4, <2>5, HookStepShape
<1>3. CASE Pass \/ UNCHANGED vars
  BY <1>3 DEF Pass, vars, sessionVars, storeVars, Corrupt, Parses, LegacyFile
<1>4. CASE ChangeStore
  BY <1>4 DEF ChangeStore
<1> QED
  BY <1>1, <1>2, <1>3, <1>4 DEF Next

LEMMA GoneIsGoneStep ==
  ASSUME SessionTypeOK, GoneIsGone, [Next]_vars
  PROVE  GoneIsGone'
<1> USE DEF SessionTypeOK, GoneIsGone
<1>1. ASSUME NEW w \in Workers, Start(w) \/ Claim(w) \/ Outcome(w) \/ Report(w) \/ Remember(w)
                                \/ Enroll(w)
      PROVE  GoneIsGone'
  BY <1>1 DEF Start, Claim, Outcome, Report, Remember, Enroll, sessionVars
<1>2. ASSUME NEW w \in Workers, HookStep(w)
      PROVE  GoneIsGone'
  <2>1. at[w] # "gone"
    BY <1>2, HookStepShape
  <2>2. ASSUME NEW ground \in {"clear", "stale", "resumed", "silence", "warned"},
               Leave(w, ground)
        PROVE  GoneIsGone'
    BY <2>2 DEF Leave
  <2>3. CASE Hold(w) \/ ToBoard(w)
    BY <2>1, <2>3 DEF Hold, ToBoard
  <2> QED
    BY <1>2, <2>2, <2>3, HookStepShape
<1>3. CASE Pass \/ ChangeStore \/ UNCHANGED vars
  BY <1>3 DEF Pass, ChangeStore, vars, sessionVars
<1> QED
  BY <1>1, <1>2, <1>3 DEF Next

(* The ranges of all variables, with what the gate and the sessions' places *)
(* have to do with each other.                                              *)
THEOREM HooksTypeCorrect == Spec => []HooksInv
<1>1. HooksTypeOK <=> BoardTypeOK /\ SessionTypeOK /\ store \in Stores /\ home \in Files
  BY DEF HooksTypeOK, SessionTypeOK
<1>2. Init => HooksInv
  <2> SUFFICES ASSUME Init
               PROVE  HooksInv
    OBVIOUS
  <2>1. BoardTypeOK
    <3>1. BoardInit
      BY DEF Init
    <3> QED
      BY <3>1, BoardAssumption DEF BoardInit, BoardTypeOK, Row, TaskRecord, Statuses, NoLease
  <2>2. StoreFits
    <3>1. PICK i \in InitialStores : store = i[1] /\ home = i[2]
      BY DEF Init
    <3>2. i \in Stores \X Files
      BY HooksAssumption
    <3> QED
      BY <3>1, <3>2 DEF StoreFits
  <2>3. SessionTypeOK
    <3>1. changes \in 0 .. MaxChanges
      <4>1. MaxChanges \in Nat /\ changes = 0
        BY HooksAssumption DEF Init
      <4> QED
        BY <4>1
    <3> QED
      BY <3>1 DEF Init, SessionTypeOK, Places
  <2>4. ReadIsSound /\ GoneIsGone
    BY DEF Init, ReadIsSound, GoneIsGone
  <2> QED
    BY <1>1, <2>1, <2>2, <2>3, <2>4 DEF HooksInv, StoreFits
<1>3. HooksInv /\ [Next]_vars => HooksInv'
  <2> SUFFICES ASSUME HooksInv, [Next]_vars
               PROVE  HooksInv'
    OBVIOUS
  <2>1. SessionTypeOK /\ BoardTypeOK /\ StoreFits /\ ReadIsSound /\ GoneIsGone
    BY <1>1 DEF HooksInv
  <2>2. BoardTypeOK'
    BY <2>1, BoardTypeStep, HooksStepTheBoard
  <2>3. StoreFits' /\ SessionTypeOK'
    BY <2>1, StoreFitsStep, SessionTypeStep
  <2>4. ReadIsSound' /\ GoneIsGone'
    BY <2>1, ReadIsSoundStep, GoneIsGoneStep
  <2>5. HooksTypeOK'
    BY <2>2, <2>3 DEF HooksTypeOK, SessionTypeOK, StoreFits
  <2> QED
    BY <2>3, <2>4, <2>5 DEF HooksInv
<1> QED
  BY <1>2, <1>3, PTL DEF Spec

------------------------------------------------------------------------------
(* The gate is quiet about a store that parses, or a board does not load,   *)
(* only for a reason that can be told.                                      *)
LEMMA QuietStores ==
  ASSUME StoreFits, ~Corrupt(store), ~(Active(store) /\ Loads(store))
  PROVE  \/ store[home] \in {"none", "closed", "shapeless"}
         \/ home = "state" /\ ~store.marker
         \/ ~Sees \/ (Anchored(store) /\ home # "hq")
<1> USE DEF StoreFits, Stores, Files, Contents, Corrupt, Parses, LegacyFile, Active, Loads,
            StateFile, BoardFile, Anchored, Sees
<1>1. CASE store.anchor = "none"
  <2>1. CASE store.old = "none"
    BY <1>1, <2>1
  <2>2. CASE store.old # "none"
    BY <1>1, <2>2
  <2> QED
    BY <2>1, <2>2
<1>2. CASE store.anchor = "garbled"
  BY <1>2
<1>3. CASE store.anchor = "ok"
  BY <1>3
<1> QED
  BY <1>1, <1>2, <1>3

(* Where no root is found the campaign's file is not there either.          *)
LEMMA RootlessStores ==
  ASSUME StoreFits, ~FindsRoot(store)
  PROVE  store[home] = "none"
BY DEF StoreFits, FindsRoot

(* A verdict that lets a session start in silence is about such a store.    *)
LEMMA SilentStarts ==
  ASSUME StoreFits, NEW w \in Workers, StartsSilent(w)
  PROVE  Explained(w)
<1>1. CASE ~FindsRoot(store)
  BY <1>1, RootlessStores DEF Explained
<1>2. CASE FindsRoot(store)
  <2>1. ~Corrupt(store) /\ ~(Active(store) /\ Loads(store))
    BY <1>2 DEF StartsSilent, Verdict
  <2> QED
    BY <2>1, QuietStores DEF Explained
<1> QED
  BY <1>1, <1>2

(* So is a store that a hook turns away from: at the gate it finds a root,  *)
(* and what it read there is still so, unless the store changed meanwhile.  *)
LEMMA SilentLeaves ==
  ASSUME HooksInv, NEW w \in Workers, HookStep(w)
  PROVE  unexplained' = unexplained
<1>1. ~FindsRoot(store) => Explained(w)
  BY RootlessStores DEF HooksInv, Explained
<1>2. ASSUME at[w] = "read", ~(Active(store) /\ Loads(store))
      PROVE  Explained(w)
  BY <1>2, QuietStores DEF HooksInv, ReadIsSound, Explained
<1>3. ASSUME NEW ground, ground = "silence" => Explained(w), Leave(w, ground)
      PROVE  unexplained' = unexplained
  BY <1>3 DEF Leave, Hush
<1>4. Hold(w) \/ ToBoard(w) => unexplained' = unexplained
  BY DEF Hold, ToBoard
<1>5. CASE StopGate(w) \/ IdleGate(w)
  BY <1>1, <1>3, <1>4, <1>5 DEF StopGate, IdleGate
<1>6. CASE StopDecide(w) \/ IdleDecide(w)
  <2>1. Clear # "silence"
    BY DEF Clear
  <2> QED
    BY <1>2, <1>3, <1>4, <1>6, <2>1 DEF StopDecide, IdleDecide, Reads
<1> QED
  BY <1>5, <1>6 DEF HookStep

(* "Must fail loud": through the changes of ChangeStore, in any order and   *)
(* number, no hook is silent without one of the reasons at Explained.       *)
THEOREM SilencesHaveReasons == Spec => []SilenceIsExplained
<1>1. Init => SilenceIsExplained
  BY DEF Init, SilenceIsExplained
<1>2. HooksInv /\ SilenceIsExplained /\ [Next]_vars => SilenceIsExplained'
  <2> SUFFICES ASSUME HooksInv, SilenceIsExplained, [Next]_vars
               PROVE  SilenceIsExplained'
    OBVIOUS
  <2>1. ASSUME NEW w \in Workers, Start(w)
        PROVE  unexplained' = unexplained
    BY <2>1, SilentStarts DEF Start, Hush, HooksInv
  <2>2. ASSUME NEW w \in Workers, HookStep(w)
        PROVE  unexplained' = unexplained
    BY <2>2, SilentLeaves
  <2>3. ASSUME NEW w \in Workers, Claim(w) \/ Outcome(w) \/ Report(w) \/ Remember(w) \/ Enroll(w)
        PROVE  unexplained' = unexplained
    BY <2>3 DEF Claim, Outcome, Report, Remember, Enroll, sessionVars
  <2>4. Pass \/ ChangeStore \/ UNCHANGED vars => unexplained' = unexplained
    BY DEF Pass, ChangeStore, vars, sessionVars
  <2>5. unexplained' = unexplained
    BY <2>1, <2>2, <2>3, <2>4 DEF Next
  <2> QED
    BY <2>5 DEF SilenceIsExplained
<1> QED
  BY <1>1, <1>2, HooksTypeCorrect, PTL DEF Spec

------------------------------------------------------------------------------
(* Claims name their owner: with claims that go by a host name and a        *)
(* process id there is no telling who owns a task, and a teammate without   *)
(* an identity rests on its own work.                                       *)
Identified == Concurrent \/ Anonymous = {}

(* What a transaction of one worker does to a task in progress: it was in   *)
(* progress for the same owner before, or that worker claimed it.           *)
LEMMA OwnersStay ==
  ASSUME BoardTypeOK, Identified, [Next]_vars, NEW t \in Tasks, board'[t].status = "in_progress"
  PROVE  \/ board[t].status = "in_progress" /\ board'[t].claimed_by = board[t].claimed_by
         \/ \E w \in Workers \ Anonymous : at[w] = "work" /\ board'[t].claimed_by = w
<1>1. ASSUME NEW w \in Workers, HookStep(w)
      PROVE  board' = board
  BY <1>1, HookStepShape DEF boardVars
<1>2. ASSUME NEW w \in Workers, ReapOnly(w)
      PROVE  board'[t] = board[t]
  BY <1>2, ReapedKeeps DEF ReapOnly
<1>3. ASSUME NEW w \in Workers, NEW u \in Tasks, ClaimTask(w, u), at[w] = "work"
      PROVE  \/ board'[t] = board[t]
             \/ \E v \in Workers \ Anonymous : at[v] = "work" /\ board'[t].claimed_by = v
  <2>1. w \notin Anonymous
    BY <1>3 DEF ClaimTask, Identified
  <2>2. CASE t = u
    <3>1. board'[t].claimed_by = w
      BY <1>3, <2>2, ReapedType DEF ClaimTask, Leased, Row
    <3> QED
      BY <1>3, <2>1, <3>1
  <2>3. CASE t # u
    <3>1. board'[t] = Reaped(board)[t]
      BY <1>3, <2>3, ReapedType DEF ClaimTask, Leased
    <3> QED
      BY <3>1, ReapedKeeps
  <2> QED
    BY <2>2, <2>3
<1>4. ASSUME NEW w \in Workers, Claim(w)
      PROVE  \/ board'[t] = board[t]
             \/ \E v \in Workers \ Anonymous : at[v] = "work" /\ board'[t].claimed_by = v
  BY <1>2, <1>3, <1>4 DEF Claim, Works
<1>5. ASSUME NEW w \in Workers, Outcome(w)
      PROVE  board'[t] = board[t]
  BY <1>5 DEF Outcome, Complete, Fail, Row, BoardTypeOK
<1>6. ASSUME NEW w \in Workers, Start(w) \/ Report(w) \/ Remember(w) \/ Enroll(w)
      PROVE  board' = board
  BY <1>6 DEF Start, Report, Remember, Enroll, boardVars
<1>7. CASE Pass
  BY <1>7 DEF Pass, Tick, Aged, Row
<1>8. CASE ChangeStore \/ UNCHANGED vars
  BY <1>8 DEF ChangeStore, vars, boardVars
<1> QED
  BY <1>1, <1>4, <1>5, <1>6, <1>7, <1>8 DEF Next

LEMMA OwnersNamedStep ==
  ASSUME HooksInv, Identified, OwnersNamed, [Next]_vars
  PROVE  OwnersNamed'
BY OwnersStay DEF OwnersNamed, HooksInv, HooksTypeOK

(* What is so when a hook lets a session go with nothing left to do.        *)
CleanLeave(w) ==
    /\ \A t \in Tasks : board[t].status = "in_progress" => board[t].claimed_by # w
    /\ kind[w] = "subagent" /\ Rostered # {} => row[w] = "reported" /\ \E m \in memory : m[1] = w
    /\ kind[w] = "teammate" => Eligible(board) = {}

LEMMA ClearedLeaveClean ==
  ASSUME HooksInv, Identified, OwnersNamed, NEW v \in Workers, HookStep(v),
         NEW w \in Workers, why[w] # "clear", why'[w] = "clear"
  PROVE  CleanLeave(w)
<1>0. why \in [Workers -> {"", "clear", "stale", "resumed", "silence", "warned"}]
  BY DEF HooksInv, HooksTypeOK
<1>1. ASSUME NEW ground, Leave(v, ground)
      PROVE  w = v /\ ground = "clear"
  BY <1>0, <1>1 DEF Leave
<1>2. ~Hold(v) /\ ~ToBoard(v)
  BY DEF Hold, ToBoard
<1>3. CASE StopGate(v) \/ IdleGate(v)
  <2>1. ~Leave(v, "resumed") /\ ~Leave(v, "silence") /\ ~Leave(v, "warned")
    BY <1>1
  <2> QED
    BY <1>2, <1>3, <2>1 DEF StopGate, IdleGate
<1>4. CASE StopDecide(v)
  <2>1. Owned(v) = {} /\ ~Owes(v) /\ Leave(v, Clear)
    BY <1>1, <1>2, <1>4 DEF StopDecide
  <2>2. w = v /\ Sees
    BY <1>1, <2>1 DEF Clear
  <2>3. \A t \in Tasks : board[t].status = "in_progress" => board[t].claimed_by # w
    BY <2>1, <2>2 DEF Owned, OwnedByName, InProgress
  <2>4. Rostered # {} => row[w] = "reported" /\ \E m \in memory : m[1] = w
    <3>1. <<w, BoardFile(store)>>[1] = w
      OBVIOUS
    <3> QED
      BY <2>1, <2>2, <3>1 DEF Owes, HasMemory
  <2>5. kind[w] # "teammate"
    BY <1>4, <2>2 DEF StopDecide, Reads
  <2> QED
    BY <2>3, <2>4, <2>5 DEF CleanLeave
<1>5. CASE IdleDecide(v)
  <2>1. OwnedIdle(v) \cup Left = {} /\ Leave(v, Clear)
    BY <1>1, <1>2, <1>5 DEF IdleDecide
  <2>2. w = v /\ Sees
    BY <1>1, <2>1 DEF Clear
  <2>3. ASSUME NEW t \in Tasks, board[t].status = "in_progress", board[t].claimed_by = w
        PROVE  FALSE
    <3>1. w \notin Anonymous
      BY <2>3 DEF OwnersNamed
    <3>2. t \in OwnedIdle(v)
      BY <2>2, <2>3, <3>1 DEF OwnedIdle, InProgress
    <3> QED
      BY <2>1, <3>2
  <2>4. Eligible(board) = {}
    <3>1. Eligible(board) \subseteq Tasks
      BY DEF Eligible, Pending, Retryable
    <3>2. Left = {}
      BY <2>1
    <3> QED
      BY <2>2, <3>1, <3>2 DEF Left
  <2>5. kind[w] = "teammate"
    BY <1>5, <2>2 DEF IdleDecide, Reads
  <2> QED
    BY <2>3, <2>4, <2>5 DEF CleanLeave
<1> QED
  BY <1>3, <1>4, <1>5 DEF HookStep

(* Only a hook lets a session go.                                           *)
LEMMA HooksLetGo ==
  ASSUME [Next]_vars, NEW w \in Workers, why'[w] # why[w]
  PROVE  \E v \in Workers : HookStep(v)
BY DEF Next, Start, Claim, Outcome, Report, Remember, Enroll, Pass, ChangeStore, vars, sessionVars

(* Rows are only added to a roster; a report stays, and a memory file does, *)
(* in its place or in the one it was moved to.                              *)
LEMMA RosterStep ==
  ASSUME SessionTypeOK, [Next]_vars
  PROVE  /\ kind' = kind
         /\ Rostered' # {} => Rostered # {}
         /\ \A w \in Workers : (\E m \in memory : m[1] = w) => \E m \in memory' : m[1] = w
         /\ \A w \in Workers : row[w] = "reported" => row'[w] = "reported"
<1>1. ASSUME NEW w \in Workers, HookStep(w)
      PROVE  UNCHANGED <<kind, row, memory>>
  BY <1>1, HookStepShape
<1>2. ASSUME NEW w \in Workers, Start(w) \/ Claim(w) \/ Outcome(w)
      PROVE  UNCHANGED <<kind, row, memory>>
  BY <1>2 DEF Start, Claim, Outcome, sessionVars
<1>3. ASSUME NEW w \in Workers, Remember(w)
      PROVE  UNCHANGED <<kind, row>> /\ memory \subseteq memory'
  BY <1>3 DEF Remember
<1>4. ASSUME NEW w \in Workers, Report(w) \/ Enroll(w)
      PROVE  /\ UNCHANGED <<kind, memory>> /\ Rostered # {}
             /\ \A v \in Workers : row[v] = "reported" => row'[v] = "reported"
  BY <1>4 DEF Report, Enroll, Rostered, SessionTypeOK
<1>5. Pass \/ UNCHANGED vars => UNCHANGED <<kind, row, memory>>
  BY DEF Pass, vars, sessionVars
<1>6. ASSUME ChangeStore
      PROVE  /\ UNCHANGED <<kind, row>>
             /\ \A w \in Workers : (\E m \in memory : m[1] = w) => \E m \in memory' : m[1] = w
  <2>1. UNCHANGED <<kind, row>> /\ memory' \in {memory, MovedMemories}
    BY <1>6 DEF ChangeStore
  <2>2. ASSUME NEW w \in Workers, NEW m \in memory, m[1] = w
        PROVE  \E n \in MovedMemories : n[1] = w
    <3>1. <<m[1], "hq">> \in MovedMemories
      BY DEF MovedMemories
    <3>2. <<m[1], "hq">>[1] = w
      BY <2>2
    <3> QED
      BY <3>1, <3>2
  <2> QED
    BY <2>1, <2>2
<1>7. UNCHANGED row => Rostered' = Rostered
  BY DEF Rostered
<1> QED
  BY <1>1, <1>2, <1>3, <1>4, <1>5, <1>6, <1>7 DEF Next

(* What a session left behind stays done: no other session claims in its    *)
(* name.                                                                    *)
LEMMA NobodyLeavesWorkStep ==
  ASSUME HooksInv, Identified, OwnersNamed, NobodyLeavesWork, [Next]_vars
  PROVE  NobodyLeavesWork'
<1>0. BoardTypeOK /\ SessionTypeOK
  BY DEF HooksInv, HooksTypeOK, SessionTypeOK
<1> SUFFICES ASSUME NEW w \in Workers, why'[w] = "clear"
             PROVE  /\ \A t \in Tasks : board'[t].status = "in_progress" => board'[t].claimed_by # w
                    /\ kind'[w] = "subagent" /\ Rostered' # {} =>
                          row'[w] = "reported" /\ \E m \in memory' : m[1] = w
  BY DEF NobodyLeavesWork
<1>1. CASE why[w] = "clear"
  <2>1. at[w] = "gone"
    BY <1>1 DEF HooksInv, GoneIsGone
  <2>2. ASSUME NEW t \in Tasks, board'[t].status = "in_progress"
        PROVE  board'[t].claimed_by # w
    BY <1>0, <1>1, <2>1, <2>2, OwnersStay DEF NobodyLeavesWork
  <2>3. kind[w] = "subagent" /\ Rostered # {} =>
          row[w] = "reported" /\ \E m \in memory : m[1] = w
    BY <1>1 DEF NobodyLeavesWork
  <2> QED
    BY <1>0, <2>2, <2>3, RosterStep
<1>2. CASE why[w] # "clear"
  <2>1. PICK v \in Workers : HookStep(v)
    BY <1>2, HooksLetGo
  <2>2. CleanLeave(w)
    BY <1>2, <2>1, ClearedLeaveClean
  <2>3. board' = board
    BY <2>1, HookStepShape DEF boardVars
  <2>4. UNCHANGED <<kind, row, memory>>
    BY <2>1, HookStepShape
  <2>5. Rostered' = Rostered
    BY <2>4 DEF Rostered
  <2> QED
    BY <2>2, <2>3, <2>4, <2>5 DEF CleanLeave
<1> QED
  BY <1>1, <1>2

(* Whoever was let go because nothing was left to do owns no task, ever,    *)
(* for any number of sessions that come, claim, fail and leave while the    *)
(* store changes under the hooks.                                           *)
THEOREM LeaversOweNothing ==
  ASSUME Identified
  PROVE  Spec => [](OwnersNamed /\ NobodyLeavesWork)
<1>1. Init => OwnersNamed /\ NobodyLeavesWork
  <2> SUFFICES ASSUME Init
               PROVE  OwnersNamed /\ NobodyLeavesWork
    OBVIOUS
  <2>1. \A t \in Tasks : board[t].status = "pending"
    BY DEF Init, BoardInit, Row
  <2>2. \A w \in Workers : why[w] = ""
    BY DEF Init
  <2> QED
    BY <2>1, <2>2 DEF OwnersNamed, NobodyLeavesWork
<1>2. HooksInv /\ OwnersNamed /\ NobodyLeavesWork /\ [Next]_vars
        => (OwnersNamed /\ NobodyLeavesWork)'
  BY OwnersNamedStep, NobodyLeavesWorkStep
<1> QED
  BY <1>1, <1>2, HooksTypeCorrect, PTL DEF Spec

LEMMA LastAwakeStep ==
  ASSUME HooksInv, Identified, OwnersNamed, NobodyLeavesWork, LastAwakeSettles, [Next]_vars
  PROVE  LastAwakeSettles'
<1>0. BoardTypeOK /\ SessionTypeOK
  BY DEF HooksInv, HooksTypeOK, SessionTypeOK
<1> SUFFICES ASSUME changes' = 0,
                    \A w \in Workers : kind'[w] = "teammate" /\ why'[w] = "clear"
             PROVE  Settled'
  BY DEF LastAwakeSettles
<1>1. ~ChangeStore
  <2>1. ASSUME ChangeStore
        PROVE  FALSE
    <3>1. changes' = changes + 1
      BY <2>1 DEF ChangeStore
    <3>2. changes \in 0 .. MaxChanges /\ MaxChanges \in Nat
      BY <1>0, HooksAssumption DEF SessionTypeOK
    <3> QED
      BY <3>1, <3>2
  <2> QED
    BY <2>1
<1>2. \A w \in Workers : kind[w] = "teammate"
  BY <1>0, RosterStep
<1>3. changes' = changes
  <2>1. \A w \in Workers : HookStep(w) => changes' = changes
    BY HookStepShape DEF storeVars
  <2> QED
    BY <1>1, <2>1 DEF Next, Start, Claim, Outcome, Report, Remember, Enroll, Pass, vars, storeVars
<1>4. CASE \A w \in Workers : why[w] = "clear"
  <2>1. Settled
    BY <1>2, <1>3, <1>4 DEF LastAwakeSettles
  <2> QED
    BY <1>0, <2>1, SettledStays, HooksStepTheBoard, HooksAssumption
<1>5. ASSUME NEW w \in Workers, why[w] # "clear"
      PROVE  Settled'
  <2>1. PICK v \in Workers : HookStep(v)
    BY <1>5, HooksLetGo
  <2>2. Eligible(board) = {}
    BY <1>2, <1>5, <2>1, ClearedLeaveClean DEF CleanLeave
  <2>3. board' = board /\ errors' = errors
    BY <2>1, HookStepShape DEF boardVars
  <2>4. OwnersNamed' /\ NobodyLeavesWork'
    BY OwnersNamedStep, NobodyLeavesWorkStep
  <2>5. \A t \in Tasks : board'[t].status # "in_progress"
    BY <2>4 DEF OwnersNamed, NobodyLeavesWork
  <2>6. Eligible(board)' = {}
    BY <2>2, <2>3 DEF Eligible, Pending, Retryable, Effective, DepsCompleted, Completed
  <2> QED
    BY <2>5, <2>6 DEF Settled
<1> QED
  BY <1>4, <1>5

(* The last teammate to rest, whichever it is, leaves a board that is       *)
(* settled: nobody rests while a task waits that one of them could take.    *)
THEOREM LastToRestSettles ==
  ASSUME Identified
  PROVE  Spec => []LastAwakeSettles
<1>1. Init => LastAwakeSettles
  BY HooksAssumption DEF Init, LastAwakeSettles
<1>2. HooksInv /\ OwnersNamed /\ NobodyLeavesWork /\ LastAwakeSettles /\ [Next]_vars
        => LastAwakeSettles'
  BY LastAwakeStep
<1>3. Spec => [](OwnersNamed /\ NobodyLeavesWork)
  BY LeaversOweNothing
<1> QED
  BY <1>1, <1>2, <1>3, HooksTypeCorrect, PTL DEF Spec
==============================================================================
