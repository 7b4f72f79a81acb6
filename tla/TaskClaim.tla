------------------------------ MODULE TaskClaim ------------------------------
(***************************************************************************)
(* The task board and the transactions the harness hooks run on it:        *)
(* harness-claim.py (reap expired leases, pick a task, lease it) and       *)
(* harness-renew.py, with what the sessions themselves record on the       *)
(* board.  Every action is one whole transaction under the lock; module    *)
(* HarnessClaim takes them apart and puts the real lock underneath.        *)
(***************************************************************************)
EXTENDS Integers, FiniteSets

CONSTANTS
    Tasks,
    Workers,      \* worker ids, the values of HARNESS_WORKER_ID
    NoWorker,     \* an absent claimed_by
    Deps,         \* depends_on: a function from tasks to sets of tasks
    Rank,         \* the sort key (priority, id) of each task, as a number
    MaxAttempts,  \* max_attempts of every task
    Lease,        \* length of a lease, in ticks
    Concurrent,   \* session_config.concurrency_mode is "concurrent"
    Anonymous,    \* workers that run harness-claim without HARNESS_WORKER_ID
    Mortal,       \* workers that may die
    Forgetful,    \* tasks whose failures a session may not count in attempts
    Unlogged,     \* tasks whose failures the hooks may not find in the log
    ByHand        \* sessions may start a task without harness-claim

NoLease == -1

ASSUME BoardAssumption ==
    /\ NoWorker \notin Workers
    /\ Deps \in [Tasks -> SUBSET Tasks]
    /\ Rank \in [Tasks -> Nat]
    /\ \A t, u \in Tasks : Rank[t] = Rank[u] => t = u
    /\ MaxAttempts \in Nat \ {0}
    /\ Lease \in Nat \ {0}
    /\ Anonymous \subseteq Workers
    /\ Mortal \subseteq Workers
    /\ Forgetful \subseteq Tasks /\ Unlogged \subseteq Tasks
    /\ {Concurrent, ByHand} \subseteq BOOLEAN

VARIABLES
    board,        \* the tasks of board.json
    errors,       \* ERROR lines of each task in the part of harness-progress.txt
                  \* that the hooks read, its last 200 kB
    belief,       \* the lease each worker was told it has, per task
    dead,         \* workers that have died
    runs          \* history: how often each task was started

boardVars == <<board, errors, belief, dead, runs>>

Statuses == {"pending", "in_progress", "completed", "failed"}

TaskRecord == [status : Statuses, attempts : Nat,
               claimed_by : Workers \cup {NoWorker}, lease : NoLease .. Lease]

BoardTypeOK ==
    /\ board \in [Tasks -> TaskRecord]
    /\ errors \in [Tasks -> Nat]
    /\ belief \in [Workers -> [Tasks -> 0 .. Lease]]
    /\ dead \subseteq Workers
    /\ runs \in [Tasks -> Nat]

Row(s, n, w, ttl) == [status |-> s, attempts |-> n, claimed_by |-> w, lease |-> ttl]

BoardInit ==
    /\ board = [t \in Tasks |-> Row("pending", 0, NoWorker, NoLease)]
    /\ errors = [t \in Tasks |-> 0]
    /\ belief = [w \in Workers |-> [t \in Tasks |-> 0]]
    /\ dead = {}
    /\ runs = [t \in Tasks |-> 0]

------------------------------------------------------------------------------
(* Reading a board. *)

Completed(b) == {t \in Tasks : b[t].status = "completed"}

DepsCompleted(b, t) == Deps[t] \subseteq Completed(b)

(* The larger of the self-reported count and the logged one. *)
EffectiveSelfReport(b, t) == b[t].attempts

Effective(b, t) == IF b[t].attempts >= errors[t] THEN b[t].attempts ELSE errors[t]

PendingAnyDeps(b) == {t \in Tasks : b[t].status = "pending"}

Pending(b) == {t \in Tasks : b[t].status = "pending" /\ DepsCompleted(b, t)}

Retryable(b) ==
    {t \in Tasks : /\ b[t].status = "failed"
                   /\ Effective(b, t) < MaxAttempts
                   /\ DepsCompleted(b, t)}

Eligible(b) == Pending(b) \cup Retryable(b)

(* pick_next: pending tasks before retries, each in rank order. *)
Candidates(b) == IF Pending(b) # {} THEN Pending(b) ELSE Retryable(b)

IsNext(b, t) == t \in Candidates(b) /\ \A u \in Candidates(b) : Rank[t] <= Rank[u]

(* reap_stale_leases: tasks in progress whose lease has run out.  A task    *)
(* without a lease is left alone.                                           *)
ExpiredAnyLease(b) == {t \in Tasks : b[t].status = "in_progress" /\ b[t].lease >= 0}

ExpiredNever(b) == {}

Expired(b) == {t \in Tasks : b[t].status = "in_progress" /\ b[t].lease = 0}

ReapedNoBump(b) ==
    [t \in Tasks |->
        IF t \in Expired(b) THEN Row("failed", b[t].attempts, NoWorker, NoLease) ELSE b[t]]

Reaped(b) ==
    [t \in Tasks |->
        IF t \in Expired(b) THEN Row("failed", b[t].attempts + 1, NoWorker, NoLease) ELSE b[t]]

Leased(b, t, w, ttl) == [b EXCEPT ![t] = Row("in_progress", b[t].attempts, w, ttl)]

(* What a worker may do to a task in progress. *)
MayRecord(w, t) ==
    /\ w \notin dead
    /\ board[t].status = "in_progress"
    /\ board[t].claimed_by \in {w, NoWorker}

Tell(w, t, ttl) == belief' = [belief EXCEPT ![w][t] = ttl]

Begin(t) == runs' = [runs EXCEPT ![t] = @ + 1]

------------------------------------------------------------------------------
(* harness-claim.py *)

(* Leases are reaped and nothing else is written: no task is eligible, the  *)
(* worker id is missing in concurrent mode, or the hook is killed between   *)
(* its two writes.                                                          *)
ReapOnly(w) ==
    /\ w \notin dead
    /\ Expired(board) # {}
    /\ board' = Reaped(board)
    /\ UNCHANGED <<errors, belief, dead, runs>>

ClaimTask(w, t) ==
    /\ w \notin dead
    /\ ~ (Concurrent /\ w \in Anonymous)
    /\ IsNext(Reaped(board), t)
    /\ board' = Leased(Reaped(board), t, w, Lease)
    /\ Tell(w, t, Lease)
    /\ Begin(t)
    /\ UNCHANGED <<errors, dead>>

(* harness-renew.py: only the owner, or anybody when the task names none.   *)
(* A lease that has run out and was not reaped yet is renewed as well.      *)
Renew(w, t) ==
    /\ w \notin dead /\ w \notin Anonymous
    /\ board[t].status = "in_progress"
    /\ board[t].claimed_by \in {w, NoWorker}
    /\ board' = Leased(board, t, w, Lease)
    /\ Tell(w, t, Lease)
    /\ UNCHANGED <<errors, dead, runs>>

------------------------------------------------------------------------------
(* What the session of a worker does to the board (no code of the hooks).   *)

StartByHand(w, t) ==
    /\ ByHand
    /\ w \notin dead
    /\ t \in Eligible(board)
    /\ board' = [board EXCEPT ![t] = Row("in_progress", board[t].attempts, NoWorker, NoLease)]
    /\ Begin(t)
    /\ UNCHANGED <<errors, belief, dead>>

Complete(w, t) ==
    /\ MayRecord(w, t)
    /\ board' = [board EXCEPT ![t] = Row("completed", board[t].attempts, NoWorker, NoLease)]
    /\ Tell(w, t, 0)
    /\ UNCHANGED <<errors, dead, runs>>

Fail(w, t) ==
    /\ MayRecord(w, t)
    /\ \E bump, line \in {0, 1} :
        /\ bump = 0 => t \in Forgetful
        /\ line = 0 => t \in Unlogged
        /\ board' = [board EXCEPT ![t] = Row("failed", board[t].attempts + bump, NoWorker, NoLease)]
        /\ errors' = [errors EXCEPT ![t] = @ + line]
    /\ Tell(w, t, 0)
    /\ UNCHANGED <<dead, runs>>

(* The log is append-only and the hooks read its end: lines leave the part  *)
(* they read, and all of them do when the log can no longer be read.        *)
LogGrows(t) ==
    /\ t \in Unlogged
    /\ \E n \in 0 .. errors[t] - 1 : errors' = [errors EXCEPT ![t] = n]
    /\ UNCHANGED <<board, belief, dead, runs>>

Die(w) ==
    /\ w \in Mortal \ dead
    /\ dead' = dead \cup {w}
    /\ belief' = [belief EXCEPT ![w] = [t \in Tasks |-> 0]]
    /\ UNCHANGED <<board, errors, runs>>

Elapse(ttl) == IF ttl > 0 THEN ttl - 1 ELSE ttl

Aged(b) ==
    [t \in Tasks |-> Row(b[t].status, b[t].attempts, b[t].claimed_by, Elapse(b[t].lease))]

Tick ==
    /\ \E t \in Tasks : board[t].lease > 0
    /\ board' = Aged(board)
    /\ belief' = [w \in Workers |-> [t \in Tasks |-> Elapse(belief[w][t])]]
    /\ UNCHANGED <<errors, dead, runs>>

BoardNext ==
    \/ \E w \in Workers : ReapOnly(w) \/ Die(w)
    \/ \E w \in Workers, t \in Tasks :
          ClaimTask(w, t) \/ Renew(w, t) \/ StartByHand(w, t) \/ Complete(w, t) \/ Fail(w, t)
    \/ \E t \in Tasks : LogGrows(t)
    \/ Tick

BoardSpec == BoardInit /\ [][BoardNext]_boardVars

(* Sessions that cannot die keep polling for work (the stop hook holds them *)
(* while tasks remain), every session that is alive reports on what it does *)
(* in the end, and time passes.                                             *)
BoardFairness ==
    /\ \A w \in Workers \ Mortal :
          WF_boardVars(ReapOnly(w) \/ \E t \in Tasks : ClaimTask(w, t))
    /\ \A w \in Workers : WF_boardVars(\E t \in Tasks : Complete(w, t) \/ Fail(w, t))
    /\ WF_boardVars(Tick)

FairBoardSpec == BoardSpec /\ BoardFairness

------------------------------------------------------------------------------
(* A worker that was told it holds a lease, and whose lease has not run     *)
(* out, is the owner on the board, and the board's lease lasts at least as  *)
(* long as the worker believes: nobody else reaps, claims or renews it.     *)
LeaseHonoured ==
    \A w \in Workers, t \in Tasks :
        belief[w][t] > 0 =>
            /\ board[t].status = "in_progress"
            /\ board[t].claimed_by = w
            /\ board[t].lease >= belief[w][t]

(* No task is worked on, or done, before everything it depends on is done.  *)
DepsFirst ==
    \A t \in Tasks :
        board[t].status \in {"in_progress", "completed"} => DepsCompleted(board, t)

(* What max_attempts is for: a task is started at most that often, provided *)
(* that its sessions bump attempts at every failure.                        *)
RetriesBounded == \A t \in Tasks \ Forgetful : runs[t] <= MaxAttempts

(* What holds when the sessions forget attempts and the hooks find every    *)
(* ERROR line: reaped leases are counted in attempts only and failures in   *)
(* the log only, so the larger count is at least half of them, and retries  *)
(* end, if later.                                                           *)
RetriesBoundedTwice == \A t \in Tasks \ Unlogged : runs[t] <= 2 * MaxAttempts - 1

(* Both bounds at once: the starts of a task are bounded as long as one of  *)
(* its two counts is kept, attempts on the board or the lines in the part   *)
(* of the log that is read.                                                 *)
StartsBounded == RetriesBounded /\ RetriesBoundedTwice

(* Nothing left for any session: every task is completed, out of attempts,  *)
(* or behind one that is.  A task whose owner died is reaped on the way.    *)
Settled ==
    /\ Eligible(board) = {}
    /\ \A t \in Tasks : board[t].status # "in_progress"

CampaignSettles == <>[]Settled
==============================================================================
