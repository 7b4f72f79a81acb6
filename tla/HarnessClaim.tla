----------------------------- MODULE HarnessClaim -----------------------------
(***************************************************************************)
(* harness-claim.py and harness-renew.py step by step: the board           *)
(* transactions of TaskClaim, taken apart into reads and atomic file       *)
(* replacements, and run between the acquire and the release of            *)
(* HarnessLock.  Each process is one hook run on behalf of a worker.       *)
(***************************************************************************)
EXTENDS HarnessLock, TaskClaim

CONSTANTS
    Owner,        \* the worker each process runs for
    Target,       \* the task a process renews; NoTask for a claim
    NoTask

ASSUME HookAssumption ==
    /\ NoTask \notin Tasks
    /\ Owner \in [Procs -> Workers]
    /\ Target \in [Procs -> Tasks \cup {NoTask}]

VARIABLES
    stage,        \* how far a process is in its transaction
    copy,         \* the tasks it has in memory
    grant,        \* the lease it hands out, counted from its reading of the clock
    slow          \* rigid: leases may tick while a hook is inside its transaction

hookVars == <<stage, copy, grant, slow>>
vars == <<lockVars, boardVars, hookVars>>

Stages == {"load", "reap", "pick", "renew", "finish"}

HookTypeOK ==
    /\ LockTypeOK
    /\ BoardTypeOK
    /\ stage \in [Procs -> Stages]
    /\ copy \in [Procs -> [Tasks -> TaskRecord]]
    /\ grant \in [Procs -> 0 .. Lease]
    /\ slow \in BOOLEAN

Init ==
    /\ LockInit
    /\ BoardInit
    /\ stage = [p \in Procs |-> "load"]
    /\ copy = [p \in Procs |-> board]
    /\ grant = [p \in Procs |-> 0]
    /\ slow \in BOOLEAN

At(p, s) == pc[p] = "held" /\ stage[p] = s

Enter(p, s) == stage' = [stage EXCEPT ![p] = s]

(* atomic_write_json: the file is replaced by what the process has in       *)
(* memory, whatever it holds by now.                                        *)
Write(p, b) == board' = b /\ copy' = [copy EXCEPT ![p] = b]

------------------------------------------------------------------------------
LoadStateUnlocked(p) ==
    /\ stage[p] = "load" /\ pc[p] \in {"mkdir", "write", "held"}
    /\ copy' = [copy EXCEPT ![p] = board]
    /\ Enter(p, IF Target[p] = NoTask THEN "reap" ELSE "renew")
    /\ UNCHANGED <<lockVars, boardVars, grant, slow>>

LoadState(p) ==
    /\ At(p, "load")
    /\ copy' = [copy EXCEPT ![p] = board]
    /\ Enter(p, IF Target[p] = NoTask THEN "reap" ELSE "renew")
    /\ UNCHANGED <<lockVars, boardVars, grant, slow>>

(* harness-claim: read the clock and reap; the file is written only when    *)
(* something was reaped.                                                    *)
ReapLeases(p) ==
    /\ At(p, "reap")
    /\ IF Expired(copy[p]) # {} THEN Write(p, Reaped(copy[p])) ELSE UNCHANGED <<board, copy>>
    /\ grant' = [grant EXCEPT ![p] = Lease]
    /\ Enter(p, "pick")
    /\ UNCHANGED <<lockVars, errors, belief, dead, runs, slow>>

(* harness-claim: lease the next task, or leave with nothing.               *)
PickTask(p) ==
    LET w == Owner[p]
        refused == Concurrent /\ w \in Anonymous
    IN  /\ At(p, "pick")
        /\ IF Eligible(copy[p]) = {} \/ refused
           THEN UNCHANGED <<board, copy, belief, runs>>
           ELSE \E t \in Tasks :
                   /\ IsNext(copy[p], t)
                   /\ Write(p, Leased(copy[p], t, w, grant[p]))
                   /\ Tell(w, t, grant[p])
                   /\ Begin(t)
        /\ Enter(p, "finish")
        /\ UNCHANGED <<lockVars, errors, dead, grant, slow>>

(* harness-renew: extend the lease, or say why not.                         *)
RenewAnybody(p) ==
    LET w == Owner[p]
        t == Target[p]
    IN  /\ At(p, "renew")
        /\ IF copy[p][t].status = "in_progress"
           THEN Write(p, Leased(copy[p], t, w, Lease)) /\ Tell(w, t, Lease)
           ELSE UNCHANGED <<board, copy, belief>>
        /\ Enter(p, "finish")
        /\ UNCHANGED <<lockVars, errors, dead, runs, grant, slow>>

RenewIfOwned(p) ==
    LET w == Owner[p]
        t == Target[p]
        row == copy[p][t]
    IN  /\ At(p, "renew")
        /\ IF /\ w \notin Anonymous
              /\ row.status = "in_progress"
              /\ row.claimed_by \in {w, NoWorker}
           THEN Write(p, Leased(copy[p], t, w, Lease)) /\ Tell(w, t, Lease)
           ELSE UNCHANGED <<board, copy, belief>>
        /\ Enter(p, "finish")
        /\ UNCHANGED <<lockVars, errors, dead, runs, grant, slow>>

Transaction(p) == LoadState(p) \/ ReapLeases(p) \/ PickTask(p) \/ RenewIfOwned(p)

------------------------------------------------------------------------------
(* The lock below, with the release at the end of the transaction.          *)
LockStep(p) ==
    /\ \/ AcquireStep(p)
       \/ stage[p] = "finish" /\ ReleaseUnlink(p)
       \/ ReleaseStep(p)
       \/ Environment(p)
    /\ UNCHANGED <<boardVars, hookVars>>

(* A session records an outcome in a transaction of its own, under the      *)
(* same lock.                                                               *)
SessionStep(w, t) ==
    /\ lockdir = Absent
    /\ Complete(w, t) \/ Fail(w, t)
    /\ UNCHANGED <<lockVars, hookVars>>

(* ERROR lines leave the part of the log that the hooks read.               *)
LogStep(t) == LogGrows(t) /\ UNCHANGED <<lockVars, hookVars>>

TimeStep ==
    /\ slow \/ \A p \in Procs : At(p, "load") \/ At(p, "finish") \/ pc[p] # "held"
    /\ Tick
    /\ copy' = [p \in Procs |-> Aged(copy[p])]
    /\ grant' = [p \in Procs |-> Elapse(grant[p])]
    /\ UNCHANGED <<lockVars, stage, slow>>

Next ==
    \/ \E p \in Procs : Transaction(p) \/ LockStep(p)
    \/ \E w \in Workers, t \in Tasks : SessionStep(w, t)
    \/ \E t \in Tasks : LogStep(t)
    \/ TimeStep

Spec == Init /\ [][Next]_vars

------------------------------------------------------------------------------
(* Up to the first robbery of a lock, hooks that take less than a tick      *)
(* implement the atomic board: every file replacement is one claim, reap,   *)
(* renewal or nothing, as seen by sessions and other hooks.                 *)
AtomicBoard == BoardInit /\ [][slow \/ BoardNext]_boardVars

(* And however slow it is, a transaction never reverts what a session       *)
(* recorded while the hook was running.                                     *)
OutcomesStand ==
    [][\A t \in Tasks : board[t].status = "completed" => board'[t].status = "completed"]_vars

NotRobbed == robbed = {}
==============================================================================
