----------------------------- MODULE HarnessLock -----------------------------
(***************************************************************************)
(* The directory lock of the harness hooks (acquire_lock and release_lock  *)
(* of skills/harness/hooks/_harness_common.py), at the granularity of the  *)
(* file-system calls another process can observe.  A process is one run of *)
(* harness-claim.py or harness-renew.py: it takes the lock once, holds it  *)
(* for one transaction, releases it and exits.                             *)
(***************************************************************************)
EXTENDS FiniteSets

CONSTANTS
    Procs,        \* pids of the hook processes, one invocation each
    Absent,       \* value of lockdir: there is no directory .harness.lock
    NoPid,        \* value of lockdir: a directory without a readable pid file
    Nobody,       \* value of maker and seen: no process
    MayCrash,     \* processes that may be killed at any point of their life
    MayStall,     \* those that may sit for a second between two system calls
    MayTimeOut    \* those whose deadline in acquire_lock may pass

ASSUME LockAssumption ==
    /\ Absent \notin Procs /\ NoPid \notin Procs /\ Nobody \notin Procs
    /\ Absent # NoPid
    /\ MayCrash \subseteq Procs /\ MayStall \subseteq Procs /\ MayTimeOut \subseteq Procs

VARIABLES
    lockdir,      \* Absent, NoPid, or the pid its pid file holds
    pc,           \* where each process is
    seen,         \* the pid the process read from the pid file
    missing,      \* missing_pid_since: "off", "on", or "over" one second ago
    watched,      \* processes that had the pid file open when missing was set
    overdue,      \* processes whose deadline has passed
    maker,        \* history: the process that made the present directory
    robbed        \* history: processes whose directory was taken from them

lockVars == <<lockdir, pc, seen, missing, watched, overdue, maker, robbed>>

Locations == {"idle", "mkdir", "write", "read", "check", "rename", "held",
              "rmdir", "done", "exited", "failed", "crashed"}

LockTypeOK ==
    /\ lockdir \in Procs \cup {Absent, NoPid}
    /\ pc \in [Procs -> Locations]
    /\ seen \in [Procs -> Procs \cup {Nobody}]
    /\ missing \in [Procs -> {"off", "on", "over"}]
    /\ watched \in [Procs -> SUBSET Procs]
    /\ overdue \subseteq Procs
    /\ maker \in Procs \cup {Nobody}
    /\ robbed \subseteq Procs

LockInit ==
    /\ lockdir = Absent
    /\ pc = [p \in Procs |-> "idle"]
    /\ seen = [p \in Procs |-> Nobody]
    /\ missing = [p \in Procs |-> "off"]
    /\ watched = [p \in Procs |-> {}]
    /\ overdue = {}
    /\ maker = Nobody
    /\ robbed = {}

------------------------------------------------------------------------------
(* os.kill(pid, 0) succeeds: the process has started and has not ended. *)
Alive(p) == pc[p] \notin {"idle", "exited", "failed", "crashed"}

(* A process that made the directory and has not begun to release it. *)
Owning(p) == pc[p] \in {"write", "held"}

(* The directory exists and its pid file does not: mkdir done but the pid   *)
(* not yet written, or the pid unlinked but the directory not yet removed.  *)
InWindow(p) == pc[p] \in {"write", "rmdir"}

Goto(p, loc) == pc' = [pc EXCEPT ![p] = loc]

(* The directory at the lock path is gone; a process that still owned it is *)
(* robbed of it, unless it is the one that removes it.                      *)
TakeAway(p) ==
    /\ lockdir' = Absent
    /\ maker' = Nobody
    /\ robbed' = robbed \cup {q \in Procs \ {p} : q = maker /\ Owning(q)}

------------------------------------------------------------------------------
(* acquire_lock *)

Start(p) ==
    /\ pc[p] = "idle"
    /\ Goto(p, "mkdir")
    /\ UNCHANGED <<lockdir, seen, missing, watched, overdue, maker, robbed>>

(* lockdir.mkdir(): the directory is made, or FileExistsError is raised. *)
MkdirExistOk(p) ==
    /\ pc[p] = "mkdir"
    /\ lockdir' = NoPid /\ maker' = p
    /\ Goto(p, "write")
    /\ UNCHANGED <<seen, missing, watched, overdue, robbed>>

Mkdir(p) ==
    /\ pc[p] = "mkdir"
    /\ IF lockdir = Absent
       THEN lockdir' = NoPid /\ maker' = p /\ Goto(p, "write")
       ELSE Goto(p, "read") /\ UNCHANGED <<lockdir, maker>>
    /\ UNCHANGED <<seen, missing, watched, overdue, robbed>>

(* (lockdir / "pid").write_text(): by path, so it lands in whatever         *)
(* directory is there now and raises FileNotFoundError when there is none.  *)
WritePid(p) ==
    /\ pc[p] = "write"
    /\ IF lockdir = Absent
       THEN Goto(p, "failed") /\ UNCHANGED lockdir
       ELSE Goto(p, "held") /\ lockdir' = p
    /\ missing' = [missing EXCEPT ![p] = "off"]
    /\ watched' = [watched EXCEPT ![p] = {}]
    /\ UNCHANGED <<seen, overdue, maker, robbed>>

(* The sleep at the end of a failed round, or TimeoutError after the        *)
(* deadline.                                                                *)
RetryOrTimeOut(p) == Goto(p, IF p \in overdue THEN "failed" ELSE "mkdir")

(* _read_pid() found no pid: wait until it has been missing for a second,   *)
(* then treat the lock as stale.                                            *)
ReadNoPid(p) ==
    /\ pc[p] = "read"
    /\ lockdir \notin Procs
    /\ IF missing[p] = "off"
       THEN /\ missing' = [missing EXCEPT ![p] = "on"]
            /\ watched' = [watched EXCEPT ![p] = {q \in Procs : InWindow(q)}]
       ELSE UNCHANGED <<missing, watched>>
    /\ IF missing[p] = "over" THEN Goto(p, "rename") ELSE RetryOrTimeOut(p)
    /\ UNCHANGED <<lockdir, seen, overdue, maker, robbed>>

(* _read_pid() returned a pid. *)
ReadPid(p) ==
    /\ pc[p] = "read"
    /\ lockdir \in Procs
    /\ seen' = [seen EXCEPT ![p] = lockdir]
    /\ missing' = [missing EXCEPT ![p] = "off"]
    /\ watched' = [watched EXCEPT ![p] = {}]
    /\ Goto(p, "check")
    /\ UNCHANGED <<lockdir, overdue, maker, robbed>>

(* _pid_alive() of the pid read before: wait for a live holder, steal the   *)
(* lock of a dead one.                                                      *)
CheckPidNeverStale(p) ==
    /\ pc[p] = "check"
    /\ RetryOrTimeOut(p)
    /\ UNCHANGED <<lockdir, seen, missing, watched, overdue, maker, robbed>>

CheckPid(p) ==
    /\ pc[p] = "check"
    /\ IF Alive(seen[p]) THEN RetryOrTimeOut(p) ELSE Goto(p, "rename")
    /\ seen' = [seen EXCEPT ![p] = Nobody]
    /\ UNCHANGED <<lockdir, missing, watched, overdue, maker, robbed>>

(* lockdir.rename(stale) and rmtree(stale): by path as well, and blind to   *)
(* whose directory is there by now.  The stale name is private to p, so     *)
(* removing it is invisible to the others.                                  *)
RenameMissesTarget(p) ==
    /\ pc[p] = "rename"
    /\ Goto(p, "mkdir")
    /\ UNCHANGED <<lockdir, seen, missing, watched, overdue, maker, robbed>>

Rename(p) ==
    /\ pc[p] = "rename"
    /\ IF lockdir # Absent
       THEN /\ TakeAway(p)
            /\ missing' = [missing EXCEPT ![p] = "off"]
            /\ watched' = [watched EXCEPT ![p] = {}]
            /\ Goto(p, "mkdir")
       ELSE /\ RetryOrTimeOut(p)
            /\ UNCHANGED <<lockdir, maker, robbed, missing, watched>>
    /\ UNCHANGED <<seen, overdue>>

------------------------------------------------------------------------------
(* release_lock: rmtree(lockdir, ignore_errors=True) unlinks the pid file   *)
(* and removes the directory if that leaves it empty.  It asks neither      *)
(* whose directory it is nor whose pid the file holds.                      *)

ReleaseUnlink(p) ==
    /\ pc[p] = "held"
    /\ IF lockdir = Absent
       THEN Goto(p, "done") /\ UNCHANGED lockdir
       ELSE Goto(p, "rmdir") /\ lockdir' = NoPid
    /\ UNCHANGED <<seen, missing, watched, overdue, maker, robbed>>

ReleaseRmdirSkipped(p) ==
    /\ pc[p] = "rmdir"
    /\ Goto(p, "done")
    /\ UNCHANGED <<lockdir, maker, robbed, seen, missing, watched, overdue>>

ReleaseRmdir(p) ==
    /\ pc[p] = "rmdir"
    /\ Goto(p, "done")
    /\ IF lockdir = NoPid
       THEN TakeAway(p)
       ELSE UNCHANGED <<lockdir, maker, robbed>>
    /\ UNCHANGED <<seen, missing, watched, overdue>>

(* The process ends in the ordinary way; from now on its pid is dead. *)
Exit(p) ==
    /\ pc[p] = "done"
    /\ Goto(p, "exited")
    /\ UNCHANGED <<lockdir, seen, missing, watched, overdue, maker, robbed>>

------------------------------------------------------------------------------
(* The environment: a kill, and the passing of time. *)

Crash(p) ==
    /\ p \in MayCrash
    /\ Alive(p)
    /\ Goto(p, "crashed")
    /\ UNCHANGED <<lockdir, seen, missing, watched, overdue, maker, robbed>>

Deadline(p) ==
    /\ p \in MayTimeOut
    /\ pc[p] \in {"mkdir", "read", "check", "rename"}
    /\ p \notin overdue
    /\ overdue' = overdue \cup {p}
    /\ UNCHANGED <<lockdir, pc, seen, missing, watched, maker, robbed>>

(* A second has passed since missing_pid_since was set.  Those that were    *)
(* between two system calls then have moved on, unless they may stall.      *)
SecondPasses(p) ==
    /\ Alive(p)
    /\ missing[p] = "on"
    /\ \A q \in watched[p] \ MayStall : ~InWindow(q)
    /\ missing' = [missing EXCEPT ![p] = "over"]
    /\ UNCHANGED <<lockdir, pc, seen, watched, overdue, maker, robbed>>

AcquireStep(p) ==
    Mkdir(p) \/ WritePid(p) \/ ReadNoPid(p) \/ ReadPid(p) \/ CheckPid(p) \/ Rename(p)

ReleaseStep(p) == ReleaseRmdir(p) \/ Exit(p)

Environment(p) == Start(p) \/ Crash(p) \/ Deadline(p) \/ SecondPasses(p)

Finished == \A p \in Procs : ~Alive(p) /\ pc[p] # "idle"

LockNext ==
    \E p \in Procs :
        AcquireStep(p) \/ ReleaseUnlink(p) \/ ReleaseStep(p) \/ Environment(p)

(* The operating system schedules every live process, and a clock goes on;  *)
(* nobody owes a start or a crash.                                          *)
LockFairness ==
    \A p \in Procs :
        /\ WF_lockVars(AcquireStep(p) \/ ReleaseUnlink(p) \/ ReleaseStep(p))
        /\ WF_lockVars(Deadline(p))
        /\ WF_lockVars(SecondPasses(p))

LockSpec == LockInit /\ [][LockNext]_lockVars
FairLockSpec == LockSpec /\ LockFairness

------------------------------------------------------------------------------
(* The state file relies on there never being two processes between         *)
(* acquire_lock and release_lock.  The code does not quite achieve that:    *)
(* of two simultaneous holders one has had its directory taken away (by a   *)
(* steal of, or a release into, a lock that was no longer the one looked    *)
(* at).  mkdir alone never admits a second one.                             *)
ExclusiveUnlessRobbed ==
    \A p, q \in Procs :
        /\ pc[p] = "held" /\ pc[q] = "held" /\ p # q
        => {p, q} \cap robbed # {}

(* What a waiter may conclude from the directory.  The pid it reads is that *)
(* of a process that holds the lock or was killed, never of one that has    *)
(* begun to release it; a directory without a pid is one that somebody is   *)
(* about to sign or to remove, or was killed over.  So interleaved releases *)
(* and steals leave no orphan, and a dead pid always means a killed holder. *)
NoOrphanLock ==
    /\ lockdir \in Procs => pc[lockdir] \in {"held", "crashed"}
    /\ lockdir = NoPid => \E p \in Procs : InWindow(p) \/ pc[p] = "crashed"

(* Every acquisition comes to an end: a hook never hangs the session, even  *)
(* when holders die, release late or are robbed.                            *)
EveryHookEnds ==
    \A p \in Procs : pc[p] = "mkdir" ~> ~Alive(p)

(* A hook that waits longer than the others take gets in (or loses the race *)
(* between mkdir and the pid file, or is killed): a stale lock never wedges *)
(* the state root.                                                          *)
StaleLockIsReclaimed ==
    \A p \in Procs \ MayTimeOut : pc[p] = "mkdir" ~> pc[p] \in {"held", "failed", "crashed"}
==============================================================================
