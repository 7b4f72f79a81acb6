# oh-my-orchestrator in TLA+

Models, model checks and proofs of the core of oh-my-orchestrator: the harness
hooks that let several Claude Code sessions work on one board of tasks, the hq
store they write posts to, the tool that converts a retired wiki into that store,
and codeagent-wrapper, the Go program that runs vendor CLIs (codex, claude, agy)
one by one or as a graph of tasks.
Every definition is a translation of code under `src/`; the lines are in
`PROJECT.json`, under `map`.

Contents: [the system](#1-the-system), [the modules](#2-the-modules-and-the-code),
[the runs](#3-the-runs), [fairness](#4-fairness), [the proofs](#5-the-proofs),
[where code and documents disagree](#6-where-the-code-and-its-documents-disagree),
[what is left out](#7-what-is-not-modelled), [the plan](#8-the-plan).

## 1. The system

### 1.1 The harness (`src/skills/harness/hooks`, Python)

Claude Code runs each hook as a short-lived process when a session starts,
stops, spawns a subagent, compacts or goes idle. The hooks of all sessions that
work on one *state root* share its files and nothing else.

| component | state it keeps | operations | hard behaviour |
|:---|:---|:---|:---|
| harness lock (`_harness_common.py` acquire_lock, release_lock) | the directory `.harness.lock` and the pid file in it | mkdir, write pid, read pid, judge stale, rename away, unlink, rmdir | every step is a separate system call; holders die, waiters judge by pid, a window without a pid file, a deadline |
| task board (`_harness_common.py`, `harness-claim.py`, `harness-renew.py`) | `board.json` or `harness-tasks.json`, `harness-progress.txt` | reap expired leases, pick, lease, renew; sessions complete, fail, start by hand | leases against a clock, dead workers, two failure counters of which neither is complete (of the log only the end is read), a read-modify-write of a whole file |
| stop hook (`harness-stop.py`) | `.harness-stop-counter`, `.harness-active`, `.harness-reflect` | decide, count blocks, reset, open the valve, leave the marker | no lock: sessions share the counter; two Stop hooks run side by side |
| self-reflect stop hook (`self-reflect-stop.py`) | the marker, a pass count per session | block for one more pass, or let go | reads the marker while the other hook writes it |
| subagent stop, teammate idle | none of their own | hold a subagent or a teammate while it has work or owes a report | the order of the early returns; the gate is read before the board; a subagent that was held is let go the next time |
| session start, subagent start, pre-compact | `observations.jsonl` | print context, note a role the roster does not know | they cannot block, and may be silent |
| state root, gate, anchors (`_harness_common.py`, `hq/anchor.py`, `hq/paths.py`) | `.hq/.anchor`, three files that mark a root, `.harness-active` | find the root, judge the gate, name the state file, say whether it is active | three places for one campaign, each of which may be missing, broken or out of date |
| census, release gate | none | report | none |

What makes it correct: the lock admits one process; a task is worked on by one
worker at a time, after its dependencies, a bounded number of times as long as one
of its failure counts is kept, and comes back when its worker dies; a session is
held while there is work, and never for ever; a subagent or a teammate is let go
when it owes nothing, and a hook that says nothing has a reason to.

### 1.2 The hq store (`src/skills/harness/hq`, Python)

Each anchor has a community directory: `posts/<category>/<NNN>-<slug>.md`, an
`INDEX.md` derived from the posts, and `.hq-lock`. The verbs post, comment, edit
and index take an `flock` on `.hq-lock`; query, rank and lint take none. Hard:
a kill between the post and the index, numbers drawn from file names, chains of
`supersedes`, and anchors without git, where posts may not be rewritten. A post
is text that people write too: comment and edit read it, change one thing, and
write it back, and later readers count as reviews the comments that look like
one. What makes it correct: verbs are indivisible, a number is given once, the
index agrees with the posts, a subject has a canonical post; an edit changes what
it names and nothing else, and a review that counts was made as one.

`convert-wiki-form.py` moves the pages of a retired wiki into the store, in two
phases: `plan` writes a file with what can be derived, a reader fills in the
rest, `apply` mints the posts, writes `*.idmap.json` from old page names to new
ids, and with `--commit` removes the pages. Hard: a run that dies anywhere and is
rerun, a plan that is made anew, pages git does not know or finds changed, several
stores whose pages end up in one wiki. What makes it correct: no page goes without
its post, no page gets two, a citation of a page by its path finds the post when the
page is gone, and the wiki ends up empty. (Links also hold bare file names, which
several pages may share; of these nothing is claimed.)

### 1.3 codeagent-wrapper (`src/codeagent-wrapper`, Go)

| component | state it keeps | operations | hard behaviour |
|:---|:---|:---|:---|
| task set parsing, planning (`runtaskset`, `parallel_input.go`) | none | parse blocks, resolve agents | text |
| topological sort (`domain/task/topology.go`) | in-degrees, queue, layers | count, take a layer, report | repeated, dangling and cyclic dependencies |
| parallel executor (`executor.go` ExecuteConcurrentWithContext) | goroutines, a semaphore, a result channel, the map of failures | skip, cancel, spawn, acquire, run, send, release, collect | panics, cancellation ready together with a slot, a collector that counts on its senders |
| single vendor call (`executor.go` RunCodexTaskWithContext) | process, pipes, five goroutines, a force-kill timer, a ledger row | start, wait, terminate, kill, parse, drain, report | everything at once; os/exec acts on its own account |
| stream parser, line filters, report | buffers | parse three dialects | overlong lines |
| async logger (`logger.go`) | a channel, a worker, a pending count | log, flush, close, clean up | senders beside a close |
| ledger (`ledger.go`) | `calls.jsonl` | append | bounded lines, several writers |
| configuration, agents, backends, CLI, prompts, worktree, tmpdir | files and flags | resolve, build argv | precedence |

The executor hands each task to the single call in a goroutine of its own; the call
returns a result that the executor collects, and RunPlan writes the results to a file,
if asked to, and turns them into the exit code. The sort decides the layers. What makes
it correct: a call begins after what it needs has succeeded and never beyond the worker
limit; every task is reported once; a call always returns once its vendor has ended or
it was cancelled, leaves nothing behind, and says what happened.

## 2. The modules and the code

| module | models | composed with |
|:---|:---|:---|
| `HarnessLock` | the lock, one action per file-system call another process can see | |
| `TaskClaim` | the board; one action per transaction: the *abstract specification* of the hooks | |
| `HarnessClaim` | harness-claim.py and harness-renew.py, read by read and write by write | `HarnessLock` below, `TaskClaim` as what it implements |
| `HarnessStop` | both Stop hooks of every session | extends `TaskClaim`, whose workers are its sessions |
| `TaskGraph` | what a parallel run promises: *abstract specification* | |
| `ParallelExecutor` | scheduler, goroutines, slots, channel, RunPlan | implements `TaskGraph` |
| `TopoSort` | the sort, from the list of dependencies to layers or an error | its layers are the `Level` of `ParallelExecutor` |
| `VendorCall` | one vendor call with its goroutines, os/exec and the vendor | the steps "running" and "returning" of `ParallelExecutor`, taken apart |
| `AsyncLogger` | logger.go: senders, worker, Flush and Close | runs beside a vendor call; they share no state |
| `StoreGate` | what the hooks make of the files of a root: pure operators | |
| `SubagentHooks` | SessionStart, SubagentStart, SubagentStop, TeammateIdle | extends `TaskClaim` and `StoreGate` |
| `PostShelf` | what the hq store promises: *abstract specification* | |
| `HqStore` | the write verbs as processes under the flock | implements `PostShelf` |
| `PostText` | a post as text: post.py, and what comment and edit do to it | the bodies and comments of `HqStore`, taken apart |
| `WikiConvert` | convert-wiki-form.py with the people, git and crashes around it | its posts are those of `HqStore`, of which it is one client |
| `MC...` | constants for the model checker; `MCWrapper` puts `VendorCall` and `AsyncLogger` side by side, `MCParallelExecutor` the executor and the sort, `MCHqStore` the store and the text of a post | |
| `TaskClaimProofs` | theorems about the board | used by the three proof modules below |
| `HarnessClaimProofs` | theorems about `HarnessLock` and `HarnessClaim` | |
| `HarnessStopProofs`, `SubagentHooksProofs` | theorems about the Stop hooks and the other hooks | |
| `ParallelExecutorProofs` | theorems about `ParallelExecutor` and `TopoSort` | |
| `WikiConvertProofs` | theorems about `WikiConvert` | |
| `HqStoreProofs` | theorems about `HqStore` and `PostText` | |
| `WrapperProofs` | theorems about `VendorCall` and `AsyncLogger` | |

Definitions that are a plausible mistake in the code (`MkdirExistOk`,
`StopTimerAtOnce`, ...) stand right before the definition they distort. They are
used by nothing in the modules; each is listed in `PROJECT.json` under `mutants`
with the property that notices it.

**HarnessLock.** `lockdir` is what is at the lock path: nothing, a directory
without a readable pid, or a pid. `pc` says before which system call a process
is. `missing` is `missing_pid_since` with its one second: "over" only when those
that were seen between two calls have moved on, unless they may stall. `maker`
and `robbed` are history. `MayCrash`, `MayStall` and `MayTimeOut` say to whom
the environment may do what.

**TaskClaim.** `board` has the four fields of a task that the hooks read.
Leases are counted in ticks that remain rather than in clock values, so `Tick`
ages all of them at once. `errors` are the ERROR lines that `logged_failures`
counts, which are those in the last 200_000 bytes of the log, or none where it
cannot be read; `belief` is the lease a worker was *told* it has, `runs` is history.
What sessions do to the board (complete, fail, start by hand) is no code of the
hooks and is marked external. `Forgetful` tasks are those whose failures may be
recorded without a bump of `attempts`, `Unlogged` tasks those whose failures may be
recorded without an ERROR line, or whose lines leave the part that is read
(`LogGrows`).

**HarnessClaim.** `stage` and `copy` are where a process is and what it has in
memory; a write replaces the file with the copy, whatever is on disk by then.
`grant` is the lease counted from the clock reading before the reap. `slow` is
chosen once: leases may tick inside a transaction, or not.

**HarnessStop.** Each session has a `hook` (what harness-stop.py does next) and
a `mirror` (self-reflect-stop.py); Claude Code goes on when one of them blocks.
`onBoard` is chosen once: a root with `board.json`, or a legacy root, whose
`.harness-active` the hook itself removes. `row` is history: blocks in a row.
The evidence the integrity gate looks for is the constant `Unbacked`, and
whether the cost was recorded the constant `CostKnown`. Here and in `SubagentHooks`
`Unlogged` is empty, a bound: the log fits in what is read of it. (harness-stop.py
also counts the tasks of a session in that part, for `max_tasks_per_session`.)

**ParallelExecutor.** `step` is where a task or its goroutine is; acquiring a
slot, looking at the context, the call, the send, the release and the end are
separate actions. The call settles on a code; when it was interrupted or cancelled
on 130, or on one of `EarlyCodes`, with which it returns before the vendor runs; or
panics. `output` is the file of `--output`: RunPlan says how it ended when it is
written or could not be. `interrupted` and `killed`: every call listens for SIGINT
on its own, and without any listener the process dies.

**VendorCall.** Main goroutine (`pc`), `waiter`, `parser`, `drainer`, `timer`,
and outside of them the vendor (`vendor`, `status`, `said`), a descendant that
keeps its pipes (`heir`), and the context. os/exec is external but not left out:
`KillOnDone` is CommandContext's kill, `ClosePipes` is what Wait does to the read
ends. Messages are numbered; `heard` is how far the parser has got. The stdin
writer is left out: nobody waits for it, and Wait closes its pipe.

**HqStore.** A client waits for the flock, reads, writes the post, scans, and
replaces the index, each a step; a kill may come between any two. The client
that wrote it stands for what a body or a summary says. `Limit` is 999 in the
code, the largest number of three digits.

**StoreGate.** A store is a record of what is at the anchor, above it, in the
three files and at the marker; `Corrupt` is gate_state as far as the hooks listen
to it, `Active` and `Loads` what they ask afterwards. Contents are by what they
parse to, and "shapeless" is JSON that is no object.

**SubagentHooks.** A hook reads the gate in one step (`StopGate`, `IdleGate`) and
the board in the next (`StopDecide`, `IdleDecide`); the store may change in
between and at any other time: the campaign's file is edited, broken or removed,
an anchor comes, breaks or goes, the campaign is moved below it (`ChangeStore`).
`home` is the file the tasks are really in, so that a hook may read another one,
which was left behind and holds anything: such a hook may hold a session or let it
go. `memory` has each memory file with the root it was written below, since
agent_memory_md looks where the anchor says. `why` says on which ground a
session was let go, `unexplained` is history: silences for which none of the
reasons in `Explained` held. Claims are the transaction of `TaskClaim`, and
harness-claim.py asks no gate, so neither does `Claim`.

**AsyncLogger.** `queue` is the channel, `pending` the wait group, `request` the
channel of one on which Flush asks for a flush; `early` and `promised` are
history. The worker's select is free to take any case that is ready. bufio's own
writes when it is full are left out: they put entries into the file earlier.

**PostText.** `raw` is the front matter as lists of segments, `tail` the lines behind
it by kind. A segment has a `key`, which is what the parser finds before ": ", and a
`label`, which is what set_field_in_raw finds before the first ":"; the two agree in
a field and differ in a part of a value that only looks like one (`Lookalike`).
`Field` is what the parser reads, `SetField` what the writer does, each with its own
way to find the place; `Rewritten` is what serialize_post makes of a post that was
read. An edit keeps the body (`EditKept`) or puts a new one there (`EditBody`), which
may begin with bullets and may hold a marker, since nothing looks at it.

**WikiConvert.** `wiki` has each page with what git thinks of it; `pc` is where
apply is between its calls, and a crash comes between any two. `Judge` is the
reader who fills in an entry of the plan, or changes it, at any time between two
runs; `NoSubject` stands for all that is still missing in an entry. `Plan` may be
run again at any time too: there is one plan file, which it writes over with every
page of the wiki, whatever has a post by then. `NoReuse` says that readers give no
page the subject of another page's post, `NoRenaming` that they give a page that has
a post that post's subject, `HasGit` that the anchor is in a git repository; where
`git rm` is called outside one, or with nothing to remove, it fails (`GitFails`).
`Mangled` pages are those whose body does not come back as it was.

**TopoSort.** `SortInit` has every assignment of dependency lists, with
repetitions and names of strangers. `Named(t, among)` is how often the list of
`t` names one of a set: over all tasks it is the count the code starts from, over
a layer what the inner loop takes off it.

## 3. The runs

| run | question | instance |
|:---|:---|:---|
| `LockHazards` | safety and liveness of the lock under crashes, stalls, deadlines | 3 processes; all may crash, two stall, one has a deadline |
| `Board` | the board | 3 tasks, one dependency against the ranking, one without a bump of attempts, one without a log; 2 workers, one mortal, one anonymous; MaxAttempts 2, leases of 2 ticks |
| `HookSteps` | do the hooks implement the board under the real lock? | 2 claims and a renewal, all of which may crash; 2 tasks in a chain |
| `HookRace` | and with a robbed lock? *violated* | 3 claims, no crash |
| `StopAlone` | one session, every gate | MaxBlocks 3, MaxReflect 2, session limits, a corruptible file, 2 wake-ups |
| `StopTogether` | two sessions, who leaves last and does everybody get away? | 1 task, MaxBlocks 1, concurrent mode, one anonymous |
| `Hooks` | the other hooks on a store that changes | 2 sessions of either kind, one of them on the roster, 1 task and 1 attempt, 3 stores to start from (anchored, half moved, legacy), 1 change; two subagents together from the half moved one only |
| `RunGraph` | the executor; the sort | 4 tasks in 2 layers, 2 workers, a cancelling parent, a file that may not be written; 3 tasks, 1 stranger, lists of up to 3 names |
| `Wrapper` | one call; the logger | 2 messages, exit codes 0 and 2; 2 senders, 2 flushers, 2 closers, a channel of 1 |
| `VendorOutput` | is the last message always kept? *violated* | the same call |
| `HqVerbs` | the store; edits of every post in the usual form | 3 clients, 2 categories, Limit 2; posts of 1 or 2 bullets, 2 new bodies, 2 verbs |
| `Conversion` | the conversion | 5 pages, 1 of another store, 2 crashes |

Why these bounds are enough to see what matters: three processes are a holder, a thief
and one who comes in between, and the race of `HookRace` needs exactly them. A lease of
two ticks can be half over; two attempts can be split between the two failure counters.
MaxBlocks 3 lets the valve count past one reset, and the reflection ceiling is above
one. Four tasks on two workers leave one goroutine waiting for a slot while another
layer is still to come. Two messages are an intermediate and a final one. Three clients
on a store whose glob sees two numbers reach the number that is never seen again. One
change of a store moves a campaign below its anchor, or breaks it between a gate and a
board; one attempt lets a task that failed be ruled out by one count and not by the
other. (The run holds as well with one of the two sessions anonymous.) A bullet of three
segments has room for a key, one behind a summary and one that repeats; two verbs let
the second read what the first wrote. Two senders fill a channel of one; a Flush that
gave up can leave its request to a second Flush. Of the five pages one is dropped, two
share a bare name and may be given one subject, one belongs to the second store, and one
cannot be filed; two crashes let a rerun be cut short as well.

Bounds that are not in the code: `MaxPrompts` (how often users wake a session),
`RowCap` (the history `row` counts no further than one past what would be a
failure of the valve), `MaxMessages`, `MaxLogs`, `Repeats`, `MaxChanges`,
`MaxCalls`, `MaxCrashes`; `Limit` is 999 in the code and `Capacity` 1000. In
`HookSteps` the constraint `NotRobbed` ends a behaviour at the first robbery of a
lock: what comes after is what `HookRace` shows. `HqVerbs` uses the symmetry of
the clients; its properties are safety properties and name no client.
Deadlock is not checked: hooks, verbs, calls and runs end.

`Wrapper`, `RunGraph` and `HqVerbs` each hold two parts that share no state; while
one is at work the other stays where it is, so that no part is ever seen through the
interleavings of another. In `RunGraph` a list of dependencies has its names in
ascending order (the sort only counts them; the proof has them in any), and in
`HqVerbs` posts vary in the front matter or in the tail, not in both, since no
operator looks at both. In `Hooks` a teammate is with any other session on each of
the stores; two subagents, which meet only in the roster and on the board, have by far
the most states and share only the store that is being moved.

What the properties say:

* `ExclusiveUnlessRobbed`: of two simultaneous holders one had its directory
  taken. `NoOrphanLock`: the pid in the directory is that of a holder or of a
  process that was killed, never of one that is releasing, and a directory without
  one is about to be signed or removed, or its process was killed.
  `EveryHookEnds`, `StaleLockIsReclaimed`: nobody waits for ever, and a dead
  holder is got past.
* `LeaseHonoured`: what a worker believes about its lease is true and lasts.
  `DepsFirst`, `StartsBounded` (by max_attempts with honest sessions, by less than
  twice that where the hooks find every ERROR line), `CampaignSettles` (a dead
  owner's task comes back on the way).
* `AtomicBoard`: `HarnessClaim` implements `TaskClaim`. `OutcomesStand`: no
  transaction reverts a completed task.
* `RowBounded`: MAX_CONSECUTIVE_BLOCKS + 1 at most (the integrity gate and the
  corrupt-file gate block once without counting). `GoneMeansFinished`,
  `LastOutFinished`: switched off or let go means nothing is left.
  `EveryStopEnds`.
* `NobodyLeavesWork`: who was let go as clear owns nothing, has reported and left
  its memory where the root kept it then. `SilenceIsExplained`: a hook that says
  nothing stands before a closed, moved, removed or shapeless campaign, a root that
  points it to another file, an inactive legacy root, or a store that changed under
  it. `LastAwakeSettles`: when all teammates rest nothing is left.
  `EverySessionLeaves`.
* `RunsTheGraph`: the executor implements `TaskGraph`. `SlotsHeld`,
  `EachReportedOnce`, `Terminates`. `ExitTells`: 0 means that every task succeeded
  and that the results that were to be written are.
* `CleanReturn`: no process, goroutine, pipe, pending kill or directory is left
  by a call that has returned. `SignalledMeans130`: a vendor the wrapper
  signalled is never reported as failed or done. `OkIsEarned`: the ledger's `ok`.
  `EveryCallReturns`: also with a descendant on the pipes.
* `ClosedMeansWritten`: what was sent before Close is in the file after it.
  `FlushedMeansWritten`: so is what was registered before a Flush that came to its
  end. `LogCallsReturn`: nobody hangs in the logger.
* `SortAnswers`: a tight layering of every list that has one, else the right
  error.
* `AtomicVerbs`: the verbs implement `PostShelf`; so numbers are given once, a
  post supersedes one that is there and every subject has a head. `IndexCurrent`
  (unless a verb was killed between the two files).
* `EditsKeepTheRest`, `ReviewsAreEarned`: an edit is read back as itself, with
  every other field, every line or, with a new body, every comment as before; and
  exactly the reviews asked for are counted.
* `NoPageLost`, `OnePostEach`, `StampedByOrigin`, `CitationsResolve`,
  `ConversionEnds`: as their comments in `WikiConvert` say.

Type invariants (`LockTypeOK`, `StopTypeOK`, ...) stand in the modules that keep
state and are theorems (`LockTypeCorrect`, `StopTypeCorrect`, ...), not run
properties; `HookTypeOK`, of what a hook remembers, is part of the invariant that
`HooksAreAtomic` rests on.

## 4. Fairness

* `LockFairness`: live processes run, the deadline and the second pass. Nobody
  owes a start or a crash. This is what an operating system gives.
* `BoardFairness`: sessions that cannot die keep asking for work, because the
  stop hook sends them back while tasks remain; live sessions report in the end;
  time passes. Mortal sessions owe nothing but a report while they live.
* `HarnessStop!Fairness`: hooks run, Claude Code acts on their answers, and a
  session with nothing else to do tries to stop again. No work is owed, so
  `EveryStopEnds` does not lean on progress of the campaign.
* `SubagentHooks!Fairness`: hooks run, sessions that started try to leave, and time
  passes. A session that is sent back to work gets to claim and to record in the
  end; this is strong fairness, as it tries to leave in between over and over and
  is not able to claim while a hook looks at it. The work of a file that was left
  behind, which the same hooks hand out, ends too, so that a teammate is not held over
  it for ever. Reports and memories are not owed: a subagent is held once, whatever
  it does.
* `LoggerFairness`: goroutines run. Time-outs are counted on only after a close:
  `LogCallsReturn` says that without one they are not needed.
* `WikiConvert!Fairness`: a run that was started goes on; people fill in plans,
  commit what git finds changed, and rerun with `--commit`, over and over if need
  be (strong fairness, as a crash or a refusal may come in between). In the end they
  only do what is needed (`NeededChores`): they do not plan anew what is planned and
  not converted, and leave entries alone that are filled and do not collide. Until
  then they may do either at any time. Nobody owes a second store. apply itself says
  "rerun with --commit".
* `ParallelExecutor!Fairness`: goroutines are scheduled and calls return, which
  is what `VendorCall` shows of a call that is cancelled or whose vendor ends. A
  vendor that hangs uncancelled hangs the run, by design (the comment at
  executor.go:957).
* `VendorCall!Fairness`: goroutines run, a timer that has gone off acts, SIGKILL
  kills. A vendor need not end and nobody need interrupt it; the timer need not
  go off either, since os/exec kills first.

## 5. The proofs

TLAPS proves, for all values of the constants that satisfy the modules'
assumptions:

* `HarnessClaimProofs`, the lock: `LockTypeCorrect`; `OwnersMadeIt` and, from it,
  `OnlyRobberyBreaksExclusion`. The inductive invariant says that a process that
  made a directory and has not begun to release it is the `maker` of the one that
  is there, or was robbed. `ExclusiveUnlessRobbed` alone is not inductive: it does
  not say who the directory at the path belongs to when a second process gets past
  mkdir. `PidNamesHolder` proves `NoOrphanLock`; what it needs is that a directory
  without a pid was made, or is being removed, by a process at that point of its code.
* `HarnessClaimProofs`, the hooks: `HooksAreAtomic`, the refinement of `TaskClaim`
  by the hooks that read and write the board in steps; `OutcomesAreFinal`; and, from
  the refinement and the theorem about the abstract board, `HooksHonourLeases`.
  The argument is that of a critical section, with the lock proved and not assumed:
  `HooksUseTheLock` maps every step of a hook to one of the lock, so that
  `OwnersMadeIt` applies; hence nobody else writes between a read and a write
  (`CopyIsCurrent`), and within a tick the board that a task is picked from has no
  expired leases (`PickIsFresh`). The theorems are about behaviours in which no
  lock is robbed (`[]NotRobbed`), as `HookSteps` checks them: `HookRace` shows that
  the code does not exclude a robbery, and what one does. `HooksHonourLeases` also
  needs transactions that end within a tick (`~slow`), as `AtomicBoard` itself
  promises nothing of a lease that ran out while its transaction was on its way.
* `TaskClaimProofs`: `BoardTypeCorrect`; `LeasesAreHonoured`, inductive with the
  type invariant, since only the owner's transactions touch a running lease and
  a tick ages the board and the belief together; `DependenciesComeFirst`, whose
  point is that a completed task never stops being completed; `RetriesEnd`,
  `HonestRetriesEnd` and, from both, `StartsAreBounded`, by an invariant that
  relates `runs` to the two counters: every start beyond the current one was
  counted in `attempts` or in `errors`, so the larger of them is at least half of
  the starts. `HonestRetriesEnd` is about tasks that are not `Forgetful`, whatever
  the log shows, `RetriesEnd` about those that are not `Unlogged`, however often
  `attempts` is not bumped; of a task that is both nothing is claimed (section 6).
  The lemmas on single transactions (`BoardTypeStep`, `SettledStays`,
  `CompletedSame`) carry the proofs about every module that extends the board.
* `HarnessStopProofs`: `StopTypeCorrect`; `LastOutLeavesNothing`, for any number of
  sessions in either mode: a session becomes done by one decision only, from then
  on nobody starts a task in its name, and the last to become done sees the tasks
  that nobody has claimed as well. `MarkerGoesLast` proves `GoneMeansFinished`
  where sessions answer for each other's tasks (exclusive mode) or there is one
  session (`AnswersForAll`): then a done session knows that the whole board is
  settled, and a settled board stays so. In concurrent mode with several sessions
  the property is false (section 6). `ValveHolds` proves `RowBounded` for a session
  that is alone at its root; with two it is false (section 6). Its invariant
  follows the row through the hook: until the campaign is finished the counter file
  knows of all but the first block of a row and of every completed task, and what
  could reset the file without ending the row, a reflection pass, only comes when
  the campaign is finished, after which a resumed session is no longer blocked.
* `SubagentHooksProofs`: `HooksTypeCorrect`, with what is known between gate and board;
  `SilencesHaveReasons`: a store that did not change between the two readings is one
  whose silence can be told (`QuietStores`, by cases over gate and files), whatever
  changes of `ChangeStore` came before; `LeaversOweNothing` and `LastToRestSettles`, for
  sessions with an identity or concurrent mode (`Identified`). Without it a teammate
  claims as host and pid, is looked up by name, and may rest on its own work (section
  6). The invariants add that a task in progress has an owner with an identity
  (`OwnersNamed`) and that whoever was let go is gone and claims no more.
* `ParallelExecutorProofs`: `ExecTypeCorrect`, `NoSlotLeaks` (with the lemmas on
  the cardinality of a finite set that gains or loses one element),
  `ReportedOnce` (what is in the channel and in the results, and each once),
  `ExitCodeTells` (from it: the last bad result decides the code, so there is none
  when it is 0, and RunPlan answers when there is a result for every task,
  `AnswerAtTheEnd`), and `ExecutorRunsTheGraph`, the refinement: initial states map to
  initial states and every step to a step of `TaskGraph` or to a stutter, for any
  graph, layering, worker limit and set of exit codes. It needs the invariant that
  the layers below the present one are collected, and that a task that is not in
  `failed` and is collected has succeeded.
* `ParallelExecutorProofs`, the sort: `SortIsRight` proves `SortAnswers` for any
  finite list of tasks and any dependency lists. The invariant `CountsFit` says
  that a count is the number of positions, in the task's list, of names not taken
  yet, so that a dependency that is named twice is taken off twice; that a task
  was taken directly behind the last of its dependencies (`Rests`); and that the
  queue is what waits for nothing. Counts are cardinalities of sets of positions,
  and what a layer takes off is a difference of disjoint sets (`NamedApart`), so
  no induction over a list is needed. Where layers are answered there is no cycle,
  as the earliest layer that meets a cycle would have a member that waits for one
  of an earlier layer; where a cycle is reported, the tasks that are left are one.
  `LayersSuitTheExecutor`: these layers are a `Level` as `ParallelExecutor`
  assumes it.
* `WrapperProofs`, the vendor call: `CallTypeCorrect`, `CallsEndClean`,
  `SignalsAreReported` and `GoodRowsAreEarned`, for any exit codes and any number
  of messages. The three speak of the end of a call only; what makes them
  inductive is `Shape`, which says at each point of the main goroutine which
  processes, goroutines, pipes and timers there can be, and that nobody is
  signalled before the context is done. `DoneIsTheEnd` shows that a call that is
  over moves no more.
* `WrapperProofs`, the logger: `NoEarlyEntryIsLost`, for any number of goroutines,
  entries and places in the channel. The invariant says where an early entry can be
  (in the channel, in the buffer or in the file), that the worker drains only when
  done is closed, and that nobody returns from Close before it has ended. Only
  then is `ClosedMeansWritten` inductive: the worker ends with the channel empty.
  `FlushKeepsItsPromise` proves `FlushedMeansWritten`: the wait group counts the
  senders on their way and the entries in the channel (`PendingCounts`), what was
  promised was logged before, and one Flush at a time has the worker's ear.
* `HqStoreProofs`: `VerbsAreAtomic`, the refinement of `PostShelf` by verbs that
  read, write and reindex in steps and are killed at any of them, and
  `IndexIsCurrent`. The invariant says that one client is inside the flock, that
  what it is about to write still fits what is on disk (`MemoFits`: the number is
  above all that the glob lists, an amendment is of the post as it is), and that
  the index is behind only while its writer is between post and index.
* `HqStoreProofs`, the text of a post: `ReviewsStayEarned` proves
  `ReviewsAreEarned` for any lines that a post begins with and any number of
  comments and edits, where no new body holds a marker of its own (section 6 has what
  one does). The definitions find the marker, the first head and the end
  of a block with CHOOSE; `FirstMarker`, `BlockEnds` and `CountedAre` replace them
  by positions. Then a step has two halves: reading and writing a post again
  moves its counted reviews by a constant and so keeps their number
  (`SameReviews`), and a comment behind it adds one or none (`OneMoreComment`).
  `HonestText` is what the rejection of forged lines is for.
* `HqStoreProofs`, edits: `EditsLeaveTheRest` proves `EditsKeepTheRest` for posts in a
  form: no fragment without a key follows a status (`StatusIsAWord`), parser and writer
  agree on what is a field wherever one of them looks (`NoLookalikes`), and nothing but
  one blank line stands between "## Comments" and the first comment (`Tidy`); and for
  new bodies without bullets at their beginning and without a marker (`OnlyBody`). These
  are hypotheses of the theorem. `FormAssumption` of `MCHqStore` checks that the posts
  of the run have the form, so it is met by posts with repeated keys and keys behind a
  summary. Other posts do not keep what the property says: `LookalikeIsOverwritten` and
  `ListIsFrontMatter` in `MCHqStore` show it of lookalikes and bodies; set_field_in_raw
  leaves a fragment behind the new status, where the parser reads it into the value, and
  serialize_post drops what stands before the first comment. The argument: in the form
  the writer's places are the reader's (`MarksArePlaces`); the segment that is replaced
  is the last with its key (`SetFieldIs`); what goes with a summary has no places, since
  behind a summary there are no keys, so places of keys stay (`PlacesStay`); a value
  runs to the next key, so all but the edited one stay (`ValuesStay`); and a tidy tail
  is read and written as a prefix of itself and stays tidy (`KeptStep`, `BodyStep`).
* Type invariants: those of the store, the logger, the sort and the conversion
  follow from the invariants above. What they say beyond ranges: pendingWG, whose
  falling below zero would panic, counts what is under way (`LoggerTypeCorrect`); a
  count of the sort does not fall below zero where a dependency is named twice
  (`SortTypeCorrect`); ids in memory and in the idmap are of posts that are there
  (`WikiTypeCorrect`); what a verb carries from reading to writing is a whole post
  with a number (`StoreTypeCorrect`).
* `WikiConvertProofs`: `StampsAreRight`; for readers who give a page that has a post no
  other subject (`ASSUME NoRenaming`) `NoPageTwice`; for readers who give no page the
  subject of another page's post (`ASSUME NoReuse`) `PagesAreKept` and
  `CitationsAreKept`; for any wiki, any number of crashes and reruns, plans made anew
  and entries filled again at any time. Without its hypothesis each fails (section 6):
  apply recognises a converted page by its subject alone, so the invariant has to say
  that entries and store agree. `OwnSubjects`: the entry of a page that has a post is
  empty or has the post's subject, from which a page with a post is never minted;
  `SubjectsAreTheirs`: an entry with the subject of a post is the page of that post,
  from which what is skipped is paired with its own post; and `KnowsPosts`: apply has
  all posts by subject while it mints. For citations, `MapInv`: the map never leads from
  a page's own path to another page's post, and it is written before the first page is
  removed.

The assumptions on constants are named in the modules and evaluated by every run.
Beyond what a constant is for they say that there is a session and finitely many
tasks (`StopAssumption`), finitely many senders (`LoggerAssumption`), a subject
(`StoreAssumption`), that a post begins with bullets of
segments and lines of known kinds, and the words the verbs write are words
(`TextAssumption`), that the tasks to sort are finitely many and a stranger is none
of them (`SortAssumption`), and that the hooks' campaign fits in the log that is read
(`HooksAssumption`, `StopAssumption`).

Only model-checked: the liveness properties (`EveryHookEnds`, `StaleLockIsReclaimed`,
`CampaignSettles`, `EveryStopEnds`, `EverySessionLeaves`, `Terminates`,
`EveryCallReturns`, `LogCallsReturn`, `ConversionEnds`), since the prover has no
ENABLED. Proved under a hypothesis that the run shares: `HooksAreAtomic`,
`HooksHonourLeases`, `PagesAreKept`, `NoPageTwice`, `CitationsAreKept`,
`ReviewsStayEarned`, `EditsLeaveTheRest`,
`MarkerGoesLast`, `ValveHolds`, `LeaversOweNothing` and `LastToRestSettles`, each as
said above.

## 6. Where the code and its documents disagree

Shown by a run that finds the violation:

* `HookRace`: acquire_lock renames whatever directory is at the path. Between
  reading a dead pid and renaming, another process may have reclaimed and retaken
  the lock; its fresh directory is taken from it, two hooks are inside, and one
  task is leased twice.
* `VendorOutput`: `cmd.Wait` runs beside the reader of the StdoutPipe and closes
  it at the vendor's exit. What the parser has not read by then is lost: a call
  succeeds with an intermediate message, or fails for want of one.

Shown by assumptions of `MCHqStore`, which TLC evaluates on single posts:

* `LookalikeIsOverwritten`: set_field_in_raw finds a field by what stands before the
  first colon, or by the whole segment, and the parser by ": ". Behind keywords, a
  part `status` or `status:x` is overwritten by an edit of the status: the keywords
  lose it, and the post has a status where it had none, or a second one below a line
  that keeps the old value (`post.py:390`: "Find the occurrence `parse_bullet_line`
  would resolve to").
* `PastedReviewCounts`, `ListIsFrontMatter`: edit stores a new body as it is. One that
  holds a line "## Comments" and a review below it is read back with that review,
  which counts, and one that begins with a bullet is read back with that bullet as
  front matter. The text of comments and reasons is refused when it could do the like
  (`verbs.py:184`).

Found by TLC when a constant of `Conversion.cfg` is FALSE instead of TRUE:

* `NoReuse`, violating `NoPageLost`: apply takes a page for converted when its subject
  has a post, of whatever page, and removes it ("the one outcome this tool exists to
  make impossible", `convert-wiki-form.py:442`).
* `NoRenaming`, violating `OnePostEach`: plan lists converted pages that are still
  there like any other, with an empty subject; a reader who chooses a new one gets a
  second post of the page (`convert-wiki-form.py:485`).
* `HasGit`, violating `ConversionEnds`: at an anchor outside git, of which the store
  has several (`store-spec.md:693`), apply --commit ends in "git rm failed" each time
  and the pages stay. It does so too where every page was refused and there is nothing
  to remove.

Met while modelling, without a run:

* The hooks read the last 200_000 bytes of a log that is never truncated, and take one
  that cannot be read for empty. The ERROR lines of a task drop out as others are
  written, its count falls, and a task that had failed max_attempts times is leased
  again; a session that also forgets to bump `attempts` does earn unlimited retries
  (`SKILL.md:396`). In `TaskClaim` this is a task both `Forgetful` and `Unlogged`, to
  which neither half of `StartsBounded` applies.
* The block counter belongs to the root, and not to the session: a stop of one
  session resets it, and another one is blocked more often than the valve allows
  (`harness-stop.py:5`: "If the hook blocks N times in a row without any task
  completing, it allows the stop with a warning"). TLC finds it in the instance of
  `StopTogether` with two tasks and MaxBlocks 2, where `RowBounded` fails.
* A task on which a session logs failures and does not bump `attempts`, and which
  is also reaped, starts more than max_attempts times: the two counters are not
  added up (`_harness_common.py:450` promises a fact, not a self-report). The
  bound that holds, while its lines are found, is `RetriesBoundedTwice`.
* In concurrent mode on a legacy root the first worker without work of its own
  removes `.harness-active` while others work (`self-reflect-stop.py:6`).
* The Stop hooks block again on a turn that a block caused, up to their limits
  (`SKILL.md:145` says every blocking hook returns 0 then).
* In a parallel run an interrupted call gives 130, its dependents are skipped
  with 1, and RunPlan returns the last code that is not 0: the process exits with
  1 (`USER_GUIDE.md:320`). An interrupt before the vendor is started gives 1 too.
* CommandContext kills the vendor at once when the context ends, so the SIGTERM
  of terminateCommand "for graceful shutdown" (`signal_unix.go:10`) is not
  followed by the five seconds it is meant to grant.
* After a kill between post and index INDEX.md is stale until the next write,
  though "the verb path never drifts" (`verbs.py:514`); posts above 999 are
  written, never seen by the glob, and their number is issued again; nothing
  keeps two posts from superseding the same one (`store-spec.md:355` promises
  exactly one head).
* A root with an anchor and no hq board: the hooks fall back to
  `harness-tasks.json` and the marker, which the gate of an anchored root never
  looks at, so a broken file there is read as an inactive store. JSON that is no
  object is read as inactive everywhere. harness-claim.py and harness-renew.py ask
  no gate.
* SubagentStart tells a role "SubagentStop will hold your exit over it" for every
  notice, of which SubagentStop checks only some (`harness-subagentstart.py`,
  `check_board`).
* TeammateIdle compares `claimed_by` with the teammate's name; a worker without
  HARNESS_WORKER_ID claims in exclusive mode as host and pid, so its own work never
  keeps it up; in concurrent mode it can be kept up for ever by work it may not
  claim.
* A post: lines between "## Comments" and the first bullet other than one blank are
  dropped on a rewrite, and a fragment behind a status stays behind the new one.
* The conversion: a page whose body does not come through stops the run after its
  post is written, and the rerun takes it for converted; `apply` followed by `apply
  --commit` stages INDEX.md and the map, not the posts; a bare file name that two
  batches use is given to the later one.

## 7. What is not modelled

* Text: prompts, checklists, formats, argument validation, log lines, the layout
  of reports. Of posts, what `PostText` has.
* The ten-second time-out that Claude Code puts on a hook; a kill by it is a
  crash of `HarnessLock` and `HarnessClaim`. In `HarnessStop` hooks run to their
  end.
* Clocks that jump: leases age evenly for everybody.
* What is in a state file that was left behind: a hook that reads one may do what any
  board could make it do. The other two files of a store change only when the campaign
  is moved.
* Readers without a lock (hq query, rank, lint, gc): they see posts through
  `os.replace` and so see a post whole; what they compute is a function of it.
* The ascent of the hq command line to an anchor, and the fallback copies of the
  helpers in harness-subagentstop.py, which run only when the import fails.
* A subagent that inherits HARNESS_WORKER_ID from its parent.
* How plan derives dates, keywords and titles from a page; the several refusals of
  apply for a field that is missing are one.
* The logger's memory of recent errors and its clean-up of other processes' files;
  temporary loggers of silent calls, progress lines, heartbeats.
* The stream parser, plan building, configuration and agent precedence: pure
  functions over text, with unit tests of their own and no state between calls.
* Census and release gates, installers, worktrees (sequences of git commands),
  tmpdir clean-up, the usage ledger beyond which row a call writes.

## 8. The plan

In this order; all of it is done.

1. Lock, board, hooks (`HarnessLock`, `TaskClaim`, `HarnessClaim`), proofs.
2. Stop hooks (`HarnessStop`).
3. Executor and sort (`TaskGraph`, `ParallelExecutor`, `TopoSort`), proofs and
   the refinement.
4. hq store (`PostShelf`, `HqStore`).
5. Single vendor call (`VendorCall`).
6. Proofs of 1, 3 and 5.
7. The other hooks and the gate (`StoreGate`, `SubagentHooks`).
8. The logger (`AsyncLogger`), and its first proof.
9. Posts as text and the wiki conversion (`PostText`, `WikiConvert`), and the
   proofs about the latter.
10. More proofs: `FlushedMeansWritten`, `CitationsResolve`, `ExitTells`,
    `NoOrphanLock`, the invariants of `SubagentHooks` and `HarnessStop`, `HqStore`,
    the refinement of `TaskClaim` by `HarnessClaim` while no lock is robbed, and
    `ReviewsAreEarned` of `PostText`.
11. The sort for lists of any length (`SortIsRight`).
12. `EditsKeepTheRest` for posts in a form that is named (`EditsLeaveTheRest`), and
    the remaining type invariants.
13. What the models had taken for granted: the part of the log that is read, new
    bodies and lookalikes of fields, plans made anew, anchors without git, results
    that cannot be written, files that were left behind.
