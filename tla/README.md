# The agent runtime, the merge queue and the leases in TLA+

This directory models the part of the repository where several processes share
files, or a queue on GitHub, and must not get in each other's way: the writer
lease, the supervisor commands and the daemon that work under it; the session
lock of the self-hosted runners; the queue supervisor beside the merge queue and
a queue refresh; the execution cell, the Docker lane and the bundle that takes
both; the guard through which the scripts run git. The modules are checked with
TLC on small instances, and every safety property that a passing run checks is
also proved with TLAPS for all instances.

## 1. The system

The repository holds a GitHub action that compares LabVIEW files and a large
control plane of Node and PowerShell scripts with which agents and runners work
on the repository itself. Most of the scripts are sequential: they read a
report, decide, call `git` or `gh`, write a report. What is hard to test lies
where independent processes meet on a file or on a queue.

| Component | State it keeps | Operations | Meets |
| --- | --- | --- | --- |
| Agent writer lease, `tools/priority/agent-writer-lease.mjs` | one JSON file per scope | acquire (create, renew, take over, retry), heartbeat, release, inspect | every agent, bootstrap, hand-over, the daemon |
| Runtime harness, `packages/runtime-harness/index.mjs`, `worker.mjs` | state file, stop request, last blocker, lane files, turn files, event log | status, stop, resume, step | the lease (step only); the other processes on the same runtime directory |
| Observer daemon, `packages/runtime-harness/observer.mjs` | its position in a cycle, a cycle count; heartbeat, decision, worker, packet and receipt files | plan, prepare, bootstrap, activate, step, execute, sleep, exit | the harness; the adapter's planner, worker hooks and turn execution; the operator, through the stop request |
| Session lock, `tools/Session-Lock.ps1` | `lock.json` per group | Acquire, Heartbeat, Release, Inspect | jobs of `pester-reusable.yml`, `Invoke-PesterTests.ps1` |
| Queue supervisor, `tools/priority/queue-supervisor.mjs` | retry history in its report, throughput controller file, labels on GitHub | classify, order, admit, retry, label, throttle | GitHub's merge queue, merge-sync, the workflow that starts and cancels it |
| Queue refresh, `tools/priority/queue-refresh-pr.mjs` | none beyond one process | look, dequeue, poll, push, requeue | the merge queue, merge-sync, the supervisor |
| Merge synchronisation, `tools/priority/merge-sync-pr.mjs` | none beyond one process | view, merge, verify | GitHub; called by the supervisor and the refresh |
| Execution cell lease, `tools/priority/execution-cell-lease.mjs` | one JSON file per cell, a report per checkout | request, grant, commit, heartbeat, release, inspect | the lane (a commit is linked to it), the bundle |
| Docker lane handshake, `tools/priority/docker-lane-handshake.mjs` | one JSON file per lane, a report per checkout | the same | the cell, the bundle |
| Execution cell bundle, `tools/priority/execution-cell-bundle.mjs` | none beyond one process | the same, for both, with rollback | the two above |
| Runner invoker, `tools/RunnerInvoker/` | request and response files, a gate file | ping, compare, render, finalize | a client with a time-out, a polling server |
| Safe git, `tools/priority/lib/safe-git.mjs` | none beyond one process; git's are the lock files and markers in `.git` | look, list and kill gits, remove locks, run, retry | git processes of this and other checkouts, other guarded calls |
| Adapter, delivery agent, standing priority, develop synchronisation | reports and caches | decision tables over GitHub, sequences of `git` and `gh` | the daemon (adapter), the lease (hand-over, bootstrap) |
| Portfolio and GitHub metadata | none | compare GitHub's settings with a file, apply the difference | GitHub |
| The compare action | none beyond one process | run a comparison, format reports | LabVIEW |

What makes these components correct, and what is hard about it:

- *Lease.* At most one owner believes it holds a scope; a holder can prove it;
  nobody deletes or rolls back somebody else's lease; a dead holder's lease can
  be recovered; every command returns. Hard because each command reads the
  file, awaits, and then acts on what it read.
- *Harness.* A turn works under the lease from its first decision to its last
  write and gives it back however it ends; what the state file names is on
  disk. Hard because the state is loaded before the lease is taken, because
  `status`, `stop`, `resume` and refused steps write without it, because a file
  is truncated before it is written, and because a process can die anywhere.
- *Daemon.* A stop request that stays ends it, after two more turns at most; a
  cycle limit ends it; it leaves no lease behind. Hard because the operator's
  commands fall between any two of its awaits and there are ten ways out of the
  loop.
- *Session lock.* One session runs its tests; the others queue and give up; no
  session touches another's lock. Hard because the lock is unreadable while it
  is written, because heartbeats write without a second look, and because a
  release may not know its lock's id.
- *Queue.* A pass keeps to its cap and to the dependencies; a quarantine is
  earned; a pull request that is ready gets merged. Hard because a pass acts
  for minutes on a snapshot, because any call to GitHub may fail after half of
  the work, because passes are cancelled between the files they write, and
  because a refresh works on the same queue.
- *Bundle.* An agent has the lane until it gives it back; a grant or a commit of
  which one half is refused ends without the other. Hard because the two files are read,
  judged and replaced without a lock, while other agents' bundles do the same.
- *Safe git.* A living git keeps its lock; a command takes effect once, however
  often it is run; what dead gits left stops nobody; every call returns. Hard
  because locks are seen, gits listed, gits killed and locks removed one after
  the other, while other gits, guarded or not, come and go.

`PROJECT.json` lists every component with its status, and every hazard at its
line with the properties that cover it.

## 2. Modules

| Module | Models | Extends |
| --- | --- | --- |
| `SingleWriter` | the promise of a lease or lock; nothing in it is code | |
| `WriterLease` | the writer lease | |
| `RuntimeHarness` | status, stop, resume, step | |
| `RuntimeObserver` | the daemon loop composed with the harness commands | `RuntimeHarness` |
| `SessionLock` | the session lock | |
| `PullRequests` | GitHub's side of the queue (external) and merge-sync | |
| `QueueRefresh` | the queue refresh | `PullRequests` |
| `ThroughputController` | the adaptive in-flight cap, operators only | |
| `QueueSupervisor` | the passes, composed with all of the above | `QueueRefresh`, `ThroughputController` |
| `ExecutionBundle` | cell, lane and bundle | |
| `SafeGit` | the guarded git calls, and git's locks (external) | |
| `...Proofs` | theorems about the module they are named after | that module |
| `MC...` | names, orders and constraints for TLC | the module they check |

There are three layers around the lease. `WriterLease` implements `SingleWriter`
(`KeepsPromise`). `RuntimeHarness` uses the lease through that promise only:
acquired if free, renewed if one's own, refused otherwise, released if one's
own. Its turns implement `SingleWriter` again, with "writes" meaning the writes of a
turn. `RuntimeObserver` puts the daemon's loop around the same commands.

Each definition whose comment says "A slip" is a plausible mistake in a
definition below it. The checks substitute them one at a time: each property
fails for at least one of them.

### WriterLease

`file` is what the path holds: nothing, a file its creator has opened with
flag `wx` and not yet written (`Blank`), or a lease with owner, id and
heartbeat. Each client has a program counter `pc`, the record it is about to
write (`pending`), the id it was told (`ticket`), and is in `inside` from a
successful acquire until it is told otherwise or starts its release. A command
is cut exactly where the code awaits: create, fill, look (readLease), rename,
rm. `writeJsonAtomic` writes its temporary file under a name of its own, so
only its rename is a step; a rename that fails with a retryable error is
followed by the `rm` of the target and the next rename, as in
`replaceFileWithRetry`. A dead client may come back under the same owner
string and without its ticket (`Restart`). With `CallsFail` any call of a command may
throw an error that the code does not handle, the `rm` of a target or of a released
lease included (`Throws`): the command ends there and leaves the path as it is.

Left out: `inspect`, scopes (they are independent files), the `takeover` member
of a record, the command line and its exit codes, text that does not parse (a lease is
written by one call under a fresh name or, when created, in one short write).

### RuntimeHarness

Every command is `Begin`, `Load`, its own steps, `Save`, `Write`, and for a
step that holds the lease `WriteTurn` and `Release`. `mem` is a command's copy
of the state, which it loads before it asks for the lease and writes back
whole. `writeFile` truncates and then writes: the state file is `Torn` between
`Save` and `Write`, and so is the stop request between `Stop` and `Requested`.
A torn file makes the reader throw (`JSON.parse`); in a step that runs the
`finally` block. When two writers overlap, the file may end torn too: the
shorter text over the longer one. A `resume` may remove the stop request while a `stop`
has it open: its text is then lost, and the command reports a request that is not there
(`Requested`). Any write, and the acquire, may fail (`Fails`): the command throws and the
file stays as it is. The release itself may throw too (`ReleaseFails`); it leaves
the lease, like a death, and is counted with the deaths. `Crash` ends a command at any
point, or its process between two of them, and leaves its files.

Left out: the event log (append only, never read back), the legacy state path,
the texts of lane and turn files (the commands never read them back, they only
count them), time stamps.

### RuntimeObserver

`opc` is the daemon's place in its cycle; while it is "stepping" the daemon runs
the actions of `RuntimeHarness` for its process. `Launch` chooses a cycle limit
or none. `Plan` covers `resolveSchedulerDecision` and the exits that follow it
(11, 12, idle-stop, which any launch may have asked for), `PrepareWorker`, `BootstrapWorker` and `ActivateWorker` the
hooks with their exits 13, 14, 15, `StepReturned` and `Executed` the execution
of the turn with exit 16, and `Settle` the tests at the end of a cycle in their
order: step failed, stop requested, receipt blocked, `stopLoop`, cycle limit.
Hooks, planner and execution belong to the adapter: they return any of the
answers that the loop distinguishes. A process that is not an observer is an
operator, and runs `status`, `stop`, `resume` and `step`, with any lane or none, whenever
it likes. `drained` is auxiliary: the turns a daemon went on to execute since a stop
request stands.

Left out: the daemon's own artifact files, which it writes and never reads.

### SessionLock

`file` is nothing, a record, a file some session has open for writing (empty,
and shared with nobody: `FileShare.None`), or an empty file whose writer died.
`Read-Lock` returns null for all but a record. `Judge` is the part of the loop
that follows a read: stale and forced, stale and not, queue-timeout, wait.
A takeover and a heartbeat open the file with `FileMode.Create`, which fails
while it is open elsewhere; the failure ends the script. `Remove-Item` is silent
about failing. `inside` are the sessions that run their tests: from an acquire
that exited 0 to the start of their release. `Anonymous` sessions release
without `SESSION_LOCK_ID`, as `Invoke-PesterTests.ps1` does (the id is only
written to `GITHUB_ENV`, so the same process does not see it);
`AlwaysRelease` sessions release even after a failed acquire, as the
`if: always()` step of `pester-reusable.yml` does. A job releases on the
machine that holds the file, so the sharing rules are those of Windows.
`trespassers` is auxiliary: the sessions that took a lock over, or removed one
they had not acquired.

Left out: `Inspect`, `status.md`, summaries.

### PullRequests, QueueRefresh, ThroughputController, QueueSupervisor

GitHub's side is external and modelled from the calls the scripts make: a pull
request is sound (base, draft, conflicts and required checks are one fact),
reviewed at its head, behind, labelled, armed for auto-merge, queued or merged.
Checks pass and turn red, reviews clear, authors push, the base moves, the queue
merges its first entry or ejects it, and somebody may take labels off.

`sync` is a run of merge-sync: `View` (state, conflicts, review of the head),
`MergeCall` (`gh pr merge --auto`: queued, or armed until the checks are green)
and `Verify` (the poll). A call may fail with nothing done, fail although it took effect,
or take effect late: the promotion is then `pending` until it `Lands`, which may be after
the last poll. `EndSync` forgets such a promotion, as merge-sync does. Merge-sync runs as
a child of the supervisor or of a refresh, and the two may run at once. `refresh` is the step of `queue-refresh-pr.mjs`; every
step may fail, the process may die after any, and nothing is undone.

A pass of the supervisor is `StartPass`, then for each pull request of its plan
`Admit`, `Sync`, and one of `Enqueued`, `UpdateBranch` (once, for one that was
behind in the snapshot) and `Refused`, then `Report` (the retry history) and
`State` (the controller file). `StartPass` takes the whole snapshot: `Eligible`
is `classifyOpenPullRequests`, `TopoOrder` is `toTopoOrder`, `PlanOf` cuts the
plan to the capacity, `Verdict` computes the controller's next mode. A pass may
be a dry run or paused, it may be `blind` (the GraphQL enrichment failed, so
that only auto-merge is seen), and it may start on a fresh checkout without the
files of an earlier pass. `Cancel` is the workflow's cancellation, which may
tear the file being written. `Expire` lets a failure become a day old.
`failures` counts what really failed within the day; the pass itself only knows
`memory`, the history it read.

`unmetered` is auxiliary: who was last put in flight by something that counts nothing.

The numbers of the pull requests stand for the order of `compareCandidates`, and the
readiness report keeps the order of `toTopoOrder`: its scores only decide between
equal ranks, and there are none.

Left out: the reconciliation of deferred branch deletions, the burst's own
counters (a pass may have any cap a burst allows), `--no-adaptive-cap`, direct
and `--admin` merges, the wording of reports and receipts.

### ExecutionBundle

`file` holds the record of the cell and the record of the lane; `report` is the
last report each command left in the checkout, from which the commit of the
other takes whom it is linked to. A running command `op` is at one call of the
bundle: `Read` the record, then `Write` what `CellTakes` or `LaneTakes` accepts
or `Refuse`, then `Report` and on to the next call. `NextCall` and `Rollback` are
the order and the rollbacks of `runExecutionCellBundle`. The read and the
rename are separate steps because nothing locks the file between them. `lost`
is auxiliary: the files where a write went over a change it had not seen. `refused` is
too: the halves that a running grant or commit was refused. A
cell's heartbeat may run out (`Expire`); a command may be killed between any two
steps.

Left out: bundles without a lane, the cell and lane commands called by themselves with
`--lease-id`, rates, capabilities, budget and fingerprint (a grant or a commit may be
refused for them), the ids that linked records keep of each other. The agents work in one
checkout: in separate ones no commit finds the other's report.

### SafeGit

A call of `runGitWithSafety` is cut where another process can come between: `Look`
(`collectLockFiles`, `collectInProgressStates`), `List` (`listGitProcesses`), for
each lock `Leave`, `Kill`, `Relist`, `Remove` or `RemoveFails` (`repairLocks`),
`Repaired`, `Run`, `Result`. `call` holds what it knows in between, as it found it
then: the locks it saw and which of them were old, and its last listing. `Again` is
the retry, for a lock that stays as for a git that met one. `Die` ends the caller; the git
it has spawned lives on.

Git is external, as the guard relies on it: a git makes a lock file exclusively,
changes the checkout, removes the file; killed, it leaves it. `merging` stands for the
four markers of half-done operations, and the command "abort" for the flags that
`commandAllowsState` lets through.

`Others` are the gits that no call guards, in this checkout or in another. There are
many: `queue-refresh-pr.mjs` runs its fetches, checkouts, rebases and pushes by plain
`spawnSync` (253-262, 617-640), and a guarded script hands git whatever
`isMutatingGitCommand` does not know (`safe-git.mjs:625`, `branch-utils.mjs:25-30`),
`fetch` among it. They look at nothing, come up at any moment, make locks and change the
checkout; `pgrep` lists them like all others. A git
bears the name of its caller, so that a call which has listed one may kill the caller's
next git instead: more than process ids allow.

`strayed` is auxiliary. It says that a listing has failed, or that a lock that a call had
seen, and not yet treated, went by another hand: its git ended, or another call removed
it. From then on the call may remove a lock that a git has made anew.

Left out: more than one lock file for a git, the telemetry, the order in which locks are
treated (any), the delay between rounds.

## 3. Runs

| Run | Instance | Shows |
| --- | --- | --- |
| `lease_cooperative` | 3 clients, no takeovers, no busy rename, calls that throw, 1 crash, restarts, 2 ticks, 3 leases | one owner at a time, holders hold their very lease, removals only by the owner, no rollback, the inductive invariant, the refinement of `SingleWriter` |
| `lease_forced` | 2 clients, one with `--force-takeover`, holders beat within the timeout, 2 busy renames, calls that throw, 1 crash, 4 ticks | until a rename fails a takeover hits only what a dead process left, and nothing is rolled back, with the inductive invariant of that; every command of a live process returns even then |
| `harness_turns` | 2 sessions, all four commands, 1 lane, writes that fail, 1 crash or failing release | the turn's lease, its release, guarded artifacts, lanes on file, the refinement of `SingleWriter` |
| `daemon` | a daemon, launched with a limit of 2 cycles or without one, and an operator with all four commands, writes that fail, 1 kill | under a standing stop request two more turns at most; no lease left behind; a stop request that stays ends the daemon, and so does its limit |
| `lock_sessions` | 3 sessions, one forcing and always releasing, one anonymous, 1 crash, 1 tick, 3 acquires | until a trespass one session at a time, a lock touched only by who acquired it, the inductive invariant; every script ends |
| `queue` | 2 pull requests, one depending on the other, caps 1 and 2, a refresh, 2 mishaps, late promotions among them | the cap, the dependency order, earned quarantine, a ready dependent is merged |
| `bundle` | 2 agents, 3 leases, 1 kill | nobody loses a lane it was granted; a grant or a commit that is refused one half ends without the other |
| `git_calls` | 2 callers, one after the other or at once, a git that no call guards, 2 lock files, 2 attempts, 1 death, listings that may fail | until a listing fails, or a lock that a call had seen goes by another hand, no call takes a lock from under a living git, orphaned and unguarded ones included; a command takes effect once; dead gits block nobody; every call returns |
| `lease_orphan` | 2 clients, both forcing; who survives asks again and again as time passes | *fails*: a blank lease file is never recovered |
| `harness_status_rollback` | 2 sessions, no crash, 3 cycles | *fails*: `status` writes an old state over a newer turn |
| `lock_fresh_takeover` | 2 sessions, one forcing, no tick | *fails*: a lock that is just being written is taken over |
| `queue_upgrades` | as `queue`, any weather | *fails*: a pending upgrade is not applied by the pass that should |

**Bounds.** Every constant called a bound in a module limits only how often
something happens: ticks, lease ids, crashes, faults, cycles, mishaps, kills.
Three clients let one die while two others race over what it left. Two ticks
with a timeout of one pass from fresh to stale; four, with a punctual owner, let
a takeover happen and its new lease go stale in turn. Two processes are enough
for the harness and the daemon because what another command can do between two
steps does not depend on how many commands it comes from; the proofs cover any
number. The cycle counter is 0 in `harness_turns`, which has no property about
its value. Two failing renames exhaust the one retry of `replaceFileWithRetry`.
`MaxLeases` bounds the leases under way as well as those issued, so that an
acquire that has started can always finish.

For the queue, two pull requests with a dependency and a cap of one make them
compete for the slot; a cap of two lets both be in flight. Two mishaps, shared by
everything that can go wrong, allow a push during a pass, a failed label edit
after a failed merge, a promotion that lands after its merge-sync gave up, or a refresh
that is killed. `LastIsNotAmidARefresh` keeps
the second of them away from a running refresh, which is the first, unless it is
what kills it: a pass, merge-sync and the merge queue still interleave with every
step of a refresh, but checks do not turn red and labels do not fail meanwhile. The
safety theorems have no such bound. The weather is green in `queue`: the modes that a bad weather asks for are also asked for by the retry
history, which reaches every count. For the bundle, three grants let an agent's
lease be replaced under it and granted again, and one kill leaves any half-done
bundle to the other agent. `NothingLost` ends a behaviour at the first lost write;
what is still promised after a lost write of the cell's file is left to the proofs
(`LaneExclusion`, `RefusedHalvesAreUndone`). The agents are interchangeable, and both
properties speak of them alike, so symmetry is sound.

`harness_turns`, `daemon` and `git_calls` have a `VIEW` that takes states for one when
they differ only in what no later step and no property reads. In `harness_turns` that is
the status in a saved or loaded state, and a loaded `stopRequested`, which every
command sets anew before it saves or reports it. `daemon` also leaves out what only the
properties of `harness_turns` read: which lane is meant, lane, blocker and turn files,
and the exit code. `git_calls` leaves out what is known to calls that are over, who was
listed and has ended, and the age of locks that are treated or that nobody's git protects.
A limit of two cycles lets a daemon execute a turn before the one with which it ends.

For git, one of two callers leaves its git behind and the other finds it, while a git that
no call guards comes up at any moment; two lock files let a call treat one lock after
killing over the other; two attempts are the first and a repetition; one death takes a
caller from its git, or a git from its lock, and kills take more. A
command's effects are counted up to two, which is already once too often.

**Deadlock** is checked everywhere but for the session lock and git, where it is
switched off: when the acquires of the bound are used up and all sessions have
released or died, or every call has returned, nothing is left to do.

**Fairness.** `FairSpec` of `WriterLease` and `SessionLock` gives each process
weak fairness for the steps of a command it has begun: a live process is
scheduled and its file calls complete. Nobody is obliged to begin a command.
`RecoverySpec` adds that time passes and that the forcing clients, both of them in
`lease_orphan`, ask again whatever else they do; even that is of no help there. `FairLoopSpec` gives each
daemon weak fairness for its next step: its event loop turns, its hooks return,
its sleep ends. The operator is not fair: `StopsOnRequest` needs no more than that
the request stays. A daemon is never blocked by the lease, since its step makes
one attempt at acquiring it (no retries by default) and exits with code 10.

`FairSpec` of `QueueSupervisor` has strong fairness for starting a pass that
applies, whatever dry runs come between. `queue-supervisor.yml` starts one when Policy
Guard (Upstream), which has a weekly schedule, or a dispatched Validate ends on develop,
and when it is dispatched with `apply`; its own schedule, every five minutes, starts dry
runs only (107-118). There is weak fairness for the steps of a running pass, whose calls
have timeouts, and for what GitHub has accepted: the merge queue advances, and a pending
promotion lands. Cancellations are among the mishaps, so there are finitely many: a pass
that is cancelled each time would merge nothing. Nothing else is fair: checks may never
pass, and a refresh may hang for ever at any step.

`FairSpec` of `SafeGit` lets a call go on, since nothing it does
waits but for its own git, and lets that git end while the call waits for it; nobody
else's git needs to end, and no lock needs to go.

## 4. Where the code departs from its promises

Each of the four failing runs ends in a short trace.

- `lease_orphan`: a client dies between `open(..., 'wx')` and the write. The other, with
  `--force-takeover`, asks again and again, long past the timeout. For
  `readLease` the blank file is no lease, so `acquireWriterLease` reports
  `lease-file-race` and never reaches its stale branch, while the exclusive
  create keeps failing.
- `harness_status_rollback`: `status` loads the state, a step completes a
  cycle, `status` writes what it loaded. The next step counts the same cycle
  again.
- `lock_fresh_takeover`: `Acquire` fails to create the lock, reads it again
  while its creator has it open, gets null, and null is infinitely old.
- `queue_upgrades`: the pass reads `upgradeStreak` of the controller file, which
  has it under `hysteresis`. The streak starts over in every pass, so the
  controller never goes back up while the file is kept.

The safety runs and theorems state the conditions under which the code is right.
Outside of them it is not, and a reader should know:

- *Two clients with* `--force-takeover` that read the same stale lease both
  rename over it and both report `takeover`. `lease_forced` has one.
- *An owner that wakes up late* may renew its lease between a takeover's read and its
  rename (`agent-writer-lease.mjs:290`), or itself write back, over a takeover, the record
  it had read for a heartbeat (`:364`). In `lease_forced` owners beat inside the timeout.
- *A rename that fails* (`EPERM`, `EBUSY`: a scanner has the file open) removes
  the target before it tries again, which frees the scope for a moment.
  `SafeUntilRenameFails` ends there.
- *Two processes with the same owner string*, such as the default
  `actor@host:default`, are one owner: both hold the lease, and the first
  release frees it. The theorems assume distinct owners.
- *Two daemons* may execute turns at once: `runStepAction` releases the lease in
  its `finally` block, before the loop calls `executeTurn`. What the adapter does
  to branches and pull requests is not under the lease.
- *A step that found the stop request* returns 0 and the loop executes its turn
  before it leaves, though `External-Agent-Runtime.md:296` says that "the runtime should
  check that file before starting a new turn". With the turn of a step that had looked
  before, two are executed after the request: `StopDrains` allows these and no third.
- *A* `stop` *beside a* `resume` may report a request that the other removed while it was
  being written.
- *A state file left torn* by a crash, by a write that failed half-way or by two writers
  fails every later command until somebody removes it.
- *A release that throws* leaves the lease of a turn that is over, until it is stale.
- *A job whose acquire failed* still runs its release step, has no
  `SESSION_LOCK_ID`, and removes whatever lock there is. It counts as a
  trespasser, and the exclusion of the session lock is stated until there is one.
- *A session's heartbeat* writes back the record it read. After a takeover in between the
  lock is the old session's again while both run (`Session-Lock.ps1:378`).
- *A blind pass* does not see the merge queue and admits beyond its cap; so does a
  refresh, which has none. `AdmitsWithinCap` leaves out what these two put in
  flight.
- *A promotion that does not show* before the last poll (`merge-sync-pr.mjs:1031-1050`), or
  whose call failed although it took effect, is a failure for the pass: it counts it, may
  label a pull request that enters the queue all the same, and the next pass takes
  its slot for free and may go beyond its cap. `AdmitsWithinCap` counts it while merge-sync
  waits for it, and leaves it out from then on.
- *A fresh checkout*, the hosted workflow's normal case, has no history and no
  controller file: a failure of an earlier pass is then not counted, and what
  should be quarantined is blocked.
- *`gh pr merge`* is called without the head whose review was checked. A push
  in between is armed for auto-merge unreviewed.
- *A write of a cell or lane file may go over another.* Both are read and
  replaced without a lock, and two agents may then believe they have the lane.
- *A request bundle whose lane is refused* keeps its cell requested: only grants and
  commits are rolled back (`execution-cell-bundle.mjs:587-592`).
- *A request replaces any cell*, an active one of another agent included, and no
  command on a cell asks whose it is.
- *A grant that is repeated after it succeeded* finds the lane granted and not
  requested, takes back the cell and leaves the lane granted. Repeated over an
  active cell, its rollback of the cell gives the agent's own active lane back.
- *A bundle for a cell alone* always passes a `dockerLaneReportPath`
  (`execution-cell-bundle.mjs:552`) to the commit, which then wants a lane's
  report and is refused. Such bundles are not modelled.
- *What was quarantined* is tried again by every pass, fails again and keeps the
  controller down: `EXCLUDED_LABELS` (`queue-supervisor.mjs:60`) lacks
  `queue-quarantine`, which `FEATURE_BRANCH_POLICY.md:375-378` lists.
- *A guarded call may remove the lock of a living git.* It sees a lock; that git ends, or
  another call removes the lock; the call lists no git; a git, of another call or
  unguarded, makes the lock anew; the call removes it. So does a call whose `pgrep` or
  `tasklist` fails, since a failed listing is an empty one. `WorkersHaveTheirLock` ends at
  either (`strayed`). A git that comes up after the listing loses nothing otherwise, for
  the call removes only the locks it had seen.
- *Over an old lock* every git of the machine is killed, whatever checkout it works on.

## 5. Proofs

All theorems hold for any sets of processes, owners, sessions, pull requests or
agents and any bounds. What they assume of the constants is named in the module
that declares them; `Cooperative`, `Attended` and `DistinctOwners` are hypotheses that a
theorem states.

- `SingleWriterProofs!OnlyTheHolder`: whoever writes an abstract scope is its holder.
- `WriterLeaseProofs`. `TypeCorrect` needs no condition. Most of the rest assumes
  `Cooperative`: no takeovers, no failing renames, distinct owners. `OneWriter`
  is not inductive: a client about to rename a renewed record could overwrite
  anything. `Undisturbed` adds what makes each pending action safe: the file a
  client fills is the one it made, the record it renews and the lease it removes are
  still the ones it read, ids name one owner for ever, time stamps are past. It
  is proved inductive action by action (`Untouched`), and yields `NoOverlap`,
  `TicketsStayGood`, `NoResurrection`, `OwnersRemove` and, with the mapping "holder = owner in the file, or of
  the blank file's creator", the refinement `Refines`.
  The theorems about takeovers assume `Attended` instead: one forcing client, owners that
  keep their leases fresh and do not come back from the dead. `Watched` then says,
  until a rename fails, that no live client's lease is past the timeout and that
  what a forcer is about to rename over belongs to a process that died
  (`TakeoversAreWatched`), from which `SafeTakeovers` and `NoTakeoverBackwards`
  follow. `Undisturbed` is no use there: it rules takeovers out.
- `RuntimeHarnessProofs`. `TypeCorrect` and `LanesOnFile` need no condition;
  the other theorems assume distinct owners. The invariant of the
  turns is `TurnsHoldTheLease` together with `CommandsMatch`, which says that a
  command at `save` or `write` is a turn exactly if it came there through the
  lease. `TurnsReleased` and `ArtifactsAreGuarded` follow from it and from what a command's
  outcome says about where it is. `LanesOnFile` needs more than the files: `FilesFit` says that every
  command's copy of the state, however old, names only a lane that is on file.
- `RuntimeObserverProofs`. `DaemonRunsCommands` says that every behaviour of the
  daemon and of the operators beside it is one of `RuntimeHarness`: `LoopSpec => Spec`
  with the identity as the mapping. `LoopFits` ties the daemon's place in its
  loop to its command's: outside a step it runs none, and at "execute" the command it has
  is a step that returned; with it every step of the loop is a step of a command or
  leaves files, lease and commands alone (`HarnessSteps`). What is proved
  of the commands is therefore true of the daemon: `DaemonKeepsPromise`,
  `DaemonTurnsReleased` (both for distinct owners) and `DaemonLanesOnFile`. So are the
  invariants `FilesInvariant` and `HeldInTurn` (until somebody dies a held lease is
  held by a turn); from the second `NoLeaseIsLeft` follows, for distinct owners, together
  with `LoopFits`. `DaemonsDrain` rests on `DrainFits`: a daemon that has executed a turn
  under a standing request has yet to look in the step it runs, or has seen the request,
  or the step failed; and after the second turn it has seen it, and leaves.
- `SessionLockProofs`, without hypotheses. `AlwaysGuarded` proves `Guarded`
  inductive until the first trespass: a lock on file has one session that knows
  its id, only that session rewrites or removes it, and an open file belongs to
  its opener. `MutualExclusion` and `OwnersOnly` follow. Anonymous releases are
  allowed: a session that acquired the lock always finds its own.
- `QueueSupervisorProofs`, for any dependencies, caps and weathers, with the merge
  queue, a refresh and every mishap beside the passes.
  `EarnedQuarantine` rests on `Remembered`: neither a running pass nor the report
  file counts more failures than there were in the last day, whatever files were
  lost and passes cancelled, and nothing is remembered between passes.
  `QueueTypes` rests on `Typed`, which adds to the types that a running refresh has a
  pull request and that the merge-sync of a pass works on the head of its plan
  (`OnTask`).
  `QueueAdmitsWithinCap` needs more than types, since a pass counts what is in
  flight once and then acts for minutes. `OnePlace` says that a pull request is
  armed, or in the queue once, or about to land in one of the two, or merged: so an auto-merge that enters the queue and an
  entry that is merged or ejected put nobody new in flight. `Budget` says that what is in
  flight, and counts, fits under the pass's cap together with everything still planned;
  plans only shrink, and `Sync` puts in flight only the head of the plan
  (`MergeSyncPlaces`). `Awaited` says that what counts before it shows is the one that the
  pass's merge-sync has just asked for, which `EndSync` leaves out. `Sparing`, the conjunction, is inductive.
  `QueueFollows` says that no plan has a pull request before one that it depends
  on, unless it waits for a cycle (`Knotted`): those `toTopoOrder` reports and puts last,
  by number. `QueuePlansFollowDependencies` is the property of the run, for
  dependencies without cycles. Both rest on `TopoOrderOrders`, which says what
  `toTopoOrder` returns: everything it was given, once, in such an order. `TopoOrder`
  is a recursive function on the sets of pull requests. That a function satisfies its
  equation (`OrderExists`), and what it returns, is proved by induction on finite
  sets in a form without an operator parameter (`SubsetInduction`): a set of
  subsets that contains every set all of whose proper subsets it contains, contains them
  all, for among those it lacks one would be minimal. The same induction gives the
  enumeration of a set of numbers in its order (`LeastFirstEnumerates`), and with
  it what `Without` returns.
- `ExecutionBundleProofs`, without hypotheses. `TypeCorrect` includes that
  records are well-formed. `LaneExclusion` is inductive with it. `RefusedHalvesAreUndone`
  starts from the refusal, not from the rollback: `RefusalsUndone` says that while a half is
  refused the command is about to report it or in the rollback for it, so it does not
  end before the rollback does; `CellUndo` and `LaneUndo` say that a rollback that has read,
  or written, finds the half released or another's; and `KnowsItsCell` that a grant
  knows the lease of the cell it was granted.
- `SafeGitProofs`, without hypotheses: any number of calls at once, listings that
  fail, kills allowed or not. `RunsAgainSafely` rests on `GitsFit`: while a call is
  not waiting, its own git is not at work, and a git that found a lock has changed
  nothing. `OrphansStopNobody` adds that whoever runs beside a call is noted
  (`met`), so that a listing that is not empty is. `LivingGitsKeepLocks`
  rests on `StrayFits`. Until something strays, a lock that a call has seen and not yet
  treated is still there; and where the call then listed no git, the git that
  made it is not at work. So a git at work has made a lock that no such call goes for, however
  many calls overlap and whatever unguarded gits come up.

Only model-checked is liveness under fairness (`CommandsReturn`, `StopsOnRequest`,
`BoundedRunsEnd`, `ScriptsEnd`, `ReadyLands`, `CallsReturn`), which is beyond the
prover. The properties of the four failing runs have no proofs because they do not
hold.

## 6. Not modelled

- *Session lock callers.* Their use of the lock is `SessionLock`; the rest is test
  orchestration around Pester.
- *Runner invoker.* Each request has a file and an id of its own, one server
  handles them one after the other, and the work is an external comparison. All
  that outlives a request is the gate file of the single comparison.
- *Runtime supervisor adapter, delivery agent, standing priority, develop
  synchronisation, portfolio and metadata.* Sequential programs around calls to
  GitHub and git. They decide by long tables over what they read and keep
  reports, hardly any state: a model of them would repeat the tables. Where they meet the
  modelled parts they appear as hooks that may answer anything (the daemon), as
  clients (the lease) or as the outside world (the queue).
- *The compare action.* Runs LabVIEW and formats reports.
- *The daemon's packet, heartbeat and receipt files*, which the loop writes and
  does not read.
