# A TLA+ verification of tunasync

tunasync mirrors software archives. A *manager* keeps the status of all mirrors
in a key-value database and forwards operator commands; *workers* run the sync
jobs on a schedule, report to the manager, and obey commands over HTTP. This
directory models both in TLA+, checks the models with TLC on small instances
and proves the central properties with TLAPS for every instance.

`PROJECT.json` lists the components, the runs, the source lines behind every
definition (`map`), the mutants that show each property can fail, the findings,
the hazards and the theorems.

    tlc -config <cfg> MC<Module>     # any run
    tlapm <Module>Proofs.tla         # any proof

## 1. Inventory

| Component (source) | State | Operations | What is hard | What makes it correct |
|---|---|---|---|---|
| Mirror job (`worker/job.go`) | `state`, one-place `ctrlChan`, `disabled`; per run: kill, jobDone, bypass token; the shared `semaphore` and `managerChan` | `Run`, `runJob`, `runJobWrapper`, `runHooks` | three goroutines per run; selects; blocking sends; timeouts and kills; retries | the concurrency limit; joined runners; ordered reports; every run asks for the next; kills and commands are carried out |
| Schedule (`worker/schedule.go`) | a skip list by time, a set of names | `AddJob`, `Pop`, `Remove`, `GetJobs` | two structures kept in step; equal times | one entry per job; nothing lost; the earliest due job first |
| Worker (`worker/worker.go`) | `L`, `jobs`, `schedule`, `managerChan`, `exit` | HTTP handler, `runSchedule`, `Halt`, `disableJob` | handler, scheduler, Halt and jobs share a lock and three kinds of channels | one goroutine per job; disable stops it; no active job is forgotten; handlers and Halt end |
| Worker boot (`runSchedule`, first half) | as above | `fetchJobStatus`, two loops | a failing fetch; equal update times | each job launched once, active ones scheduled, disabled ones left alone |
| Reload (`worker/config_diff.go`, `ReloadMirrorConfig`) | `cfg.Mirrors`, `jobs` | `diffMirrorConfig`, delete/modify/add | a merge with sentinels; states carried over | the difference is exact; jobs follow the configuration and keep their state |
| Provider (`worker/*provider.go`, `runner.go`) | lock, `isRunning`, `cmd`, process | `Run`, `Start`, `Wait`, `Terminate` | a terminated try is left to itself while the next one begins; two stages | one process at a time; a try given up is killed |
| Hooks and context (`worker/*hook*.go`, `context.go`, `docker.go`) | context layers, log directory, `latest`, snapshot | seven hooks at five stages | any of them fails half-way through a run | layers balance; each try has its log; logs bounded; snapshots are of synced mirrors |
| Control group (`worker/cgroup.go`, `cmdJob.Start` in `runner.go`) | base group, group of the job, pipe, child | `initCgroup`, `preExec`, `killAll`, `postExec`, the re-exec handshake | processes fork while they are moved or killed; the worker dies between two steps | a command runs in its group or not at all; nobody waits for ever; what a command started does not outlive the try; the base group is emptied |
| Manager (`manager/server.go`, `db.go`) | worker and status buckets, `rwmu` | eight handlers | read, compute, write back in separate lock sections | no lost status; times in order; no resurrected worker |
| Worker process (`cmd/tunasync`, `LoadConfig` in `worker/config.go`) | the signal channel, the files, `cfg.Mirrors` | SIGHUP, SIGTERM, `LoadConfig`, `recursiveMirrors` | signals coalesce, and come while the worker boots; files change while they are read; nested entries inherit; reload and Halt wait for jobs under `w.L` | the last configuration is the one in force; SIGTERM ends the worker |
| Client (`cmd/tunasynctl`) | none | commands to the manager | reports and commands cross; either side dies | what the client was told, what is stored and what runs agree |

The manager talks to a worker by HTTP POST (commands); a worker to the manager
by POST (registration, status, schedules) and GET (status at boot). Inside the
worker everything goes through `w.L`, `ctrlChan` (one place per job),
`managerChan` (32 places) and the semaphore.

Not modelled, and why: TOML, flags, JSON and TLS utilities, size and log-file
scanning (parsing and I/O, no state of their own); the listings of the manager
and of `tunasynctl` (they only read); the four database backends (each operation
a call into a library, taken as atomic and durable); the calls inside the cgroup
libraries; fields of a mirror that are maps (`env`), which `mergo` merges into
the map that the copy of the parent shares with it; several managers per worker;
`docker stop` in `Terminate`; the log descriptor shared by two tries; two mirrors
in one log directory; reuse of process ids.

## 2. Modules

`MirrorJob` - one action per blocking point of `Run` (`Begin`, `LoopTop`,
`JobDone`, `WaitCtrl`, `Reap`, `IdleCtrl`), of the runner (`Acquire`,
`BypassSemaphore`, `KilledWaiting`, `Send`, `PreJobHooks`, `PreExecHooks`,
`AwaitStarted`, `AwaitSync`, `Timeout`, `Terminate`, `PostHooks`, `Return`) and
of the provider goroutine. What belongs to the `mirrorJob` struct is indexed by
jobs, what belongs to a call of `Run` by runs, because the program can have two
calls for one job. A send to `managerChan` is an action of its own that is
enabled when there is room; the message, with its schedule flag, is computed
before. `Release` is the deferred `<-semaphore`, which runs after `jobDone` is
closed.

`Worker` EXTENDS `MirrorJob` and adds the three users of `w.L`: the HTTP handler
(`HTTPCmd`, `HTTPBranch`, `HTTPSend`, `HTTPEval`, `HTTPAwait`), the scheduler
(`SchedRecv`, `SchedLookup`, `SchedCheck`, `SchedUpdate`, `SchedPop`,
`SchedPush`, and after exit `SchedLock` and `SchedFlush`) and `Halt`
(`HaltBegin`, `HaltPick`, `HaltSend`, `HaltWait`). Times are abstracted: the
schedule is the set of jobs with an entry, and an entry may be due at any moment
but one (`MayBeDue`): not between the last report of a run and the `jobDone`
that follows it, because the entry made from that report is due an interval
(minutes) later, and for the same reason not after a halting worker has lost the
job's last Run. `Patient` says whether a command waits until a Run launched by
the previous one has begun and taken its message, whether none is sent to a
worker that is halting, and whether SIGTERM waits for the start of a disabled
job. It is an assumption about operators that the passing runs make; with
`Patient = FALSE` the model shows what goes wrong without it.

`Schedule` is the abstract schedule (a next time per job); `ScheduleQueue` the
skip list with the name set, and a refinement mapping `NextTime`; `WorkerBoot`
EXTENDS `ScheduleQueue` with the boot part of `runSchedule`.

`Provider` models up to `MaxTries` tries of one provider, each with its own
goroutine, up to two `cmdJob`s per try and their processes. `stages`, chosen
from `Kinds` and never changed, is 1 for the cmd and the rsync provider and 2
for two-stage rsync. A process may ignore SIGTERM, and may exit at any moment.

`Cgroup` EXTENDS `Provider`: the step `Exec` of a try becomes `Fork`, `AddProc`
and `Cont` of `cmdJob.Start`, with the child (`WaitExec`) on the other end of the
pipe, and the hook is called around every try (`PreExec`, `PostExec`,
`ListTasks`, `KillTask`, `NextRound`, `DeleteGroup`). Commands start other
processes (`Kids`), which inherit the group. `Load`, `ReadProcs`, `MoveProc`,
`AddStep` and `MoveDone` are `initCgroup`, next to processes that fork and exit,
for the v1 hierarchy with a base group per subsystem and for the unified one
(`isUnified`). A list that cannot be read (`ListUnreadable`) makes the unified
branch return the error; the v1 branch shadows `err` (`cgroup.go:196` and `231`)
and returns nil. `left` and `unread` keep what it left behind.
`Crash` is the death of the worker: its goroutines and pipe ends go, processes
and groups stay. `Abs` maps the handshake back to `Provider`: a process counts
from the moment its pipe says it may go on (`AbsProc`), and while `Start` is
under way `cmd` is still the one before (`AbsCmd`).

`Hooks` follows one runner through `MaxRuns` runs and calls the hooks one by
one, in the order of `newMirrorProvider` (reversed for the post stages). A log
file is the minute in its name and the set of tries whose output it holds. The
calls in `Mishaps` may fail; `SameMinute` says whether a run may begin in the
minute of the newest log file. The branch for a log file `/dev/null` is left
out, since `newMirrorProvider` never sets one.

`Reload` has a configuration as a set of mirrors with distinct names; `Begin`
takes a list of each in the order of names, which is what `sort.Sort` makes of
it, the merge of `diffMirrorConfig` is one step per iteration, and then come the
operations one by one. Jobs start out in every state they can be in between
commands; `disableJob` is one step. It is about a worker that has booted and a
reload that completes; `Daemon` has the others.

`Manager` splits every handler at its lock sections: a section under `Lock` is
one step, `RefreshWorker` under `RLock` two. Requests overlap in `Threads`
goroutines; `Restart` loses the goroutines and keeps the database.

`System` EXTENDS `Worker` and INSTANCEs `Manager` for one worker: the requests of
the scheduler goroutine (`RegisterWorker`, `UpdateStatus`, `UpdateSchedInfo`, and
the steps that receive the answers) are served by the manager's goroutines
`Reporters`, the commands of clients by `Clients`, which post them to the
worker's HTTP server (`Deliver`, `Take`, `Handle`, `Delivered`). `Boot` sets the
jobs from what the manager stores; `Crash` is the death and restart of the
worker. `told` is what `tunasynctl` prints. Time stands still. The manager waits
for the worker's answer to a command for as long as it takes: the limit of 5
seconds on its post (`util.go:78`), after which the client is told of an error
while the worker still handles the command, is left out. The worker ends by
`Crash` only: `Halt` and the flush of the reports that follows it
(`worker.go:364`-`382`) are part of `Worker`, not of `System`.

`Daemon` is the worker process: the operator edits files and sends signals, the
signal goroutine (`Listen`, `Receive`, `DecodeFile`, `LoadFails`,
`ReloadMirrorConfig`, `Halt`) works them off, and the main goroutine registers the
worker, sets up the jobs (`Boot`) and leaves `Run` (`Return`). A reload and `Halt`
wait for jobs under `w.L`, and here each completes in one step or hangs
(`ReloadHangs`, `HaltHangs`; `spc = "stuck"`), with `w.L` out of the main
goroutine's reach. `begun` holds the mirrors whose job can be disabled: a reload
that has to disable another, as every one before the boot that deletes or
modifies a mirror, can only hang. A file is
the list of its mirror entries in order, each with the index of its parent;
`recursiveMirrors` gives the settings of every entry. `mergo.Merge` is external:
a non-empty field overrides.

`MC*` modules give the constants that a cfg cannot write down.

## 3. Runs

Passing:

| Run | Instance | Shows |
|---|---|---|
| `job` | 2 jobs, 1 slot, 2 tries, starts and force starts | `SemaphoreLimit`, `RunReschedules`, `ReportOrder` |
| `boot` | 2 jobs and a stranger in the stored list, boot and then any use of the queue, times 0..5, distinct | `ActiveJobsScheduled`, `OneRunEach`; `OneEntryPerJob`, `NothingLost` and the refinement `ImplementsSchedule` |
| `worker_commands` | 1 job, 4 restarts, stops and disables, 2 names for Runs | `OneRunPerJob`, `JobNotForgotten`, `NoOrphanRunner`, `DisableStops`, no deadlock |
| `worker_live` | 1 job, 2 tries, a `managerChan` of 2 places, one command of each other kind, SIGTERM, `Terminate` may fail, fair | `HandlerFinishes`, `HaltExits`, `KillReturns` (liveness; or `managerChan` is full for ever), `HaltStopsAll` |
| `provider` | 2 tries of a one-stage or a two-stage provider, fair | `SingleProcess`, `GivenUpIsKilled` (liveness), `ErrorMeansDead` for one stage; `StagesInOrder` for two |
| `cgroup` | 2 tries of a one-stage provider, 2 subsystems or the unified hierarchy, 2 processes in the base group, 2 descendants, 1 death of the worker, fair | `Contained`, `BaseLeftEmpty`, `StartHasGroup`, `HandshakeEnds` and `KidsDie` (liveness), the refinement `ImplementsProvider` |
| `system` | 1 job, 1 command, 1 manager goroutine for the worker and 1 for clients, any number of deaths of the worker, any stored status | `QuietAgreement`, `RunningShown` |
| `daemon` | from registration on: 2 edits, 3 SIGHUPs, 1 SIGTERM; nested and included files, broken ones among them; fair | `LatestLoaded`, `TermEndsWorker` (liveness) |
| `reload` | 2 reloads over 3 names and 2 settings | `DiffIsDifference`, `ReloadKeepsStates`, `JobsMatchConfig` |
| `manager` | 2 overlapping handlers, every kind of request, restarts | `TimesOrdered`, `NoResurrection` |
| `hooks` | 3 runs of 2 tries, mishaps anywhere | `NeverBelowBottom`, `LogFileOfTry`, `LogIsOwn`, `LogDirKept`, `SnapshotIsSynced` |

`worker_live` does not check for deadlock, so that a handler that hangs with
`w.L` shows as a violation of `HandlerFinishes`; `worker_commands` does. In
`worker_live` the deadlock over a full `managerChan` does happen: the three
liveness properties say that it is the only way to hang (`[]Clogged`), and each is
violated without that alternative (below).

One run ends in a violation, a disagreement between the code and a comment of the
repository (quote in `PROJECT.json`, `findings`): `system_disable`. A schedule
report that read the status before a disable writes it back afterwards. The
worker has disabled the job, the client was told so, and the manager stores the
old status, from which the next boot starts the job again.

### Further disagreements

The models reach these too. They are not kept as runs; each is found by putting
the statement into the named cfg in place of its properties, with the changes
given.

| Statement (module) | cfg and changes | What TLC shows |
|---|---|---|
| `StartedOrError` (`MirrorJob`), for `job.go:166` "Wait until provider started or error happened" | `MirrorJob` | a provider that succeeds at once is taken for a failed start; `err.Error()` on nil (`job.go:168`) panics |
| `SyncingIsAnswered` (`MirrorJob`), for `README.md` "Job Run Process" | `MirrorJob` | when `Terminate` fails (`job.go:193`) the run ends with Syncing as its last report, no hooks and no request for scheduling |
| `ForceIsForOneRun` (`MirrorJob`), for `job.go:24` | `MirrorJob` | a force start of a job that holds a slot leaves its token (`job.go:288`) for the next plain start |
| `ActiveJobsScheduled` (`WorkerBoot`), for `worker.go:282` "put it on the scheduled time" | `WorkerBoot_distinct`, `BootSpec` | equal stored times, as of two mirrors that never succeeded, share a key of the skip list (`schedule.go:58`) and a job is lost |
| `DisabledIgnored` (`WorkerBoot`), for `worker.go:284` "if it's disabled, ignore it" | `WorkerBoot_distinct` | when the status cannot be fetched (`worker.go:482`), jobs stored as disabled are launched |
| `JobNotForgotten` (`Worker`), for `msg.go:49` "CmdStart start a job" | `Worker_commands`, `Cmds = {"start"}` | a start that arrives as a run ends flushes the schedule (`worker.go:215`), is consumed without starting anything, and the job is forgotten |
| `JobNotForgotten` (`Worker`), for `msg.go:57` | `Worker_commands`, `Cmds = {"ping"}` | a ping flushes the schedule (`worker.go:215`) and nothing puts the job back |
| `DisabledHasNoGoroutine` (`Worker`), for `worker.go:234` | `Worker_commands`, `Cmds = {"start", "disable"}`, `Patient = FALSE`, no deadlock check | a disable right after a start of a disabled job is dropped (`worker.go:169`) |
| `StoppedStaysStopped` (`Worker`), for `worker.go:213` | `Worker_commands`, `Cmds = {"stop"}` | a job popped by the tick before a stop is sent `jobStart` after it (`worker.go:362`) |
| `HaltExits`, `HandlerFinishes` or `KillReturns` without `[]Clogged` (`Worker`), for `worker.go:75` "Halt stops all jobs" | `Worker_live` | Halt, or the handler of a disable, holds `w.L`, the scheduler waits for it with a message in hand, `managerChan` is full and the runner that Halt waits for never ends (`worker.go:84`, `171`) |
| `HaltStopsAll` (`Worker`), for `job.go:47` | `Worker_commands`, `Cmds = {"start"}`, `MayHalt = TRUE`, `Patient = FALSE`, no deadlock check | Halt skips a job that is still Disabled although a Run was launched for it, and the process exits under the run (`worker.go:80`) |
| `SingleProcess` without `stages = 1` (`Provider`), for `two_stage_rsync_provider.go:166` | `Provider` | between its stages a Run has the lock open and `isRunning` false; the next try gets in, and the old Run starts its second stage beside it |
| `GivenUpIsKilled` without `stages = 1`, for both stages (`Provider`), for `job.go:173` | `Provider`, `MaxTries = 1` | a `Terminate` between the stages finds nothing running, and the deleting stage starts after it |
| `StagesInOrder` without `try = 1`, for every try (`Provider`) | `Provider` | `Wait` reads `p.cmd` outside the lock (`base_provider.go:164`): a try waits for the command of another and starts its second stage while its own first one runs |
| `DisabledSticks` (`Manager`), for `server.go:444` | `Manager` | the same as `system_disable`, inside the manager alone, for a disable that overlaps a schedule report |
| `KnownSizeKept` (`Manager`), for `server.go:395` | `Manager`, with a success of a known size among the requests | the condition of `updateMirrorSize` (`server.go:396`) is true of every string |
| `OnlySuccessMovesLastUpdate` (`Manager`), for `server.go:331` | `Manager` | a command that read the status before a success (`server.go:460`) writes it back and undoes `last_update` |
| `ContextRestored` (`Hooks`), for `context.go:9` | `Hooks` | a failing hook or `Terminate` ends the run before the log limiter leaves its layer, which stays for good |
| `LogIsOwn` (`Hooks`), for `loglimit_test.go:88` | `Hooks`, `Mishaps = {}`, `SameMinute = TRUE` | a second run in the minute of a successful one reopens its log file without truncating it (`base_provider.go:133`) |
| `StartHasGroup` without `stages = 1` (`Cgroup`) | `Cgroup`, `Kinds = {2}` | a kill between the stages lets `postExec` set the manager of the group to nil (`cgroup.go:311`), and the second `Start` dereferences it (`runner.go:143`): the worker panics |
| `SingleProcess` (`Cgroup`), for `cmd_provider.go:122` | `Cgroup`, with a death of the worker | the restarted worker starts a try beside the command that the dead one left behind: only `postExec` of that try kills the old group |
| `BaseLeftEmpty` without its exception (`=> ~left'`; `Cgroup`), for `cgroup.go:186` "move all processes into it" | `Cgroup` | a process list of the v1 hierarchy that cannot be read is logged as an error, but the `err` returned at `cgroup.go:201` and `236` is that of the path, nil: the worker goes on (`worker.go:57`) with processes in its base group |
| `QuietAgreement` (`System`), for `server.go:444` | `System`, `ServerRace = TRUE` | the HTTP server is started beside the boot (`worker.go:71`): a command handled before the boot, or refused after the manager has stored it, is not carried out |
| `QuietAgreement` (`System`) | `System`, `Reporters = {p1, p2}` | a handler of a request that the worker made before it died writes a stale record back after the restart; with `Timeouts = TRUE` also one that the worker did not wait for, and a registration that timed out makes the fetch fail |
| `QuietAgreement` (`System`) | `System`, `MaxCmds = 3` | a schedule report that read "disabled" writes it back (`server.go:292`) after the job has been started and stopped again: stored disabled, in fact paused. `StoppedAgreement` holds: the job does not run |
| no deadlock (`System`) | `System` without `Crash`, `MaxCmds = 2`, `MsgCap = 2` | the handler of a disable holds `w.L`, the scheduler waits for it with a message in hand, and `managerChan` is full (`worker.go:171`) |
| `TermEndsWorker` without `spc = "stuck"` (`Daemon`) | `Daemon` | a SIGHUP while `registerWorker` still retries, for files in which a mirror is gone or changed, waits on the nil `disabled` of a job without a Run (`worker.go:171`, `job.go:99`) with `w.L` in hand; a SIGTERM after it is never taken from the channel |
| `~panicked` (`Daemon`), for `worker.go:75` | `Daemon`, `MaxTerms = 2` | a SIGTERM during Halt makes the signal goroutine call it again, and `w.exit` is closed twice (`worker.go:87`) |
| `(terms = 1) ~> ~Alive` (`Daemon`) | `Daemon` | a SIGTERM that finds a SIGHUP waiting in the channel of one place is dropped (`tunasync.go:85`), and one in the first second kills the process with its jobs (`tunasync.go:84`) |

### Bounds and why they are enough

- Jobs share only the semaphore and `managerChan`, so two jobs and one slot show
  every way of sharing; the limit is proved for any number. Two tries tell a
  first, a middle (retry follows) and a last one apart.
- `Worker`: four commands reach every pair of commands, with others before or
  after it; two Runs per job are what `OneRunPerJob` needs to fail.
  `worker_commands` leaves out `start`, `force` and `ping`, for which
  `JobNotForgotten` is false, and failures of `Terminate`, after which a run
  asks for no other. `MsgCap` is the buffer of 32. In `worker_commands`
  and `system` it holds all reports that can be waiting; in `worker_live` two
  tries have more to report than its two places hold, and Halt can hang (above). In
  the code this is reached when the jobs still have 33 reports between them to send
  during a Halt: with `j` jobs in progress and `r` tries the bound is
  `j * (2r + 1) <= 33`.
- `Hooks`: `Keep = 2` stands for the 9 files kept; three runs of two tries make
  six files, so removal happens more than once.
- `Provider`: two tries are what it takes for one to meet what another left
  behind; for one stage the safety properties are proved for any number.
- `Manager`: overlapping of two handlers is what a read-compute-write needs to
  go wrong; the clock bounds only how often time advances.
- `WorkerBoot`: two jobs are what a collision takes; the times leave room for
  entries before, at and after the present.
- `Cgroup`: two descendants make the third round of `killAll` necessary and the
  three rounds suffice for them, so `KidsDie` says nothing of commands that start
  more: `killAll` gives up then (`cgroup.go:362`) and processes survive; two
  subsystems tell a process that is moved in one from one moved in all; one death
  of the worker suffices to leave a child at every point of the handshake.
- `System`: the interesting overlaps are of a command with the report of one job, so
  one job and one command; two commands, so that one can undo the other while the
  report of the first is under way, give 3.9 million states and no violation. The
  limits for any number of jobs and commands are those of the theorems (section 4).
  The worker may die any number of times, at any point. It makes one request at a
  time, so one goroutine of the manager serves it, which assumes that the manager is
  done with a request before a dead worker is back (above for what happens
  otherwise). `SysInit` starts from every status that an earlier life can have
  left. Since `Crash` is always possible, a deadlock of the worker is looked for in
  `worker_commands`.
- `Daemon`: two edits and three SIGHUPs let one signal be worked on, one wait and
  one be dropped, with a file changed between the reads of the other, before or
  after the boot; the files
  have three levels and a mirror after a nested group.
- `Reload`: three names give every position of an added, deleted and modified
  mirror relative to the others, and both lists empty.

### Fairness

`WFairSpec` assumes that a goroutine that can take a step takes one, that hooks,
`exec`, `Terminate` and posts to the manager return (they have timeouts or are
local), and nothing about how long a sync takes or that an operator does
anything. A Go `select` chooses at random among the ready cases and a
`sync.Mutex` starves nobody, so a receive, an exit or a Lock that is possible
again and again is eventually taken (SF). `ProviderFairSpec` assumes the same of
the goroutines of a provider and lets a process that got SIGKILL die; a process
need not exit of itself or on SIGTERM. `CgFairSpec` adds the child that reads
its pipe to the end. `DaemonSpec` assumes that the two goroutines of the process
are scheduled and that requests to the manager time out, so that the boot comes,
unless someone keeps `w.L`; not that a reload or Halt completes, and nothing about
the operator.

## 4. Proofs

All for arbitrary constants, under the named assumptions of the modules (finite
set of Runs, positive retry count and buffer, distinct null values, times and
requests of their types; in `System` a finite set of jobs, the commands start, stop
and disable, and separate goroutines for the worker and for clients).

- `WorkerProofs`, part 1, about `MirrorJob`: `TypeCorrect`, `LimitRespected`, `RunnersJoined`. The
  invariant `MJInv` adds to the types the count of tokens (`TokenCount`: tokens
  in the semaphore = runners that hold one + finished runners that have yet to
  hand theirs back, without which `Release` could underflow) and where a runner
  exists (`QuietRunner`, `Joined`). `ReportsInOrder` relates the last report
  and the one about to be sent to the runner's program counter (`OrderInv`);
  `RunsAskAgain` needs `RescheduleInv`: with one Run per job the state stays ready
  until the loop leaves its wait, so the flag computed early is still right.
- `WorkerProofs`, part 2, about `Worker`, for any number of jobs, Runs and
  commands and with or without a SIGTERM; `MJInv` carries over because every
  step of a job, and `go job.Run()`, is a step of `MirrorJob`. The theorems
  assume `Patient` (section 2); without it `HaltStopsAll`, for one, is false
  (section 3). `ControlInv` says who may be where: who holds the lock
  (`LockInv`), that a Run that has begun owns the open channel in `m.disabled`
  (`OwnChan`), that a Run of a disabled job is on its way out with the handler
  waiting for it, or on its way in with a starting message before it
  (`DisabledInv`), which messages may be under way (`PendingInv`), what the
  handler may rely on while the job goes on (`HandlerInv`) and what is left of
  the jobs during `Halt` (`HaltInv`). `OneRun`, `DisableCompletes`,
  `HaltComplete` and `WorkerRunnersJoined` follow. `NotForgotten` needs in
  addition that a job which is to run again is in the schedule, or that someone
  is on the way to put it there: its run, a report that asks for it, the
  scheduler between receive and `AddJob`, or a command under way (`Remembered`).
  It is about restart, stop and disable, and a `Terminate` that does not fail:
  the other commands take the job out of the schedule too, but `ping` does
  nothing else and a run that is just ending may swallow the `jobStart` of
  `start` and `force` (section 3); a failed `Terminate` ends a run without a
  report.
- `ScheduleQueueProofs`: `QueueConsistent`, then, for distinct times, the
  refinement `QueueImplementsSchedule` step by step and `QueueLosesNothing`. For the
  boot (`WorkerBoot`), any jobs and any stored list that gives jobs distinct times:
  the queue holds the jobs met so far at their stored times (`StoredTimes`), so no
  `AddJob` of the boot hits another one's entry, `DistinctBootSpec` implies
  `DistinctSpec` (`BootKeepsTimesApart`) and all that is proved of the queue applies;
  with `Met`, the account of the jobs met and not met, `BootSchedules` and
  `BootLaunchesOnce` follow.
- `ManagerProofs`: `TypesKept`; `TimesInOrder`, where the copies that handlers
  carry between sections must be ordered too; `NoWorkerResurrected`, where a
  goroutine between the halves of `RefreshWorker` holds the read lock and so its
  worker cannot be deleted.

- `HooksProofs`, for any hooks, number of files kept, runs, tries and mishaps.
  Runs that broke off leave layers behind, so nothing can be said of the depth
  of the context; `LayersOfTry` says what the topmost one or two layers are while
  the log limiter is between its calls (`InTry`, `Mounted`), which is all that the
  log file and the volumes are read from. With it go `NamesDistinct`, `DirBounded`
  (a try that has not opened its log has room for it), `LatestThere`, `LogsOlder`
  (without runs in the same minute, all other successful logs are of earlier
  minutes) and `WorkSynced`. `LogOfOneTry` assumes `~SameMinute`; with it the
  statement is false (above).
- `CgroupProofs`, for any number of subsystems, processes, tries and deaths of the
  worker. First `Provider` alone, with one stage: the owner of `cmd` is the only
  goroutine past the check of `isRunning`, and every process that is alive belongs to
  it (`ProviderInvariant`); `OneProcess` and `TerminateErrorIsHarmless` follow. For two
  stages these statements are false (section 3). `SecondStageLast` is about both kinds:
  as long as there is no second try, `cmd` and the cmdJob waited for are those of the
  goroutine's stage (`FirstTryAlone`), which is what the result that decides on the
  second stage is read from. Then `Cgroup`: `BaseGroupEmptied` rests on the
  groups already passed being and staying empty (`BaseInv`), for both hierarchies;
  `unread` tells the return over an unreadable v1 list from the others.
  `CommandsContained` needs
  where a child is at every point of the handshake (`InStart`, `InGroup`) and holds
  for both kinds of providers. `StartFindsGroup` needs that the runner waits for
  a goroutine that has not started its process (`RunnerWaits`), which only a
  one-stage provider guarantees. `HandshakeIsExec` is the refinement, step by
  step, under `ImplInv`: at most one `Start` at a time, under the lock; the only
  process alive is that of the current try; and `cmd` is the one made last.
- `ReloadProofs`, for any number of names, settings and reloads. The merge
  (`Merging`): what has been passed in one list is before what is next in the
  other and both lists end together (`Cursors`, the reason for the tail node), and
  the operations are the part of the difference whose names have been passed
  (`DiffOfPassed`). This needs no induction over lists because every iteration is a
  step. The loops (`Applying`): every operation applied so far has had its effect,
  and a job that none has named is as it was; each name has one operation
  (`OneOpEach`), so the order does not matter. `EveryConfigurationSorted`, an
  induction on the greatest name, says that the step into the merge is possible for
  every two configurations, so that none is left out of the theorems.
- `DaemonProofs`, for files of any length and depth and any number of edits and
  signals. `MirrorsAsWritten` is about data: that `recursiveMirrors` and `Lineage`
  have solutions, and that the first computes what the second describes, is shown
  by the least entry for which it would fail (`Least`, from the well-foundedness of
  the naturals), as parents come before their children (`WellFormed`). `FilesLoaded`
  adds `UpToDate`: without an edit since the last SIGHUP, without a signal
  waiting and unless a reload hangs, what has been read so far is what the files
  hold now.

- `SystemProofs`, on top of `WorkerProofs`, for any jobs, Runs, clients, commands
  and deaths of the worker: `StoredStopsHold` (`StoppedAgreement`, which
  no run is kept for: with one command it follows from `QuietAgreement`), `SyncIsShown`
  (`RunningShown`), `StoredStatesHold` (`QuietAgreement`) and `OneRunInSystem`.
  - They assume `Serial`: `Patient` commands; a worker whose HTTP server is up when
    the boot reads the stored statuses, that gives up no request, and whose
    requests are served one after the other, also across a restart. Section 3 shows
    `QuietAgreement` violated without each of the last three. `StoredStatesHold`
    also assumes `Unmixed`: at most one command, or not both starts and stops.
    Without that it is false (section 3); `StoredStopsHold` does without.
  - `BaseInv` says where everything is: `Worker`'s invariant `WInv` holds from the
    boot to the next death and no goroutine of a job exists before (`WorkerInv`);
    what a handler of the manager has computed at each point (`ReporterInv`,
    `ClientInv`), where a posted command is (`PostInv`), and what the worker knows of
    its own request (`LinkInv`).
  - What the manager stores is not enough to reason about, because a schedule report
    writes back what it read before. `Copies` is the stored record together with
    the one that may be written back; the invariants speak of all of them.
    `StopInv`: if a copy says paused or disabled, the job is stopped, or a stop or
    disable is still to reach its control loop (`Due`), or the job runs again and
    a report that will say so is to come (`ReportDue`). `ShowInv`: if a provider
    works, every copy says syncing, or the last report not yet stored does, or a stop
    is due. Each action moves a command, a report or a copy one place further. A
    message or command leaves the chain only when its effect is there.
  - `DisableInv` is `StopInv` for disabled alone. A paused job may become disabled but
    a disabled one must not become paused while a copy says disabled, so `VerbInv`
    adds which kind of command is over: no stop is to come, or no start is, or none
    has been given.

Only model-checked: the liveness properties, because the prover does not do
fairness or ENABLED. `system_disable` is about a statement that is false.

## 5. Plan

Done: a module for every component with state of its own, the compositions
`Worker` (jobs, scheduler, handler), `WorkerBoot` (boot and queue), `Cgroup`
(provider, hook, child) and `System` (worker and manager), and proofs of every
safety property that a passing run checks.

Next: the log descriptor shared by an abandoned try and the next in `Provider`; two
mirrors in one log directory in `Hooks`; `docker stop` in `Terminate`.
