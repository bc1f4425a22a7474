------------------------------- MODULE Worker -------------------------------
(***************************************************************************)
(* The worker after boot (worker/worker.go): the HTTP control handler, the *)
(* scheduler loop of runSchedule, Halt, and the jobs of module MirrorJob   *)
(* they drive.  The three share the lock w.L, the schedule and the         *)
(* one-place ctrlChan of every job.                                        *)
(*                                                                         *)
(* Times are left out: the schedule is the set of jobs that have an entry  *)
(* (module ScheduleQueue has the times).                                   *)
(***************************************************************************)
EXTENDS MirrorJob

CONSTANTS
    Cmds,      \* the commands the manager sends
    MaxCmds,   \* how many it sends
    Patient,   \* whether commands and SIGTERM wait for the command before
    MayHalt,   \* whether SIGTERM may arrive
    NoJob      \* "no job"

\* start with the force option is "force".  "ping" stands for every command
\* that the second switch does nothing for.
CmdVerb == {"start", "force", "restart", "stop", "disable", "ping"}

ASSUME WorkerAssumption ==
    /\ Cmds \subseteq CmdVerb /\ MaxCmds \in Nat
    /\ Patient \in BOOLEAN /\ MayHalt \in BOOLEAN
    /\ NoJob \notin Jobs

VARIABLES
    L,         \* who holds w.L
    schedule,  \* the jobs with an entry in w.schedule
    hpc, hcmd, hjob, hchan,  \* the HTTP handler that holds L
    spc, smsg, sjob,         \* the goroutine of runSchedule
    mpc, hleft, hcur,        \* Halt, called by the signal goroutine
    exit,      \* w.exit is closed
    ncmds      \* the commands sent so far

httpVars == <<hpc, hcmd, hjob, hchan>>
schedVars == <<spc, smsg, sjob>>
haltVars == <<mpc, hleft, hcur, exit>>
workerVars == <<L, schedule, httpVars, schedVars, haltVars, ncmds>>
wVars == <<mjVars, workerVars>>

\* The first Run of every job that is not disabled has been launched by the
\* boot part of runSchedule, which also scheduled the active jobs.
WInit ==
    /\ QuietInit
    /\ state \in [Jobs -> {"none", "paused", "disabled"}]
    /\ disabled = [j \in Jobs |-> NoChan]
    /\ pc \in [Runs -> {"off", "launched"}]
    /\ \A j \in Jobs :
          Cardinality({g \in Runs : Job(g) = j /\ pc[g] = "launched"})
              = (IF state[j] = "disabled" THEN 0 ELSE 1)
    /\ L = "free"
    /\ schedule = {j \in Jobs : state[j] = "none"}
    /\ hpc = "idle" /\ hcmd = "none" /\ hjob = NoJob /\ hchan = NoChan
    /\ spc = "select" /\ smsg = NoMsg /\ sjob = NoJob
    /\ mpc = "idle" /\ hleft = {} /\ hcur = NoJob /\ exit = FALSE
    /\ ncmds = 0

-----------------------------------------------------------------------------
(***************************************************************************)
(* The HTTP handler, under w.L from beginning to end.                      *)
(***************************************************************************)

Ctrl == [start |-> "jobStart", force |-> "jobForceStart",
         restart |-> "jobRestart", stop |-> "jobStop",
         disable |-> "jobDisable"]

Starting == {"start", "force", "restart"}

\* A name is left for one more Run of j: bounds the model, not the code.
RunLeft(j) == \E g \in Runs : Job(g) = j /\ pc[g] = "off"

\* Lock, find the job and flush its schedule, "no matter what command".
HTTPCmd(j, cmd) ==
    /\ L = "free" /\ hpc = "idle"
    /\ cmd \in Starting => RunLeft(j) \/ state[j] # "disabled"
    /\ L' = "http"
    /\ schedule' = schedule \ {j}
    /\ hpc' = "branch" /\ hcmd' = cmd /\ hjob' = j
    /\ UNCHANGED <<mjVars, hchan, schedVars, haltVars>>

\* The handler returns and its deferred Unlock runs.
HTTPReturn ==
    /\ L' = "free"
    /\ hpc' = "idle" /\ hcmd' = "none" /\ hjob' = NoJob /\ hchan' = NoChan

\* Mutant: a paused job gets a second Run.
NeedsRun_Paused(j) == state[j] \in {"disabled", "paused"}

\* "if job disabled, start them first"
NeedsRun(j) == state[j] = "disabled"

\* Mutant: stop and disable always send.
Listening_Always(j) == TRUE

\* "if job is disabled, no goroutine would be there receiving this signal"
Listening(j) == state[j] # "disabled"

\* Both switches up to the send: the starting commands launch a Run where one
\* is needed, stop and disable are dropped where nobody listens, and ping does
\* nothing.
HTTPBranch ==
    /\ hpc = "branch"
    /\ \/ /\ hcmd \in Starting /\ NeedsRun(hjob)
          /\ \E g \in Runs : Job(g) = hjob /\ GoRun(g)
          /\ hpc' = "send"
          /\ UNCHANGED <<L, hcmd, hjob, hchan>>
       \/ /\ \/ hcmd \in Starting /\ ~NeedsRun(hjob)
             \/ hcmd \in {"stop", "disable"} /\ Listening(hjob)
          /\ hpc' = "send"
          /\ UNCHANGED <<L, hcmd, hjob, hchan, pc>>
       \/ /\ \/ hcmd = "ping"
             \/ hcmd \in {"stop", "disable"} /\ ~Listening(hjob)
          /\ HTTPReturn
          /\ UNCHANGED pc
    /\ UNCHANGED <<jobVars, bypass, runnerVars, chanVars, panicked, schedule,
                   schedVars, haltVars>>

\* Mutant: disableJob does not wait for the goroutine to finish.
HTTPSend_NoWait ==
    /\ hpc = "send"
    /\ SendCtrl(hjob, Ctrl[hcmd])
    /\ HTTPReturn
    /\ UNCHANGED <<schedule, schedVars, haltVars>>

\* job.ctrlChan <- ..., which blocks while the buffer is full.
HTTPSend ==
    /\ hpc = "send"
    /\ SendCtrl(hjob, Ctrl[hcmd])
    /\ \/ /\ hcmd = "disable"
          /\ hpc' = "eval"
          /\ UNCHANGED <<L, hcmd, hjob, hchan>>
       \/ hcmd # "disable" /\ HTTPReturn
    /\ UNCHANGED <<schedule, schedVars, haltVars>>

\* <-job.disabled reads the field once and then waits for that channel.
HTTPEval ==
    /\ hpc = "eval"
    /\ hchan' = disabled[hjob]
    /\ hpc' = "await"
    /\ UNCHANGED <<mjVars, L, schedule, hcmd, hjob, schedVars, haltVars>>

HTTPAwait ==
    /\ hpc = "await" /\ hchan \in closed
    /\ HTTPReturn
    /\ UNCHANGED <<mjVars, schedule, schedVars, haltVars>>

HTTPStep == HTTPBranch \/ HTTPSend \/ HTTPEval \/ HTTPAwait

-----------------------------------------------------------------------------
(***************************************************************************)
(* runSchedule: one goroutine, a select over managerChan, the tick and     *)
(* w.exit.                                                                 *)
(***************************************************************************)

SchedRecv ==
    /\ spc = "select" /\ ReceiveMsg
    /\ smsg' = Head(managerChan)
    /\ spc' = "lookup"
    /\ UNCHANGED <<L, schedule, sjob, httpVars, haltVars>>

\* w.L.Lock(); w.jobs[...]; w.L.Unlock()
SchedLookup ==
    /\ spc = "lookup" /\ L = "free"
    /\ spc' = "check"
    /\ UNCHANGED <<mjVars, L, schedule, smsg, sjob, httpVars, haltVars>>

\* Messages of jobs that are neither ready nor halting are dropped.
SchedCheck ==
    /\ spc = "check"
    /\ \/ /\ state[smsg.name] \in {"ready", "halting"}
          /\ spc' = "update"
          /\ UNCHANGED smsg
       \/ /\ state[smsg.name] \notin {"ready", "halting"}
          /\ spc' = "select"
          /\ smsg' = NoMsg
    /\ UNCHANGED <<mjVars, L, schedule, sjob, httpVars, haltVars>>

\* Mutant: only Success schedules the job again.
SchedUpdate_SuccessOnly ==
    /\ spc = "update"
    /\ schedule' = IF smsg.schedule /\ smsg.status = "Success"
                     THEN schedule \cup {smsg.name} ELSE schedule
    /\ spc' = "select" /\ smsg' = NoMsg
    /\ UNCHANGED <<mjVars, L, sjob, httpVars, haltVars>>

\* updateStatus posts to the manager, then AddJob.  The state is not looked
\* at again.
SchedUpdate ==
    /\ spc = "update"
    /\ schedule' = IF smsg.schedule THEN schedule \cup {smsg.name}
                                    ELSE schedule
    /\ spc' = "select" /\ smsg' = NoMsg
    /\ UNCHANGED <<mjVars, L, sjob, httpVars, haltVars>>

\* An entry is due an interval (minutes) after the last report of the run that
\* made it, when the control loop has long taken jobDone, and a worker that
\* halts is gone.  (What is left out is the tick that puts a jobStart in the
\* empty ctrlChan of a job that has halted.)
MayBeDue(j) ==
    /\ mpc = "idle" \/ \E g \in Runs : Job(g) = j /\ pc[g] # "off"
    /\ \A g \in Runs : ~ /\ Job(g) = j /\ pc[g] = "wait"
                          /\ rpc[g] \in {"return", "done"} /\ out[g] = NoMsg

\* A tick: w.schedule.Pop() ...
SchedPop(j) ==
    /\ spc = "select" /\ j \in schedule /\ MayBeDue(j)
    /\ schedule' = schedule \ {j}
    /\ sjob' = j
    /\ spc' = "push"
    /\ UNCHANGED <<mjVars, L, smsg, httpVars, haltVars>>

\* ... and job.ctrlChan <- jobStart, outside the lock.
SchedPush ==
    /\ spc = "push"
    /\ SendCtrl(sjob, "jobStart")
    /\ spc' = "select" /\ sjob' = NoJob
    /\ UNCHANGED <<L, schedule, smsg, httpVars, haltVars>>

SchedExit ==
    /\ spc = "select" /\ exit
    /\ spc' = "lock"
    /\ UNCHANGED <<mjVars, L, schedule, smsg, sjob, httpVars, haltVars>>

SchedLock ==
    /\ spc = "lock" /\ L = "free"
    /\ L' = "sched"
    /\ spc' = "flush"
    /\ UNCHANGED <<mjVars, schedule, smsg, sjob, httpVars, haltVars>>

\* Drain managerChan; when it is empty runSchedule returns and with it main:
\* the process is gone.
SchedFlush ==
    /\ spc = "flush"
    /\ \/ ReceiveMsg /\ UNCHANGED <<L, spc>>
       \/ managerChan = <<>> /\ spc' = "done" /\ L' = "free" /\ UNCHANGED mjVars
    /\ UNCHANGED <<schedule, smsg, sjob, httpVars, haltVars>>

SchedStep ==
    \/ SchedRecv \/ SchedLookup \/ SchedCheck \/ SchedUpdate \/ SchedPush
    \/ SchedExit \/ SchedLock \/ SchedFlush
    \/ \E j \in Jobs : SchedPop(j)

-----------------------------------------------------------------------------
(***************************************************************************)
(* Halt, called once.                                                      *)
(***************************************************************************)

HaltBegin ==
    /\ MayHalt /\ mpc = "idle" /\ L = "free"
    /\ L' = "main"
    /\ mpc' = "range" /\ hleft' = Jobs
    /\ UNCHANGED <<mjVars, schedule, httpVars, schedVars, hcur, exit>>

\* The loop over w.jobs, in any order.
HaltPick(j) ==
    /\ mpc = "range" /\ j \in hleft
    /\ hleft' = hleft \ {j}
    /\ \/ state[j] = "disabled" /\ UNCHANGED <<mpc, hcur>>
       \/ state[j] # "disabled" /\ mpc' = "send" /\ hcur' = j
    /\ UNCHANGED <<mjVars, L, schedule, httpVars, schedVars, exit>>

HaltSend ==
    /\ mpc = "send"
    /\ SendCtrl(hcur, "jobHalt")
    /\ mpc' = "range" /\ hcur' = NoJob
    /\ UNCHANGED <<L, schedule, httpVars, schedVars, hleft, exit>>

\* Mutant: Halt does not wait for jobsDone.
HaltWait_NoJoin ==
    /\ mpc = "range" /\ hleft = {}
    /\ L' = "free"
    /\ mpc' = "done" /\ exit' = TRUE
    /\ UNCHANGED <<mjVars, schedule, httpVars, schedVars, hleft, hcur>>

\* Mutant: w.exit is not closed.
HaltWait_NoClose ==
    /\ mpc = "range" /\ hleft = {}
    /\ \A g \in Runs : pc[g] \in {"off", "launched"}
    /\ L' = "free" /\ mpc' = "done"
    /\ UNCHANGED <<mjVars, schedule, httpVars, schedVars, hleft, hcur, exit>>

\* jobsDone.Wait() counts the Runs that have begun; then close(w.exit).
HaltWait ==
    /\ mpc = "range" /\ hleft = {}
    /\ \A g \in Runs : pc[g] \in {"off", "launched"}
    /\ L' = "free"
    /\ mpc' = "done" /\ exit' = TRUE
    /\ UNCHANGED <<mjVars, schedule, httpVars, schedVars, hleft, hcur>>

HaltStep == HaltSend \/ HaltWait \/ \E j \in Jobs : HaltPick(j)

-----------------------------------------------------------------------------

JobStep ==
    /\ \/ \E g \in Runs : LoopStep(g) \/ RunnerStep(g) \/ ProviderStep(g)
       \/ Release
    /\ UNCHANGED workerVars

Alive == ~panicked /\ spc # "done"

\* The Runs of j have begun and have taken the control message before.
Settled(j) ==
    \A g \in Runs : Job(g) = j /\ pc[g] # "off" =>
        pc[g] # "launched" /\ ctrlChan[j] = NoCtrl

\* The manager sends a command; a patient one waits for the job to settle, and
\* is not sent to a worker that halts.
Command(j, cmd) ==
    /\ ncmds < MaxCmds /\ ncmds' = ncmds + 1
    /\ Patient => Settled(j) /\ mpc = "idle"
    /\ HTTPCmd(j, cmd)

\* SIGTERM arrives; a patient one waits for the start of a disabled job.
Sigterm ==
    /\ Patient => \A j \in Jobs : state[j] = "disabled" => Settled(j)
    /\ HaltBegin

\* The process is gone; or nobody holds the lock, the scheduler is at its
\* select and there may be nothing to do.  (A worker that comes to a stop in
\* any other state is deadlocked.)
Rest ==
    /\ ~Alive \/ (L = "free" /\ spc = "select")
    /\ UNCHANGED wVars

WNext ==
    \/ /\ Alive
       /\ \/ JobStep
          \/ \E j \in Jobs, cmd \in Cmds : Command(j, cmd)
          \/ (HTTPStep \/ SchedStep \/ Sigterm \/ HaltStep) /\ UNCHANGED ncmds
    \/ Rest

WSpec == WInit /\ [][WNext]_wVars

(***************************************************************************)
(* Fairness.  Goroutines are scheduled (and exec, hooks, Terminate and     *)
(* posts to the manager return).  A Go select picks at random among the    *)
(* ready cases and a sync.Mutex starves nobody, so a case or a Lock that   *)
(* is possible again and again is taken (SF).                              *)
(***************************************************************************)
WFairness ==
    /\ \A g \in Runs :
          /\ WF_wVars(Alive /\ LoopStep(g) /\ UNCHANGED workerVars)
          /\ WF_wVars(Alive /\ RunnerStep(g) /\ UNCHANGED workerVars)
          /\ WF_wVars(Alive /\ ProviderStart(g) /\ UNCHANGED workerVars)
    /\ WF_wVars(Alive /\ Release /\ UNCHANGED workerVars)
    /\ WF_wVars(Alive /\ HTTPStep /\ UNCHANGED ncmds)
    /\ WF_wVars(Alive /\ SchedStep /\ UNCHANGED ncmds)
    /\ SF_wVars(Alive /\ (SchedLookup \/ SchedLock) /\ UNCHANGED ncmds)
    /\ SF_wVars(Alive /\ SchedRecv /\ UNCHANGED ncmds)
    /\ SF_wVars(Alive /\ SchedExit /\ UNCHANGED ncmds)
    /\ WF_wVars(Alive /\ HaltStep /\ UNCHANGED ncmds)

WFairSpec == WSpec /\ WFairness

-----------------------------------------------------------------------------
(***************************************************************************)
(* Properties.                                                             *)
(***************************************************************************)

\* The Runs of job j whose goroutine exists.
RunsOf(j) == {g \in Runs : Job(g) = j /\ pc[g] # "off"}

\* A job is never driven by two goroutines at a time: two Runs would take
\* turns at ctrlChan and close the same m.disabled twice.
OneRunPerJob == \A j \in Jobs : Cardinality(RunsOf(j)) <= 1

\* CmdDisable "disable the job (stops goroutine)": when the handler of a
\* disable returns, nothing of the job is left running.
DisableStops ==
    [][hcmd = "disable" /\ hcmd' = "none" =>
           \A g \in Runs : Job(g) = hjob =>
               pc'[g] = "off" /\ rpc'[g] = "none"]_wVars

\* managerChan is full, a run has a report to send, and the scheduler, which
\* alone empties it, waits for w.L with a message in hand or for a place in a
\* ctrlChan.
Clogged ==
    /\ Len(managerChan) = MsgCap
    /\ \E g \in Runs : out[g] # NoMsg
    /\ spc \in {"lookup", "push"}

\* A handler does not keep w.L for ever, the worker goes on answering: nothing
\* but a full managerChan can make it hang.
HandlerFinishes == (L = "http") ~> (L # "http" \/ ~Alive \/ []Clogged)

\* Once kill is closed the runner gives in, whatever it is doing, and Run gets
\* on: a stop, restart, disable or halt is eventually carried out, unless
\* managerChan is full for ever.
KillReturns ==
    \A g \in Runs : Killed(g) ~> (~Killed(g) \/ panicked \/ []Clogged)

\* Nothing is on its way to job j.
QuietFor(j) ==
    /\ hpc = "idle" /\ spc = "select" /\ managerChan = <<>> /\ mpc = "idle"
    /\ ctrlChan[j] = NoCtrl
    /\ \A g \in RunsOf(j) : pc[g] = "idle"

\* An active job (not paused or disabled by the operator) that has no run has
\* a next run in the schedule; otherwise nothing would ever start it again.
JobNotForgotten ==
    \A j \in Jobs : Alive /\ QuietFor(j) /\ state[j] \in {"none", "ready"} =>
        j \in schedule

\* jobsDone is there "to ensure all jobs are finished before worker exit":
\* when the process exits after Halt, no run is in progress.
HaltStopsAll == spc = "done" => \A g \in Runs : rpc[g] = "none"

\* "Halt stops all jobs": it comes to an end and the worker exits, unless the
\* runs have more to report than managerChan has room for and the scheduler
\* waits for the lock that Halt holds.
HaltExits == (mpc = "range") ~> (~Alive \/ []Clogged)

-----------------------------------------------------------------------------
(***************************************************************************)
(* Statements of the documentation that the code does not keep.  The       *)
(* README gives the constants under which TLC refutes each.                *)
(***************************************************************************)

\* The comment at CmdStop in the handler, "if job is disabled, no goroutine
\* would be there": between commands, a disabled job has no Run.
DisabledHasNoGoroutine ==
    \A j \in Jobs : hpc = "idle" /\ state[j] = "disabled" => RunsOf(j) = {}

\* "No matter what command, the existing job schedule should be flushed": a
\* job that stop has paused is not started by the scheduler's tick.
StoppedStaysStopped ==
    [][\A j \in Jobs : spc = "push" /\ sjob = j /\ spc' = "select" =>
           state[j] # "paused"]_wVars
=============================================================================
