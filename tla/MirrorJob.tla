------------------------------ MODULE MirrorJob ------------------------------
(***************************************************************************)
(* The workflow of mirror jobs (worker/job.go).                            *)
(*                                                                         *)
(* A job is driven by one call of mirrorJob.Run, a goroutine that loops    *)
(* over control messages; every pass through the loop with the job ready   *)
(* spawns a runner goroutine (runJob and runJobWrapper), which in turn     *)
(* spawns one provider goroutine per try.  All jobs share the semaphore    *)
(* channel and managerChan.                                                *)
(*                                                                         *)
(* Runs are the Run goroutines; JobOf says which job each one drives.  Two *)
(* Runs of one job are possible in the program (see the Worker module), so *)
(* what belongs to the mirrorJob struct is indexed by Jobs and what        *)
(* belongs to a call of Run by Runs.                                       *)
(*                                                                         *)
(* The environment launches Runs, puts control messages in ctrlChan and    *)
(* drains managerChan, as worker.go and job_test.go do.                    *)
(***************************************************************************)
EXTENDS Naturals, Sequences, FiniteSets

CONSTANTS
    Jobs,        \* the mirror jobs
    Runs,        \* identities for the calls of Run
    JobOf,       \* JobOf[g]: the job that Run g drives
    Concurrent,  \* capacity of the semaphore channel
    Retry,       \* provider.Retry()
    MsgCap,      \* capacity of managerChan
    EnvCtrl,     \* the control messages the environment sends
    TermErrors,  \* whether provider.Terminate() may return an error
    NoMsg,       \* "no jobMessage"
    NoChan       \* the nil channel

CtrlAction == {"jobStart", "jobStop", "jobDisable", "jobRestart", "jobHalt",
               "jobForceStart"}

NoCtrl == "noCtrl"

JobState == {"none", "ready", "paused", "disabled", "halting"}

jobMessage == [status : {"PreSyncing", "Syncing", "Success", "Failed"},
               name : Jobs, schedule : BOOLEAN]

ASSUME RunsAssumption == IsFiniteSet(Runs) /\ JobOf \in [Runs -> Jobs]
ASSUME BoundAssumption ==
    Concurrent \in Nat /\ Retry \in Nat \ {0} /\ MsgCap \in Nat \ {0}
ASSUME EnvAssumption == EnvCtrl \subseteq CtrlAction /\ TermErrors \in BOOLEAN
ASSUME NullAssumption == NoMsg \notin jobMessage /\ NoChan \notin Runs

VARIABLES
    \* fields of mirrorJob
    state,       \* state[j]
    ctrlChan,    \* ctrlChan[j]: the one-place buffer, or NoCtrl
    disabled,    \* disabled[j]: the channel in m.disabled, named after the
                 \*   Run that made it
    closed,      \* the disabled channels that have been closed
    \* a call of Run
    pc,          \* pc[g]: where the control loop is
    bypass,      \* bypass[g]: bypassSemaphore holds a token
    \* the runner goroutine of a Run
    rpc,         \* rpc[g]: where runJob / runJobWrapper is
    retry,       \* retry[g]: the loop variable
    outcome,     \* outcome[g]: how the current try ended (syncErr, stopASAP)
    out,         \* out[g]: the message the runner is about to send
    holds,       \* holds[g]: the runner put a token in the semaphore
    prov,        \* prov[g]: the provider goroutine of the current try
    \* shared channels
    semaphore,   \* number of tokens in the semaphore channel
    releasing,   \* finished runners that still have to take their token out
    managerChan, \* the buffered messages
    panicked,    \* a goroutine panicked and took the process down
    sent         \* history: the last message of g's current runner

jobVars == <<state, ctrlChan, disabled, closed>>
loopVars == <<pc, bypass>>
runnerVars == <<rpc, retry, outcome, out, holds, prov, sent>>
chanVars == <<semaphore, releasing, managerChan>>
mjVars == <<jobVars, loopVars, runnerVars, chanVars, panicked>>

LoopPC == {"off", "launched", "loop", "wait", "stopping", "leaving",
           "restarting", "idle"}
RunnerPC == {"none", "sem", "pre", "exec", "start", "sync", "term", "post",
             "return", "done"}
Outcome == {"none", "ok", "failed", "timeout", "killed", "termErr"}
ProvState == {"starting", "running", "ok", "fail", "nostart"}

Job(g) == JobOf[g]

\* The kill channel of the current runner is closed.
Killed(g) == pc[g] \in {"stopping", "leaving", "restarting"}

\* The runner is inside runJobWrapper.
InWrapper(g) == rpc[g] \in RunnerPC \ {"none", "sem", "done"}

Message(g, status, sched) ==
    [status |-> status, name |-> Job(g), schedule |-> sched]

\* Channels are empty and nothing runs.
QuietInit ==
    /\ ctrlChan = [j \in Jobs |-> NoCtrl]
    /\ closed = {}
    /\ bypass = [g \in Runs |-> FALSE]
    /\ rpc = [g \in Runs |-> "none"]
    /\ retry = [g \in Runs |-> 0]
    /\ outcome = [g \in Runs |-> "none"]
    /\ out = [g \in Runs |-> NoMsg]
    /\ holds = [g \in Runs |-> FALSE]
    /\ prov = [g \in Runs |-> "starting"]
    /\ semaphore = 0
    /\ releasing = 0
    /\ managerChan = <<>>
    /\ panicked = FALSE
    /\ sent = [g \in Runs |-> NoMsg]

MJInit ==
    /\ state = [j \in Jobs |-> "none"]
    /\ disabled = [j \in Jobs |-> NoChan]
    /\ pc = [g \in Runs |-> "off"]
    /\ QuietInit

-----------------------------------------------------------------------------
(***************************************************************************)
(* The control loop of Run.                                                *)
(***************************************************************************)

\* The goroutine starts: make m.disabled and bypassSemaphore.
Begin(g) ==
    /\ pc[g] = "launched"
    /\ pc' = [pc EXCEPT ![g] = "loop"]
    /\ bypass' = [bypass EXCEPT ![g] = FALSE]
    /\ disabled' = [disabled EXCEPT ![Job(g)] = g]
    /\ closed' = closed \ {g}
    /\ UNCHANGED <<state, ctrlChan, runnerVars, chanVars, panicked>>

\* The deferred close(m.disabled): it closes whatever channel the field holds
\* now, and closing a closed channel panics.
Exit(g) ==
    /\ pc' = [pc EXCEPT ![g] = "off"]
    /\ panicked' = (disabled[Job(g)] \in closed)
    /\ closed' = closed \cup {disabled[Job(g)]}
    /\ UNCHANGED disabled

Continue(g, next) ==
    /\ pc' = [pc EXCEPT ![g] = next]
    /\ UNCHANGED <<disabled, closed, panicked>>

\* Top of the for loop: with the job ready, make kill and jobDone and spawn
\* runJob.
LoopTop(g) ==
    /\ pc[g] = "loop"
    /\ \/ /\ state[Job(g)] = "ready"
          /\ pc' = [pc EXCEPT ![g] = "wait"]
          /\ rpc' = [rpc EXCEPT ![g] = "sem"]
       \/ /\ state[Job(g)] # "ready"
          /\ pc' = [pc EXCEPT ![g] = "idle"]
          /\ UNCHANGED rpc
    /\ UNCHANGED <<jobVars, bypass, retry, outcome, out, holds, prov, sent,
                   chanVars, panicked>>

\* The runner has signalled jobDone; its locals are gone with it.
RunnerGone(g) ==
    /\ rpc[g] = "done"
    /\ rpc' = [rpc EXCEPT ![g] = "none"]
    /\ retry' = [retry EXCEPT ![g] = 0]
    /\ outcome' = [outcome EXCEPT ![g] = "none"]
    /\ sent' = [sent EXCEPT ![g] = NoMsg]
    /\ UNCHANGED <<out, holds, prov>>

\* The select at _wait_for_job takes jobDone.
JobDone(g) ==
    /\ pc[g] = "wait" /\ RunnerGone(g)
    /\ pc' = [pc EXCEPT ![g] = "idle"]
    /\ UNCHANGED <<jobVars, bypass, chanVars, panicked>>

\* What each control message makes of the job's state while a runner is busy.
WaitState == [jobStop |-> "paused", jobDisable |-> "disabled",
              jobRestart |-> "ready", jobHalt |-> "halting",
              jobStart |-> "ready", jobForceStart |-> "ready"]

WaitNext == [jobStop |-> "stopping", jobDisable |-> "leaving",
             jobRestart |-> "restarting", jobHalt |-> "leaving",
             jobStart |-> "wait", jobForceStart |-> "wait"]

\* The select at _wait_for_job takes a control message: all but the two starts
\* close kill and then wait for jobDone.
WaitCtrl(g) ==
    LET c == ctrlChan[Job(g)] IN
    /\ pc[g] = "wait" /\ c # NoCtrl
    /\ ctrlChan' = [ctrlChan EXCEPT ![Job(g)] = NoCtrl]
    /\ state' = [state EXCEPT ![Job(g)] = WaitState[c]]
    /\ bypass' = [bypass EXCEPT ![g] = @ \/ c = "jobForceStart"]
    /\ pc' = [pc EXCEPT ![g] = WaitNext[c]]
    /\ UNCHANGED <<disabled, closed, runnerVars, chanVars, panicked>>

\* Mutant: the <-jobDone after close(kill) is missing.
Reap_NoJoin(g) ==
    /\ Killed(g)
    /\ \/ pc[g] = "stopping" /\ Continue(g, "idle")
       \/ pc[g] = "restarting" /\ Continue(g, "loop")
       \/ pc[g] = "leaving" /\ Exit(g)
    /\ UNCHANGED <<state, ctrlChan, bypass, runnerVars, chanVars>>

\* The <-jobDone that follows close(kill).
Reap(g) ==
    /\ Killed(g) /\ RunnerGone(g)
    /\ \/ pc[g] = "stopping" /\ Continue(g, "idle")
       \/ pc[g] = "restarting" /\ Continue(g, "loop")
       \/ pc[g] = "leaving" /\ Exit(g)
    /\ UNCHANGED <<state, ctrlChan, bypass, chanVars>>

\* The blocking receive at the bottom of the loop.  jobHalt falls into the
\* default case: Run returns and leaves the state alone.
IdleCtrl(g) ==
    LET c == ctrlChan[Job(g)] IN
    /\ pc[g] = "idle" /\ c # NoCtrl
    /\ ctrlChan' = [ctrlChan EXCEPT ![Job(g)] = NoCtrl]
    /\ state' = [state EXCEPT ![Job(g)] =
                     IF c = "jobHalt" THEN @ ELSE WaitState[c]]
    /\ bypass' = [bypass EXCEPT ![g] = @ \/ c = "jobForceStart"]
    /\ \/ c \in {"jobDisable", "jobHalt"} /\ Exit(g)
       \/ c \notin {"jobDisable", "jobHalt"} /\ Continue(g, "loop")
    /\ UNCHANGED <<runnerVars, chanVars>>

-----------------------------------------------------------------------------
(***************************************************************************)
(* The runner: runJob and runJobWrapper.  A step that reports leaves the   *)
(* message in out and the runner does nothing else until Send has put it   *)
(* in managerChan.                                                         *)
(***************************************************************************)

\* The first of runJob's select cases that is taken.
Acquire(g) ==
    /\ rpc[g] = "sem" /\ semaphore < Concurrent
    /\ semaphore' = semaphore + 1
    /\ holds' = [holds EXCEPT ![g] = TRUE]
    /\ out' = [out EXCEPT ![g] = Message(g, "PreSyncing", FALSE)]
    /\ rpc' = [rpc EXCEPT ![g] = "pre"]
    /\ UNCHANGED <<jobVars, loopVars, retry, outcome, prov, sent, releasing,
                   managerChan, panicked>>

BypassSemaphore(g) ==
    /\ rpc[g] = "sem" /\ bypass[g]
    /\ bypass' = [bypass EXCEPT ![g] = FALSE]
    /\ out' = [out EXCEPT ![g] = Message(g, "PreSyncing", FALSE)]
    /\ rpc' = [rpc EXCEPT ![g] = "pre"]
    /\ UNCHANGED <<jobVars, pc, retry, outcome, holds, prov, sent, chanVars,
                   panicked>>

KilledWaiting(g) ==
    /\ rpc[g] = "sem" /\ Killed(g)
    /\ rpc' = [rpc EXCEPT ![g] = "done"]
    /\ UNCHANGED <<jobVars, loopVars, retry, outcome, out, holds, prov, sent,
                   chanVars, panicked>>

Send(g) ==
    /\ out[g] # NoMsg /\ Len(managerChan) < MsgCap
    /\ managerChan' = Append(managerChan, out[g])
    /\ sent' = [sent EXCEPT ![g] = out[g]]
    /\ out' = [out EXCEPT ![g] = NoMsg]
    /\ UNCHANGED <<jobVars, loopVars, rpc, retry, outcome, holds, prov,
                   semaphore, releasing, panicked>>

At(g, where) == rpc[g] = where /\ out[g] = NoMsg

\* Mutant: a hook failure does not ask for scheduling.
HookFails_NoSchedule(g) ==
    /\ out' = [out EXCEPT ![g] = Message(g, "Failed", FALSE)]
    /\ rpc' = [rpc EXCEPT ![g] = "return"]
    /\ UNCHANGED retry

\* Mutant: the error of runHooks is not returned and the try goes on.
HookFails_NoReturn(g) ==
    /\ out' = [out EXCEPT ![g] = Message(g, "Failed", TRUE)]
    /\ rpc' = [rpc EXCEPT ![g] = "exec"]
    /\ UNCHANGED retry

\* A hook failed: runHooks reports it, and the wrapper returns.
HookFails(g) ==
    /\ out' = [out EXCEPT ![g] = Message(g, "Failed", TRUE)]
    /\ rpc' = [rpc EXCEPT ![g] = "return"]
    /\ UNCHANGED retry

PreJobHooks(g) ==
    /\ At(g, "pre")
    /\ \/ HookFails(g)
       \/ /\ rpc' = [rpc EXCEPT ![g] = "exec"]
          /\ retry' = [retry EXCEPT ![g] = 0]
          /\ UNCHANGED out
    /\ UNCHANGED <<jobVars, loopVars, outcome, holds, prov, sent, chanVars, panicked>>

\* The pre-exec hooks of one try, and the Syncing report that follows them.
PreExecHooks(g) ==
    /\ At(g, "exec")
    /\ \/ HookFails(g)
       \/ /\ rpc' = [rpc EXCEPT ![g] = "start"]
          /\ out' = [out EXCEPT ![g] = Message(g, "Syncing", FALSE)]
          /\ UNCHANGED retry
    /\ UNCHANGED <<jobVars, loopVars, outcome, holds, prov, sent, chanVars, panicked>>

\* The provider goroutine: provider.Run either fails to start or sends
\* started; later it returns.  It is not waited for after Terminate.
ProviderStart(g) ==
    /\ rpc[g] = "start" /\ out[g] = NoMsg /\ prov[g] = "starting"
    /\ \E p \in {"running", "nostart"} : prov' = [prov EXCEPT ![g] = p]
    /\ UNCHANGED <<jobVars, loopVars, rpc, retry, outcome, out, holds, sent,
                   chanVars, panicked>>

ProviderEnd(g) ==
    /\ rpc[g] \in {"start", "sync"} /\ prov[g] = "running"
    /\ \E p \in {"ok", "fail"} : prov' = [prov EXCEPT ![g] = p]
    /\ UNCHANGED <<jobVars, loopVars, rpc, retry, outcome, out, holds, sent,
                   chanVars, panicked>>

SyncDone(g) == prov[g] \in {"ok", "fail", "nostart"}

\* "Wait until provider started or error happened": with both channels ready
\* the select takes either, and err.Error() on a nil error panics.
AwaitStarted(g) ==
    /\ At(g, "start")
    /\ rpc' = [rpc EXCEPT ![g] = "sync"]
    /\ \/ prov[g] \in {"running", "ok", "fail"} /\ UNCHANGED panicked
       \/ SyncDone(g) /\ panicked' = (prov[g] = "ok")
    /\ UNCHANGED <<jobVars, loopVars, retry, outcome, out, holds, prov, sent,
                   chanVars>>

\* Mutant: the second select has no kill case.
AwaitSync_NoKill(g) ==
    /\ At(g, "sync") /\ SyncDone(g)
    /\ outcome' = [outcome EXCEPT ![g] =
                       IF prov[g] = "ok" THEN "ok" ELSE "failed"]
    /\ rpc' = [rpc EXCEPT ![g] = "post"]
    /\ prov' = [prov EXCEPT ![g] = "starting"]
    /\ UNCHANGED <<jobVars, loopVars, retry, out, holds, sent, chanVars,
                   panicked>>

\* The second select: the provider is done or the run is killed.
\* Nobody looks at this try's provider again.
AwaitSync(g) ==
    /\ At(g, "sync")
    /\ \/ /\ SyncDone(g)
          /\ outcome' = [outcome EXCEPT ![g] =
                             IF prov[g] = "ok" THEN "ok" ELSE "failed"]
          /\ rpc' = [rpc EXCEPT ![g] = "post"]
       \/ /\ Killed(g)
          /\ outcome' = [outcome EXCEPT ![g] = "killed"]
          /\ rpc' = [rpc EXCEPT ![g] = "term"]
    /\ prov' = [prov EXCEPT ![g] = "starting"]
    /\ UNCHANGED <<jobVars, loopVars, retry, out, holds, sent, chanVars,
                   panicked>>

\* Its third case: provider.Timeout() has passed.
Timeout(g) ==
    /\ At(g, "sync")
    /\ outcome' = [outcome EXCEPT ![g] = "timeout"]
    /\ rpc' = [rpc EXCEPT ![g] = "term"]
    /\ prov' = [prov EXCEPT ![g] = "starting"]
    /\ UNCHANGED <<jobVars, loopVars, retry, out, holds, sent, chanVars,
                   panicked>>

\* provider.Terminate() returns.  On an error the wrapper returns at once:
\* no hooks, no report.
Terminate(g) ==
    /\ At(g, "term")
    /\ \/ /\ rpc' = [rpc EXCEPT ![g] = "post"]
          /\ UNCHANGED outcome
       \/ /\ TermErrors
          /\ rpc' = [rpc EXCEPT ![g] = "return"]
          /\ outcome' = [outcome EXCEPT ![g] = "termErr"]
    /\ UNCHANGED <<jobVars, loopVars, retry, out, holds, prov, sent, chanVars,
                   panicked>>

Ready(g) == state[Job(g)] = "ready"

LastTry(g) == retry[g] = Retry - 1

\* Post-exec hooks, then post-success or post-fail hooks, then the report of
\* this try; the schedule flag reads the state before the send.
PostHooks(g) ==
    /\ At(g, "post")
    /\ \/ HookFails(g)
       \/ /\ outcome[g] = "ok"
          /\ out' = [out EXCEPT ![g] = Message(g, "Success", Ready(g))]
          /\ rpc' = [rpc EXCEPT ![g] = "return"]
          /\ UNCHANGED retry
       \/ /\ outcome[g] # "ok"
          /\ out' = [out EXCEPT ![g] =
                         Message(g, "Failed", LastTry(g) /\ Ready(g))]
          /\ \/ /\ outcome[g] = "killed" \/ LastTry(g)
                /\ rpc' = [rpc EXCEPT ![g] = "return"]
                /\ UNCHANGED retry
             \/ /\ outcome[g] # "killed" /\ ~LastTry(g)
                /\ rpc' = [rpc EXCEPT ![g] = "exec"]
                /\ retry' = [retry EXCEPT ![g] = @ + 1]
    /\ UNCHANGED <<jobVars, loopVars, outcome, holds, prov, sent, chanVars, panicked>>

\* Mutant: <-semaphore is deferred for bypassing runs too.
Return_AlwaysReleases(g) ==
    /\ At(g, "return")
    /\ rpc' = [rpc EXCEPT ![g] = "done"]
    /\ holds' = [holds EXCEPT ![g] = FALSE]
    /\ releasing' = IF semaphore > releasing THEN releasing + 1 ELSE releasing
    /\ UNCHANGED <<jobVars, loopVars, retry, outcome, out, prov, sent,
                   semaphore, managerChan, panicked>>

\* The wrapper's deferred close(jobDone).  The token goes back later.
Return(g) ==
    /\ At(g, "return")
    /\ rpc' = [rpc EXCEPT ![g] = "done"]
    /\ holds' = [holds EXCEPT ![g] = FALSE]
    /\ releasing' = IF holds[g] THEN releasing + 1 ELSE releasing
    /\ UNCHANGED <<jobVars, loopVars, retry, outcome, out, prov, sent,
                   semaphore, managerChan, panicked>>

\* runJob's deferred <-semaphore.
Release ==
    /\ releasing > 0
    /\ releasing' = releasing - 1
    /\ semaphore' = semaphore - 1
    /\ UNCHANGED <<jobVars, loopVars, runnerVars, managerChan, panicked>>

LoopStep(g) ==
    Begin(g) \/ LoopTop(g) \/ JobDone(g) \/ WaitCtrl(g) \/ Reap(g) \/ IdleCtrl(g)

RunnerStep(g) ==
    \/ Acquire(g) \/ BypassSemaphore(g) \/ KilledWaiting(g) \/ Send(g)
    \/ PreJobHooks(g) \/ PreExecHooks(g) \/ AwaitStarted(g) \/ AwaitSync(g)
    \/ Terminate(g) \/ PostHooks(g) \/ Return(g)

ProviderStep(g) == ProviderStart(g) \/ ProviderEnd(g) \/ Timeout(g)

-----------------------------------------------------------------------------
(***************************************************************************)
(* The environment.                                                        *)
(***************************************************************************)

\* go job.Run(...)
GoRun(g) ==
    /\ pc[g] = "off"
    /\ pc' = [pc EXCEPT ![g] = "launched"]

\* job.SetState(s); go job.Run(...).  A disabled job is launched as it is.
Launch(g) ==
    /\ GoRun(g)
    /\ \/ \E s \in {"none", "paused"} : state' = [state EXCEPT ![Job(g)] = s]
       \/ state[Job(g)] = "disabled" /\ UNCHANGED state
    /\ UNCHANGED <<ctrlChan, disabled, closed, bypass, runnerVars, chanVars,
                   panicked>>

\* job.ctrlChan <- c
SendCtrl(j, c) ==
    /\ ctrlChan[j] = NoCtrl
    /\ ctrlChan' = [ctrlChan EXCEPT ![j] = c]
    /\ UNCHANGED <<state, disabled, closed, loopVars, runnerVars, chanVars,
                   panicked>>

\* <-managerChan
ReceiveMsg ==
    /\ managerChan # <<>>
    /\ managerChan' = Tail(managerChan)
    /\ UNCHANGED <<jobVars, loopVars, runnerVars, semaphore, releasing, panicked>>

Environment ==
    \/ \E g \in Runs : Launch(g)
    \/ \E j \in Jobs, c \in EnvCtrl : SendCtrl(j, c)
    \/ ReceiveMsg

\* After a panic the process is gone.
Crashed == panicked /\ UNCHANGED mjVars

MJNext ==
    \/ /\ ~panicked
       /\ \/ \E g \in Runs : LoopStep(g) \/ RunnerStep(g) \/ ProviderStep(g)
          \/ Release
          \/ Environment
    \/ Crashed

MJSpec == MJInit /\ [][MJNext]_mjVars

-----------------------------------------------------------------------------
(***************************************************************************)
(* Properties.                                                             *)
(***************************************************************************)

\* Every variable has its type: channels respect their capacities.
MJTypeOK ==
    /\ state \in [Jobs -> JobState]
    /\ ctrlChan \in [Jobs -> CtrlAction \cup {NoCtrl}]
    /\ disabled \in [Jobs -> Runs \cup {NoChan}]
    /\ closed \subseteq Runs \cup {NoChan}
    /\ pc \in [Runs -> LoopPC]
    /\ bypass \in [Runs -> BOOLEAN]
    /\ rpc \in [Runs -> RunnerPC]
    /\ retry \in [Runs -> 0..(Retry - 1)]
    /\ outcome \in [Runs -> Outcome]
    /\ out \in [Runs -> jobMessage \cup {NoMsg}]
    /\ holds \in [Runs -> BOOLEAN]
    /\ prov \in [Runs -> ProvState]
    /\ semaphore \in 0..Concurrent
    /\ releasing \in Nat
    /\ managerChan \in Seq(jobMessage)
    /\ Len(managerChan) <= MsgCap
    /\ panicked \in BOOLEAN
    /\ sent \in [Runs -> jobMessage \cup {NoMsg}]

\* The runs that count against the concurrency limit.
Limited == {g \in Runs : InWrapper(g) /\ holds[g]}

\* The runs in progress that were not let past the semaphore by a force start
\* never outnumber the configured limit, although a runner hands its token
\* back only after its job may already have started the next runner.
SemaphoreLimit == Cardinality(Limited) <= Concurrent

\* A control loop that is idle, at the top of its loop or gone has no runner:
\* every branch of Run joins jobDone first.  In particular nothing of the job
\* is running once m.disabled is closed, which is what disableJob waits for.
NoOrphanRunner ==
    \A g \in Runs :
        pc[g] \in {"off", "launched", "loop", "idle"} =>
            rpc[g] = "none" /\ out[g] = NoMsg /\ ~holds[g]

\* One Run per job.
SoleRuns == \A g, h \in Runs : JobOf[g] = JobOf[h] => g = h

\* A run that ended by itself has told the scheduler to schedule the job
\* again, unless Terminate failed: the run of a ready job is never silently
\* the last one.  (For jobs driven by one Run.)
RunReschedules ==
    SoleRuns =>
        \A g \in Runs :
            (pc[g] = "wait" /\ rpc[g] = "done" /\ outcome[g] # "termErr") =>
                sent[g] # NoMsg /\ sent[g].schedule

\* The order of the reports of one run (README, "Job Run Process"): nothing
\* precedes PreSyncing, Success comes out of Syncing, and after a report that
\* asks for scheduling the run reports nothing more.
MayFollow(old, new) ==
    \/ old = NoMsg /\ new.status = "PreSyncing"
    \/ /\ old # NoMsg /\ ~old.schedule
       /\ \/ old.status \in {"PreSyncing", "Failed"} /\ new.status \in {"Syncing", "Failed"}
          \/ old.status = "Syncing" /\ new.status \in {"Success", "Failed"}

ReportOrder ==
    [][\A g \in Runs : sent'[g] \notin {sent[g], NoMsg} =>
                            MayFollow(sent[g], sent'[g])]_mjVars

-----------------------------------------------------------------------------
(***************************************************************************)
(* Statements of the documentation that the code does not keep.  The       *)
(* README gives the constants under which TLC refutes each.                *)
(***************************************************************************)

\* The comment "Wait until provider started or error happened": what is read
\* from syncDone there is an error, and reading it never panics.
StartedOrError == ~panicked

\* README, "Job Run Process": a run that reported Syncing goes on to report
\* Success or Failed, so the manager is never left with Syncing.
SyncingIsAnswered ==
    \A g \in Runs : rpc[g] = "done" =>
                        sent[g] = NoMsg \/ sent[g].status # "Syncing"

\* A force start concerns one run: when the job is idle again, the permit to
\* ignore the limit is gone and the next ordinary start obeys the semaphore.
ForceIsForOneRun == \A g \in Runs : pc[g] = "idle" => ~bypass[g]
=============================================================================
