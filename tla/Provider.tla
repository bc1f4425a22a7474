------------------------------ MODULE Provider ------------------------------
(***************************************************************************)
(* One mirrorProvider and the processes it starts: the runner's tries      *)
(* (worker/job.go), provider.Run of the command, rsync and two-stage rsync *)
(* providers, baseProvider.Wait and Terminate, and cmdJob                  *)
(* (worker/runner.go).  This is what module MirrorJob abstracts to         *)
(* ProviderStart, ProviderEnd and Terminate.                               *)
(*                                                                         *)
(* The provider outlives its tries: p.cmd, isRunning and the mutex are     *)
(* shared by the goroutines of all of them, and a goroutine that was       *)
(* terminated is not waited for.                                           *)
(***************************************************************************)
EXTENDS Naturals, FiniteSets

CONSTANTS
    Kinds,     \* the numbers of stages of the providers looked at: 1 for the
               \* command and rsync providers, 2 for two-stage rsync
    MaxTries,  \* tries of the provider that are looked at
    NoCmd      \* the nil cmdJob

ASSUME ProviderAssumption ==
    /\ Kinds \subseteq 1..2 /\ MaxTries \in Nat
    /\ NoCmd \notin (1..MaxTries) \X (1..2)

Tries == 1..MaxTries

\* The cmdJob of a stage of a try.
CmdJobs == Tries \X (1..2)

VARIABLES
    stages,     \* how many commands a Run of this provider executes
    lock,       \* who holds the provider's mutex: a Run or Terminate
    isRunning,  \* p.isRunning
    cmd,        \* p.cmd
    proc,       \* proc[c]: the process of cmdJob c and its exit
    finished,   \* the cmdJobs that were waited for and whose finished is closed
    gpc,        \* gpc[t]: where the provider goroutine of try t is
    stage,      \* stage[t]: its stage
    target,     \* target[t]: the cmdJob it waits for
    started,    \* tries whose started channel has a message
    syncDone,   \* syncDone[t]: the result in the channel of try t
    rpc,        \* where the runner is
    try         \* the current try

provVars == <<stages, lock, isRunning, cmd, proc, finished, gpc, stage, target,
              started, syncDone, rpc, try>>

ProcState == {"none", "alive", "killed", "ok", "err"}
Dead(c) == proc[c] \in {"ok", "err"}
Running == {c \in CmdJobs : proc[c] \in {"alive", "killed"}}

ProviderInit ==
    /\ stages \in Kinds
    /\ lock = "free"
    /\ isRunning = FALSE
    /\ cmd = NoCmd
    /\ proc = [c \in CmdJobs |-> "none"]
    /\ finished = {}
    /\ gpc = [t \in Tries |-> "off"]
    /\ stage = [t \in Tries |-> 1]
    /\ target = [t \in Tries |-> NoCmd]
    /\ started = {}
    /\ syncDone = [t \in Tries |-> "none"]
    /\ rpc = "idle"
    /\ try = 0

-----------------------------------------------------------------------------
(***************************************************************************)
(* The provider goroutine of a try: provider.Run.                          *)
(***************************************************************************)

\* Run returns.
Finish(t, res) ==
    /\ gpc' = [gpc EXCEPT ![t] = "done"]
    /\ syncDone' = [syncDone EXCEPT ![t] = res]

\* Mutant: Start does not look at IsRunning.
Enter_NoGuard(t) ==
    /\ gpc[t] = "run" /\ lock = "free"
    /\ lock' = "run"
    /\ gpc' = [gpc EXCEPT ![t] = "exec"]
    /\ UNCHANGED <<stages, isRunning, cmd, proc, finished, stage, target,
                   started, syncDone, rpc, try>>

\* Lock, and return an error if "provider is currently running".
Enter(t) ==
    /\ gpc[t] = "run" /\ lock = "free"
    /\ \/ isRunning /\ Finish(t, "err") /\ UNCHANGED lock
       \/ /\ ~isRunning
          /\ lock' = "run"
          /\ gpc' = [gpc EXCEPT ![t] = "exec"]
          /\ UNCHANGED syncDone
    /\ UNCHANGED <<stages, isRunning, cmd, proc, finished, stage, target,
                   started, rpc, try>>

\* Under the lock: make the cmdJob, open the log and start the process, or
\* fail; then isRunning, started and Unlock.
Exec(t) ==
    /\ gpc[t] = "exec"
    /\ cmd' = <<t, stage[t]>>
    /\ lock' = "free"
    /\ \/ /\ Finish(t, "err")
          /\ UNCHANGED <<proc, isRunning, started>>
       \/ /\ proc' = [proc EXCEPT ![<<t, stage[t]>>] = "alive"]
          /\ isRunning' = TRUE
          /\ started' = started \cup {t}
          /\ gpc' = [gpc EXCEPT ![t] = "unlocked"]
          /\ UNCHANGED syncDone
    /\ UNCHANGED <<stages, finished, stage, target, rpc, try>>

\* p.Wait() reads p.cmd, outside the lock.
Wait(t) ==
    /\ gpc[t] = "unlocked"
    /\ target' = [target EXCEPT ![t] = cmd]
    /\ gpc' = [gpc EXCEPT ![t] = "wait"]
    /\ UNCHANGED <<stages, lock, isRunning, cmd, proc, finished, stage,
                   started, syncDone, rpc, try>>

\* cmdJob.Wait returns: the process is reaped and finished is closed.
Reap(t) ==
    /\ gpc[t] = "wait" /\ Dead(target[t])
    /\ finished' = finished \cup {target[t]}
    /\ gpc' = [gpc EXCEPT ![t] = "reaped"]
    /\ UNCHANGED <<stages, lock, isRunning, cmd, proc, stage, target, started,
                   syncDone, rpc, try>>

\* The deferred isRunning.Store(false).  A one-stage Run then returns; the
\* two-stage one locks again.
NotRunning(t) ==
    /\ gpc[t] = "reaped"
    /\ isRunning' = FALSE
    /\ \/ stages = 1 /\ Finish(t, proc[target[t]])
       \/ stages = 2 /\ gpc' = [gpc EXCEPT ![t] = "relock"] /\ UNCHANGED syncDone
    /\ UNCHANGED <<stages, lock, cmd, proc, finished, stage, target, started,
                   rpc, try>>

\* Mutant: the second stage follows a first one that failed.
Relock_IgnoreError(t) ==
    /\ gpc[t] = "relock" /\ lock = "free"
    /\ \/ /\ stage[t] = stages
          /\ Finish(t, proc[target[t]])
          /\ UNCHANGED <<lock, stage>>
       \/ /\ stage[t] < stages
          /\ lock' = "run"
          /\ stage' = [stage EXCEPT ![t] = @ + 1]
          /\ gpc' = [gpc EXCEPT ![t] = "exec"]
          /\ UNCHANGED syncDone
    /\ UNCHANGED <<stages, isRunning, cmd, proc, finished, target, started,
                   rpc, try>>

\* p.Lock() after p.Wait() in the two-stage Run: return, or go on to the second
\* stage.
Relock(t) ==
    /\ gpc[t] = "relock" /\ lock = "free"
    /\ \/ /\ proc[target[t]] = "err" \/ stage[t] = stages
          /\ Finish(t, proc[target[t]])
          /\ UNCHANGED <<lock, stage>>
       \/ /\ proc[target[t]] = "ok" /\ stage[t] < stages
          /\ lock' = "run"
          /\ stage' = [stage EXCEPT ![t] = @ + 1]
          /\ gpc' = [gpc EXCEPT ![t] = "exec"]
          /\ UNCHANGED syncDone
    /\ UNCHANGED <<stages, isRunning, cmd, proc, finished, target, started,
                   rpc, try>>

RunStep(t) ==
    Enter(t) \/ Exec(t) \/ Wait(t) \/ Reap(t) \/ NotRunning(t) \/ Relock(t)

-----------------------------------------------------------------------------
(***************************************************************************)
(* The processes.                                                          *)
(***************************************************************************)

\* A process exits, of itself or on a SIGTERM.
ProcExit(c) ==
    /\ proc[c] = "alive"
    /\ \E e \in {"ok", "err"} : proc' = [proc EXCEPT ![c] = e]
    /\ UNCHANGED <<stages, lock, isRunning, cmd, finished, gpc, stage, target,
                   started, syncDone, rpc, try>>

\* SIGKILL takes effect.
ProcKilled(c) ==
    /\ proc[c] = "killed"
    /\ proc' = [proc EXCEPT ![c] = "err"]
    /\ UNCHANGED <<stages, lock, isRunning, cmd, finished, gpc, stage, target,
                   started, syncDone, rpc, try>>

-----------------------------------------------------------------------------
(***************************************************************************)
(* The runner: a try of runJobWrapper, and Terminate.                      *)
(***************************************************************************)

\* The next try, of this run or of a later one.
NewTry ==
    /\ rpc = "idle" /\ try < MaxTries
    /\ try' = try + 1
    /\ gpc' = [gpc EXCEPT ![try + 1] = "run"]
    /\ rpc' = "start"
    /\ UNCHANGED <<stages, lock, isRunning, cmd, proc, finished, stage, target,
                   started, syncDone>>

\* Mutant: the runner does not wait for the start.
AwaitStarted_NoWait ==
    /\ rpc = "start"
    /\ rpc' = "sync"
    /\ UNCHANGED <<stages, lock, isRunning, cmd, proc, finished, gpc, stage,
                   target, started, syncDone, try>>

\* "Wait until provider started or error happened"
AwaitStarted ==
    /\ rpc = "start"
    /\ try \in started \/ syncDone[try] # "none"
    /\ rpc' = "sync"
    /\ UNCHANGED <<stages, lock, isRunning, cmd, proc, finished, gpc, stage,
                   target, started, syncDone, try>>

SyncDone ==
    /\ rpc = "sync" /\ syncDone[try] # "none"
    /\ rpc' = "idle"
    /\ UNCHANGED <<stages, lock, isRunning, cmd, proc, finished, gpc, stage,
                   target, started, syncDone, try>>

\* The timeout passes, or kill is closed.
GiveUp ==
    /\ rpc = "sync"
    /\ rpc' = "term"
    /\ UNCHANGED <<stages, lock, isRunning, cmd, proc, finished, gpc, stage,
                   target, started, syncDone, try>>

\* baseProvider.Terminate: nothing to do if IsRunning is false.
Terminate ==
    /\ rpc = "term" /\ lock = "free"
    /\ \/ ~isRunning /\ rpc' = "idle" /\ UNCHANGED lock
       \/ isRunning /\ rpc' = "signal" /\ lock' = "term"
    /\ UNCHANGED <<stages, isRunning, cmd, proc, finished, gpc, stage, target,
                   started, syncDone, try>>

\* Mutant: a process that outlives SIGTERM is an error of Terminate.
Signal_NoGrace ==
    /\ rpc = "signal"
    /\ rpc' = "idle" /\ lock' = "free"
    /\ UNCHANGED <<stages, isRunning, cmd, proc, finished, gpc, stage, target,
                   started, syncDone, try>>

\* SIGTERM.  It fails if the process was not started or was reaped, and then
\* Terminate returns the error and the run ends.
Signal ==
    /\ rpc = "signal"
    /\ \/ /\ proc[cmd] = "none" \/ cmd \in finished
          /\ rpc' = "idle" /\ lock' = "free"
       \/ /\ proc[cmd] # "none" /\ cmd \notin finished
          /\ rpc' = "grace" /\ UNCHANGED lock
    /\ UNCHANGED <<stages, isRunning, cmd, proc, finished, gpc, stage, target,
                   started, syncDone, try>>

\* Mutant: no SIGKILL when SIGTERM did not help.
Grace_NoKill ==
    /\ rpc = "grace"
    /\ rpc' = "idle" /\ lock' = "free"
    /\ UNCHANGED <<stages, isRunning, cmd, proc, finished, gpc, stage, target,
                   started, syncDone, try>>

\* Wait for finished, or two seconds, and then SIGKILL.
Grace ==
    /\ rpc = "grace"
    /\ \/ cmd \in finished /\ UNCHANGED proc
       \/ proc' = [proc EXCEPT ![cmd] = IF @ = "alive" THEN "killed" ELSE @]
    /\ rpc' = "idle" /\ lock' = "free"
    /\ UNCHANGED <<stages, isRunning, cmd, finished, gpc, stage, target,
                   started, syncDone, try>>

RunnerStep == AwaitStarted \/ SyncDone \/ Terminate \/ Signal \/ Grace

-----------------------------------------------------------------------------

\* All tries are over and all that was started has ended.
Over ==
    /\ rpc \in {"idle", "start"} /\ Running = {}
    /\ UNCHANGED provVars

ProviderNext ==
    \/ \E t \in Tries : RunStep(t)
    \/ \E c \in CmdJobs : ProcExit(c) \/ ProcKilled(c)
    \/ NewTry \/ GiveUp \/ RunnerStep
    \/ Over

ProviderSpec == ProviderInit /\ [][ProviderNext]_provVars

\* Goroutines are scheduled and the kernel delivers SIGKILL.  A process need
\* not exit of itself, nor on SIGTERM, and the runner need not give up.
ProviderFairSpec ==
    /\ ProviderSpec
    /\ \A t \in Tries : WF_provVars(RunStep(t))
    /\ \A c \in CmdJobs : WF_provVars(ProcKilled(c))
    /\ WF_provVars(RunnerStep)
    /\ SF_provVars(Terminate)

-----------------------------------------------------------------------------
(***************************************************************************)
(* Properties.                                                             *)
(***************************************************************************)

\* Every variable has its type.
ProviderTypeOK ==
    /\ stages \in Kinds
    /\ lock \in {"free", "run", "term"}
    /\ isRunning \in BOOLEAN
    /\ cmd \in CmdJobs \cup {NoCmd}
    /\ proc \in [CmdJobs -> ProcState]
    /\ finished \subseteq CmdJobs
    /\ gpc \in [Tries -> {"off", "run", "exec", "unlocked", "wait", "reaped",
                          "relock", "done"}]
    /\ stage \in [Tries -> 1..2]
    /\ target \in [Tries -> CmdJobs \cup {NoCmd}]
    /\ started \subseteq Tries
    /\ syncDone \in [Tries -> {"none", "ok", "err"}]
    /\ rpc \in {"idle", "start", "sync", "term", "signal", "grace"}
    /\ try \in 0..MaxTries

\* What the check for "provider is currently running" is for: no two processes
\* of a one-stage provider write to its mirror at the same time, although a
\* terminated try is left to itself and the next one begins.  (Two-stage
\* providers have no such promise: see the README.)
SingleProcess == stages = 1 => Cardinality(Running) <= 1

\* The second stage (with --delete) runs only after the first stage of the
\* same try has succeeded, and alone, as long as no try has been given up and
\* left to go on beside the next one.
StagesInOrder ==
    <<1, 2>> \in Running /\ try = 1 =>
        proc[<<1, 1>>] = "ok" /\ Running = {<<1, 2>>}

\* "Now terminating the provider is feasible": a try of a one-stage provider
\* that is given up has its process terminated, whatever SIGTERM does to it.
GivenUpIsKilled ==
    \A t \in Tries :
        (stages = 1 /\ rpc = "term" /\ try = t) ~> [](proc[<<t, 1>>] # "alive")

\* Terminate fails only when there is nothing left to terminate: the run that
\* ends at that error, without hooks or report, leaves no process behind.
ErrorMeansDead ==
    [][stages = 1 /\ rpc = "signal" /\ rpc' = "idle" => Running = {}]_provVars
=============================================================================
