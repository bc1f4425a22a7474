---------------------------- MODULE CgroupProofs ----------------------------
(***************************************************************************)
(* Proofs about a provider (module Provider), alone and in a control group *)
(* (module Cgroup), for any number of tries, processes, subsystems and     *)
(* deaths of the worker.                                                   *)
(*                                                                         *)
(* One-stage providers (command and rsync) never have two processes at a   *)
(* time, and an error of Terminate leaves no process.  For the two-stage   *)
(* provider neither holds; what holds is that its first try runs its       *)
(* stages in order.                                                        *)
(*                                                                         *)
(* The base group is left empty, commands and what they start stay in the  *)
(* group of the job, Start finds the manager of its group, and the         *)
(* handshake implements the one step Exec of module Provider.              *)
(***************************************************************************)
EXTENDS Cgroup, FiniteSetTheorems, TLAPS

-----------------------------------------------------------------------------
(***************************************************************************)
(* One-stage providers.                                                    *)
(***************************************************************************)

\* The provider goroutine of try t has a process it has not finished with.
Busy(t) == gpc[t] \in {"unlocked", "wait", "reaped"}

\* The mutex: one try at most is between Lock and Unlock, and it found
\* isRunning false; Terminate excludes them all.
StartAlone ==
    /\ \A t \in Tries : gpc[t] = "exec" =>
          /\ lock = "run" /\ ~isRunning
          /\ \A u \in Tries : gpc[u] = "exec" => u = t
    /\ rpc \in {"signal", "grace"} => lock = "term"

\* A busy goroutine owns p.cmd and keeps isRunning true.
BusyOwnsCmd ==
    \A t \in Tries : Busy(t) => isRunning /\ cmd = <<t, 1>>

\* It waits for its own process.
WaitsForOwn ==
    \A t \in Tries :
        /\ gpc[t] \in {"wait", "reaped"} => target[t] = <<t, 1>>
        /\ gpc[t] = "reaped" => <<t, 1>> \in finished

\* Every live process is waited for.
NoStray ==
    \A c \in CmdJobs : proc[c] \in {"alive", "killed"} =>
        gpc[c[1]] \in {"unlocked", "wait"}

\* What was waited for is dead.
FinishedDead == \A c \in finished : proc[c] \in {"ok", "err"}

\* There is one stage, so there are no cmdJobs of a second one.
FirstStage ==
    /\ stages = 1
    /\ \A t \in Tries : stage[t] = 1 /\ proc[<<t, 2>>] = "none"

\* A try that has not started a process has none, tries to come are off, and
\* nothing locks a second time.
Fresh ==
    \A t \in Tries :
        /\ gpc[t] \in {"off", "run", "exec"} => proc[<<t, 1>>] = "none"
        /\ t > try => gpc[t] = "off"
        /\ gpc[t] # "relock"

ProviderInv ==
    /\ ProviderTypeOK /\ StartAlone /\ BusyOwnsCmd /\ WaitsForOwn /\ NoStray
    /\ FinishedDead /\ FirstStage /\ Fresh

-----------------------------------------------------------------------------

\* A cmdJob is a try and a stage.
LEMMA CmdJobPairs ==
    /\ \A t \in Tries : <<t, 1>> \in CmdJobs /\ <<t, 2>> \in CmdJobs
    /\ \A c \in CmdJobs : c[1] \in Tries /\ (c = <<c[1], 1>> \/ c = <<c[1], 2>>)
BY DEF CmdJobs, Tries

\* The initial states of a one-stage provider satisfy the invariant.
LEMMA InitInv == ASSUME ProviderInit, stages = 1 PROVE ProviderInv
<1>1. /\ stage \in [Tries -> 1..2]
      /\ try \in 0..MaxTries
  BY ProviderAssumption DEF ProviderInit
<1>2. ProviderTypeOK
  BY <1>1 DEF ProviderInit, ProviderTypeOK, ProcState
<1>3. StartAlone /\ BusyOwnsCmd /\ WaitsForOwn /\ NoStray /\ FinishedDead
  BY CmdJobPairs DEF ProviderInit, StartAlone, BusyOwnsCmd, WaitsForOwn,
                     NoStray, FinishedDead, Busy
<1>4. Fresh /\ FirstStage
  BY CmdJobPairs DEF ProviderInit, Fresh, FirstStage
<1> QED BY <1>2, <1>3, <1>4 DEF ProviderInv

\* The goroutine of a try preserves the invariant.
LEMMA RunStepInv ==
    ASSUME ProviderInv, NEW t \in Tries, RunStep(t)
    PROVE  ProviderInv'
<1> USE CmdJobPairs DEF ProviderInv, ProviderTypeOK, ProcState
<1>0. stage[t] = 1 /\ stages = 1
  BY DEF FirstStage
<1>1. CASE Enter(t)
  <2>1. ProviderTypeOK'
    BY <1>1 DEF Enter, Finish
  <2>2. StartAlone'
    BY <1>1 DEF Enter, Finish, StartAlone
  <2>3. BusyOwnsCmd' /\ WaitsForOwn'
    BY <1>1 DEF Enter, Finish, BusyOwnsCmd, WaitsForOwn, Busy
  <2>4. NoStray' /\ FinishedDead' /\ Fresh' /\ FirstStage'
    BY <1>1 DEF Enter, Finish, NoStray, FinishedDead, Fresh, FirstStage
  <2> QED BY <2>1, <2>2, <2>3, <2>4
<1>2. CASE Exec(t)
  <2>0. gpc[t] = "exec" /\ ~isRunning /\ proc[<<t, 1>>] = "none"
    BY <1>2 DEF Exec, StartAlone, Fresh, FirstStage
  <2>1. ProviderTypeOK'
    BY <1>2, <1>0 DEF Exec, Finish
  <2>2. StartAlone'
    BY <1>2, <2>0 DEF Exec, Finish, StartAlone
  <2>3. BusyOwnsCmd' /\ WaitsForOwn'
    BY <1>2, <1>0, <2>0 DEF Exec, Finish, BusyOwnsCmd, WaitsForOwn, Busy
  <2>4. NoStray'
    BY <1>2, <1>0, <2>0 DEF Exec, Finish, NoStray
  <2>5. FinishedDead'
    BY <1>2, <1>0, <2>0 DEF Exec, Finish, FinishedDead
  <2>6. Fresh'
    <3>1. gpc'[t] \in {"done", "unlocked"} /\ ~(t > try)
      BY <1>2, <2>0 DEF Exec, Finish, Fresh, FirstStage
    <3>2. \A u \in Tries : u # t => /\ gpc'[u] = gpc[u]
                                   /\ proc'[<<u, 1>>] = proc[<<u, 1>>]
      BY <1>2, <1>0 DEF Exec, Finish
    <3>3. try' = try
      BY <1>2 DEF Exec
    <3> QED BY <3>1, <3>2, <3>3 DEF Fresh
  <2>7. FirstStage'
    <3>1. \A u \in Tries : proc'[<<u, 2>>] = proc[<<u, 2>>]
      <4>1. \/ proc' = proc
            \/ proc' = [proc EXCEPT ![<<t, 1>>] = "alive"]
        BY <1>2, <1>0 DEF Exec, Finish
      <4>2. \A u \in Tries : <<u, 2>> # <<t, 1>>
        OBVIOUS
      <4> QED BY <4>1, <4>2
    <3>2. stages' = stages /\ stage' = stage
      BY <1>2 DEF Exec
    <3> QED BY <3>1, <3>2 DEF FirstStage
  <2> QED BY <2>1, <2>2, <2>3, <2>4, <2>5, <2>6, <2>7
<1>3. CASE Wait(t)
  <2>0. cmd = <<t, 1>>
    BY <1>3 DEF Wait, BusyOwnsCmd, Busy
  <2>1. ProviderTypeOK'
    BY <1>3 DEF Wait
  <2>2. StartAlone' /\ FinishedDead' /\ Fresh' /\ FirstStage'
    BY <1>3 DEF Wait, StartAlone, FinishedDead, Fresh, FirstStage
  <2>3. BusyOwnsCmd' /\ WaitsForOwn'
    BY <1>3, <2>0 DEF Wait, BusyOwnsCmd, WaitsForOwn, Busy
  <2>4. NoStray'
    BY <1>3 DEF Wait, NoStray
  <2> QED BY <2>1, <2>2, <2>3, <2>4
<1>4. CASE Reap(t)
  <2>0. target[t] = <<t, 1>> /\ proc[<<t, 1>>] \in {"ok", "err"}
    BY <1>4 DEF Reap, WaitsForOwn, Dead
  <2>1. ProviderTypeOK'
    BY <1>4, <2>0 DEF Reap
  <2>2. StartAlone' /\ Fresh' /\ FirstStage'
    BY <1>4 DEF Reap, StartAlone, Fresh, FirstStage
  <2>3. FinishedDead'
    BY <1>4, <2>0 DEF Reap, FinishedDead
  <2>4. BusyOwnsCmd' /\ WaitsForOwn'
    BY <1>4, <2>0 DEF Reap, BusyOwnsCmd, WaitsForOwn, Busy
  <2>5. NoStray'
    BY <1>4, <2>0 DEF Reap, NoStray, FirstStage
  <2> QED BY <2>1, <2>2, <2>3, <2>4, <2>5
<1>5. CASE NotRunning(t)
  <2>0. /\ target[t] = <<t, 1>> /\ cmd = <<t, 1>>
        /\ proc[<<t, 1>>] \in {"ok", "err"}
        /\ gpc' = [gpc EXCEPT ![t] = "done"]
    <3>1. target[t] = <<t, 1>> /\ cmd = <<t, 1>>
      BY <1>5 DEF NotRunning, WaitsForOwn, BusyOwnsCmd, Busy
    <3>2. proc[<<t, 1>>] \in {"ok", "err"}
      BY <1>5 DEF NotRunning, WaitsForOwn, FinishedDead
    <3> QED BY <1>0, <1>5, <3>1, <3>2 DEF NotRunning, Finish
  <2>1. ProviderTypeOK'
    <3>1. syncDone' \in [Tries -> {"none", "ok", "err"}]
      BY <1>5, <2>0 DEF NotRunning, Finish
    <3> QED BY <1>5, <2>0, <3>1 DEF NotRunning
  <2>2. StartAlone' /\ FinishedDead' /\ Fresh' /\ FirstStage'
    BY <1>5, <2>0 DEF NotRunning, StartAlone, FinishedDead, Fresh, FirstStage
  <2>3. BusyOwnsCmd' /\ WaitsForOwn'
    BY <1>5, <2>0 DEF NotRunning, BusyOwnsCmd, WaitsForOwn, Busy
  <2>4. NoStray'
    BY <1>5, <2>0 DEF NotRunning, NoStray
  <2> QED BY <2>1, <2>2, <2>3, <2>4
<1>6. CASE Relock(t)
  BY <1>6 DEF Relock, Fresh, FirstStage
<1> QED BY <1>1, <1>2, <1>3, <1>4, <1>5, <1>6 DEF RunStep

\* A process that exits or is killed preserves the invariant.
LEMMA ProcInv ==
    ASSUME ProviderInv, NEW c \in CmdJobs,
           ProcExit(c) \/ ProcKilled(c)
    PROVE  ProviderInv'
<1> USE CmdJobPairs DEF ProviderInv, ProviderTypeOK, ProcState, ProcExit,
                        ProcKilled
<1>1. ProviderTypeOK'
  OBVIOUS
<1>2. StartAlone' /\ BusyOwnsCmd' /\ WaitsForOwn'
  BY DEF StartAlone, BusyOwnsCmd, WaitsForOwn, Busy
<1>3. NoStray' /\ FinishedDead'
  BY DEF NoStray, FinishedDead
<1>4. Fresh'
  BY DEF Fresh
<1>5. FirstStage'
  BY DEF FirstStage
<1> QED BY <1>1, <1>2, <1>3, <1>4, <1>5

\* The runner preserves the invariant.
LEMMA RunnerInv ==
    ASSUME ProviderInv, NewTry \/ GiveUp \/ RunnerStep
    PROVE  ProviderInv'
<1> USE CmdJobPairs DEF ProviderInv, ProviderTypeOK, ProcState
<1>1. CASE NewTry
  <2>0. try + 1 \in Tries /\ gpc[try + 1] = "off"
    <3>1. try \in Nat /\ try + 1 \in Tries /\ try + 1 > try
      BY <1>1, ProviderAssumption DEF NewTry, Tries
    <3> QED BY <3>1 DEF Fresh, FirstStage
  <2>1. ProviderTypeOK'
    BY <1>1, <2>0 DEF NewTry, Tries
  <2>2. StartAlone' /\ BusyOwnsCmd' /\ WaitsForOwn'
    BY <1>1, <2>0 DEF NewTry, StartAlone, BusyOwnsCmd, WaitsForOwn, Busy
  <2>3. NoStray' /\ FinishedDead'
    BY <1>1, <2>0 DEF NewTry, NoStray, FinishedDead
  <2>4. Fresh' /\ FirstStage'
    <3>1. \A u \in Tries : u > try + 1 => u > try /\ u # try + 1
      BY ProviderAssumption DEF Tries
    <3>2. ~(try + 1 > try + 1)
      BY ProviderAssumption
    <3>3. /\ try' = try + 1 /\ proc' = proc
          /\ gpc' = [gpc EXCEPT ![try + 1] = "run"]
      BY <1>1 DEF NewTry
    <3> QED BY <1>1, <2>0, <3>1, <3>2, <3>3 DEF NewTry, Fresh, FirstStage
  <2> QED BY <2>1, <2>2, <2>3, <2>4
<1>2. CASE GiveUp \/ AwaitStarted \/ SyncDone
  BY <1>2 DEF GiveUp, AwaitStarted, SyncDone, StartAlone, BusyOwnsCmd,
              WaitsForOwn, Busy, NoStray, FinishedDead, Fresh, FirstStage
<1>3. CASE Terminate
  BY <1>3 DEF Terminate, StartAlone, BusyOwnsCmd, WaitsForOwn, Busy, NoStray,
              FinishedDead, Fresh, FirstStage
<1>4. CASE Signal
  BY <1>4 DEF Signal, StartAlone, BusyOwnsCmd, WaitsForOwn, Busy, NoStray,
              FinishedDead, Fresh, FirstStage
<1>5. CASE Grace
  <2>1. \A c \in CmdJobs : \/ proc'[c] = proc[c]
                           \/ proc[c] = "alive" /\ proc'[c] = "killed"
    BY <1>5 DEF Grace
  <2>2. proc' \in [CmdJobs -> ProcState]
    BY <1>5 DEF Grace
  <2>3. ProviderTypeOK'
    BY <1>5, <2>2 DEF Grace
  <2>4. StartAlone' /\ BusyOwnsCmd' /\ WaitsForOwn'
    BY <1>5 DEF Grace, StartAlone, BusyOwnsCmd, WaitsForOwn, Busy
  <2>5. NoStray' /\ FinishedDead' /\ Fresh'
    BY <1>5, <2>1 DEF Grace, NoStray, FinishedDead, Fresh
  <2>6. FirstStage'
    BY <1>5, <2>1 DEF Grace, FirstStage
  <2> QED BY <2>3, <2>4, <2>5, <2>6
<1> QED BY <1>1, <1>2, <1>3, <1>4, <1>5 DEF RunnerStep

\* The invariant holds in every reachable state of a one-stage provider.
THEOREM ProviderInvariant == ProviderSpec => [](stages = 1 => ProviderInv)
<1> DEFINE Inv == stages = 1 => ProviderInv
<1>1. ProviderInit => Inv
  BY InitInv
<1>2. Inv /\ [ProviderNext]_provVars => Inv'
  <2> SUFFICES ASSUME Inv, [ProviderNext]_provVars, stages' = 1
               PROVE  ProviderInv'
    OBVIOUS
  <2>0. stages' = stages
    BY DEF provVars, ProviderNext, RunStep, Enter, Exec, Wait, Reap, NotRunning,
           Relock, ProcExit, ProcKilled, NewTry, GiveUp, RunnerStep,
           AwaitStarted, SyncDone, Terminate, Signal, Grace, Over
  <2>1. ProviderInv
    BY <2>0
  <2>2. CASE UNCHANGED provVars
    BY <2>1, <2>2 DEF provVars, ProviderInv, ProviderTypeOK, StartAlone,
                      BusyOwnsCmd, WaitsForOwn, Busy, NoStray, FinishedDead,
                      FirstStage, Fresh
  <2>3. CASE \E t \in Tries : RunStep(t)
    BY <2>1, <2>3, RunStepInv
  <2>4. CASE \E c \in CmdJobs : ProcExit(c) \/ ProcKilled(c)
    BY <2>1, <2>4, ProcInv
  <2>5. CASE NewTry \/ GiveUp \/ RunnerStep
    BY <2>1, <2>5, RunnerInv
  <2> QED BY <2>2, <2>3, <2>4, <2>5 DEF ProviderNext, Over
<1> QED BY <1>1, <1>2, PTL DEF ProviderSpec

\* The live process, if any, is that of p.cmd.
LEMMA RunningIsCmd ==
    ASSUME ProviderInv
    PROVE  \A c \in Running : c = cmd /\ c \notin finished
BY CmdJobPairs DEF ProviderInv, Running, NoStray, BusyOwnsCmd, Busy, FinishedDead,
                   FirstStage

\* A one-stage provider never has two processes at a time: Start's check of
\* IsRunning is enough, however many tries are terminated and left behind.
THEOREM OneProcess == ProviderSpec => []SingleProcess
<1>1. (stages = 1 => ProviderInv) => SingleProcess
  <2> SUFFICES ASSUME ProviderInv PROVE SingleProcess
    BY DEF SingleProcess
  <2>1. CASE Running = {}
    BY <2>1, FS_EmptySet DEF SingleProcess
  <2>2. CASE Running # {}
    <3>1. Running = {cmd}
      BY <2>2, RunningIsCmd
    <3>2. Cardinality({cmd}) = 1
      BY FS_Singleton
    <3> QED BY <3>1, <3>2 DEF SingleProcess
  <2> QED BY <2>1, <2>2
<1> QED BY <1>1, ProviderInvariant, PTL

\* When Terminate of a one-stage provider fails, there is no process left that
\* the run, which ends there, should have terminated.
THEOREM TerminateErrorIsHarmless ==
    ProviderSpec => ErrorMeansDead
<1>1. (stages = 1 => ProviderInv) /\ [ProviderNext]_provVars
        => [stages = 1 /\ rpc = "signal" /\ rpc' = "idle" => Running = {}]_provVars
  <2> SUFFICES ASSUME ProviderInv, ProviderNext, rpc = "signal", rpc' = "idle"
               PROVE  Running = {}
    OBVIOUS
  <2>1. Signal
    BY DEF ProviderNext, RunStep, Enter, Exec, Wait, Reap, NotRunning, Relock,
           ProcExit, ProcKilled, NewTry, GiveUp, RunnerStep, AwaitStarted,
           SyncDone, Terminate, Grace, Over
  <2>2. proc[cmd] = "none" \/ cmd \in finished
    BY <2>1 DEF Signal
  <2> QED BY <2>2, RunningIsCmd DEF Running
<1> QED BY <1>1, ProviderInvariant, PTL DEF ProviderSpec, ErrorMeansDead
-----------------------------------------------------------------------------
(***************************************************************************)
(* Stages in order, for providers of both kinds.                           *)
(***************************************************************************)

\* The types that the order of the stages rests on.
StageTypes ==
    /\ stages \in 1..2 /\ try \in Nat
    /\ cmd \in CmdJobs \cup {NoCmd}
    /\ proc \in [CmdJobs -> ProcState]
    /\ gpc \in [Tries -> {"off", "run", "exec", "unlocked", "wait", "reaped",
                          "relock", "done"}]
    /\ stage \in [Tries -> 1..2]
    /\ target \in [Tries -> CmdJobs \cup {NoCmd}]

\* A goroutine that has not got the lock yet has started nothing, and tries to
\* come have no goroutine.
NotBegun ==
    \A t \in Tries :
        /\ t > try => gpc[t] = "off"
        /\ gpc[t] \in {"off", "run"} =>
              stage[t] = 1 /\ proc[<<t, 1>>] = "none" /\ proc[<<t, 2>>] = "none"

\* As long as there is no second try, p.cmd and the cmdJob that the goroutine
\* waits for are those of its stage, that stage begins with no process, and the
\* one before it has ended well.
FirstTryAlone ==
    1 \in Tries /\ try <= 1 =>
        /\ gpc[1] = "exec" => proc[<<1, stage[1]>>] = "none"
        /\ stage[1] = 1 => proc[<<1, 2>>] = "none"
        /\ stage[1] = 2 => proc[<<1, 1>>] = "ok"
        /\ gpc[1] = "unlocked" => cmd = <<1, stage[1]>>
        /\ gpc[1] \in {"wait", "reaped", "relock"} => target[1] = <<1, stage[1]>>
        /\ gpc[1] \in {"reaped", "relock"} => proc[target[1]] \in {"ok", "err"}

StagesInv == StageTypes /\ NotBegun /\ FirstTryAlone

\* The initial states satisfy it.
LEMMA StagesInit == ProviderInit => StagesInv
<1> SUFFICES ASSUME ProviderInit PROVE StagesInv
  OBVIOUS
<1>1. StageTypes
  BY ProviderAssumption DEF ProviderInit, StageTypes, ProcState
<1>2. NotBegun /\ FirstTryAlone
  BY CmdJobPairs DEF ProviderInit, NotBegun, FirstTryAlone
<1> QED BY <1>1, <1>2 DEF StagesInv

\* The goroutine of a try preserves it: another try than the first has one only
\* when there is a second try.
LEMMA RunStepStages ==
    ASSUME StagesInv, NEW t \in Tries, RunStep(t)
    PROVE  StagesInv'
<1> USE CmdJobPairs DEF StagesInv, StageTypes, ProcState
<1>0. /\ gpc[t] # "off" /\ ~(t > try) /\ try' = try /\ stages' = stages
      /\ t # 1 => ~(try <= 1)
  <2>1. gpc[t] # "off" /\ try' = try /\ stages' = stages
    BY DEF RunStep, Enter, Exec, Wait, Reap, NotRunning, Relock
  <2>2. ~(t > try)
    BY <2>1 DEF NotBegun
  <2>3. t \in Nat /\ t >= 1
    BY ProviderAssumption DEF Tries
  <2> QED BY <2>1, <2>2, <2>3
<1>1. CASE Enter(t)
  <2>1. /\ gpc[t] = "run" /\ UNCHANGED <<cmd, proc, stage, target>>
        /\ \/ gpc' = [gpc EXCEPT ![t] = "done"]
           \/ gpc' = [gpc EXCEPT ![t] = "exec"]
    BY <1>1 DEF Enter, Finish
  <2>2. StageTypes' /\ NotBegun'
    BY <1>0, <2>1 DEF NotBegun
  <2>3. FirstTryAlone'
    BY <1>0, <2>1 DEF FirstTryAlone, NotBegun
  <2> QED BY <2>2, <2>3
<1>2. CASE Exec(t)
  <2>1. /\ gpc[t] = "exec" /\ UNCHANGED <<stage, target>> /\ cmd' = <<t, stage[t]>>
        /\ \/ gpc' = [gpc EXCEPT ![t] = "done"] /\ proc' = proc
           \/ /\ gpc' = [gpc EXCEPT ![t] = "unlocked"]
              /\ proc' = [proc EXCEPT ![<<t, stage[t]>>] = "alive"]
    BY <1>2 DEF Exec, Finish
  <2>2. stage[t] \in 1..2 /\ <<t, stage[t]>> \in CmdJobs
    BY DEF CmdJobs
  <2>3. StageTypes'
    BY <1>0, <2>1, <2>2
  <2>4. NotBegun'
    <3>1. ASSUME NEW u \in Tries, u # t
          PROVE  /\ gpc'[u] = gpc[u]
                 /\ proc'[<<u, 1>>] = proc[<<u, 1>>] /\ proc'[<<u, 2>>] = proc[<<u, 2>>]
      BY <2>1, <2>2, <3>1
    <3>2. gpc'[t] \in {"done", "unlocked"}
      BY <2>1
    <3>3. ASSUME NEW u \in Tries
          PROVE  /\ u > try => gpc'[u] = "off"
                 /\ gpc'[u] \in {"off", "run"} =>
                      /\ stage[u] = 1
                      /\ proc'[<<u, 1>>] = "none" /\ proc'[<<u, 2>>] = "none"
      <4>1. CASE u = t
        BY <1>0, <3>2, <4>1
      <4>2. CASE u # t
        BY <3>1, <4>2 DEF NotBegun
      <4> QED BY <4>1, <4>2
    <3> QED BY <1>0, <2>1, <3>3 DEF NotBegun
  <2>5. FirstTryAlone'
    BY <1>0, <2>1, <2>2 DEF FirstTryAlone
  <2> QED BY <2>3, <2>4, <2>5
<1>3. CASE Wait(t)
  <2>1. StageTypes' /\ NotBegun'
    BY <1>0, <1>3 DEF Wait, NotBegun
  <2>2. FirstTryAlone'
    BY <1>0, <1>3 DEF Wait, FirstTryAlone
  <2> QED BY <2>1, <2>2
<1>4. CASE Reap(t)
  <2>1. StageTypes' /\ NotBegun'
    BY <1>0, <1>4 DEF Reap, NotBegun
  <2>2. FirstTryAlone'
    BY <1>0, <1>4 DEF Reap, Dead, FirstTryAlone
  <2> QED BY <2>1, <2>2
<1>5. CASE NotRunning(t)
  <2>1. /\ gpc[t] = "reaped" /\ UNCHANGED <<cmd, proc, stage, target>>
        /\ \/ gpc' = [gpc EXCEPT ![t] = "done"]
           \/ gpc' = [gpc EXCEPT ![t] = "relock"]
    BY <1>5 DEF NotRunning, Finish
  <2>2. StageTypes' /\ NotBegun'
    BY <1>0, <2>1 DEF NotBegun
  <2>3. FirstTryAlone'
    BY <1>0, <2>1 DEF FirstTryAlone
  <2> QED BY <2>2, <2>3
<1>6. CASE Relock(t)
  <2>1. /\ gpc[t] = "relock" /\ UNCHANGED <<cmd, proc, target>>
        /\ \/ gpc' = [gpc EXCEPT ![t] = "done"] /\ stage' = stage
           \/ /\ gpc' = [gpc EXCEPT ![t] = "exec"]
              /\ stage[t] = 1 /\ stage' = [stage EXCEPT ![t] = 2]
              /\ proc[target[t]] = "ok"
    BY <1>6 DEF Relock, Finish
  <2>2. StageTypes' /\ NotBegun'
    BY <1>0, <2>1 DEF NotBegun
  <2>3. FirstTryAlone'
    BY <1>0, <2>1 DEF FirstTryAlone
  <2> QED BY <2>2, <2>3
<1> QED BY <1>1, <1>2, <1>3, <1>4, <1>5, <1>6 DEF RunStep

\* Processes that exit or are killed, and the runner, preserve it.
LEMMA OthersStages ==
    ASSUME StagesInv,
           \/ \E c \in CmdJobs : ProcExit(c) \/ ProcKilled(c)
           \/ NewTry \/ GiveUp \/ RunnerStep
    PROVE  StagesInv'
<1> USE CmdJobPairs DEF StagesInv, StageTypes, ProcState
<1>1. CASE \E c \in CmdJobs : ProcExit(c) \/ ProcKilled(c)
  <2>1. PICK c \in CmdJobs : ProcExit(c) \/ ProcKilled(c)
    BY <1>1
  <2>2. /\ proc[c] \in {"alive", "killed"}
        /\ \E e \in {"ok", "err"} : proc' = [proc EXCEPT ![c] = e]
        /\ UNCHANGED <<stages, cmd, gpc, stage, target, try>>
    BY <2>1 DEF ProcExit, ProcKilled
  <2>3. StageTypes' /\ NotBegun'
    BY <2>2 DEF NotBegun
  <2>4. FirstTryAlone'
    BY <2>2 DEF FirstTryAlone, CmdJobs
  <2> QED BY <2>3, <2>4
<1>2. CASE NewTry
  <2>0. try + 1 \in Tries /\ gpc[try + 1] = "off"
    <3>1. try \in Nat /\ try + 1 \in Tries /\ try + 1 > try
      BY <1>2, ProviderAssumption DEF NewTry, Tries
    <3> QED BY <3>1 DEF NotBegun
  <2>1. StageTypes'
    BY <1>2, <2>0 DEF NewTry
  <2>2. NotBegun'
    <3>1. \A u \in Tries : u > try + 1 => u > try /\ u # try + 1
      BY ProviderAssumption DEF Tries
    <3>2. ~(try + 1 > try + 1)
      OBVIOUS
    <3>3. /\ try' = try + 1 /\ proc' = proc /\ stage' = stage
          /\ gpc' = [gpc EXCEPT ![try + 1] = "run"]
      BY <1>2 DEF NewTry
    <3> QED BY <2>0, <3>1, <3>2, <3>3 DEF NotBegun
  <2>3. FirstTryAlone'
    BY <1>2, <2>0 DEF NewTry, FirstTryAlone, NotBegun
  <2> QED BY <2>1, <2>2, <2>3
<1>3. CASE GiveUp \/ AwaitStarted \/ SyncDone \/ Terminate \/ Signal
  <2>1. UNCHANGED <<stages, cmd, proc, gpc, stage, target, try>>
    BY <1>3 DEF GiveUp, AwaitStarted, SyncDone, Terminate, Signal
  <2> QED BY <2>1 DEF NotBegun, FirstTryAlone
<1>4. CASE Grace
  <2>1. /\ \A c \in CmdJobs : \/ proc'[c] = proc[c]
                              \/ proc[c] = "alive" /\ proc'[c] = "killed"
        /\ proc' \in [CmdJobs -> ProcState]
        /\ UNCHANGED <<stages, cmd, gpc, stage, target, try>>
    BY <1>4 DEF Grace
  <2>2. StageTypes' /\ NotBegun'
    BY <2>1 DEF NotBegun
  <2>3. FirstTryAlone'
    BY <2>1 DEF FirstTryAlone, CmdJobs
  <2> QED BY <2>2, <2>3
<1> QED BY <1>1, <1>2, <1>3, <1>4 DEF RunnerStep

\* Until a try has been left to go on beside the next, the second stage of a
\* two-stage rsync, the one that deletes, runs alone and after a first stage that
\* succeeded, whenever it is terminated and whatever its processes do
\* (twoStageRsyncProvider.Run).
THEOREM SecondStageLast == ProviderSpec => []StagesInOrder
<1>1. StagesInv /\ [ProviderNext]_provVars => StagesInv'
  <2>1. ASSUME StagesInv, UNCHANGED provVars PROVE StagesInv'
    BY <2>1 DEF provVars, StagesInv, StageTypes, NotBegun, FirstTryAlone
  <2> QED BY <2>1, RunStepStages, OthersStages DEF ProviderNext, Over
<1>2. StagesInv => StagesInOrder
  <2> SUFFICES ASSUME StagesInv, <<1, 2>> \in Running, try = 1
               PROVE  proc[<<1, 1>>] = "ok" /\ Running = {<<1, 2>>}
    BY DEF StagesInOrder
  <2>1. 1 \in Tries /\ proc[<<1, 2>>] # "none"
    BY DEF Running, CmdJobs
  <2>2. proc[<<1, 1>>] = "ok"
    BY <2>1 DEF StagesInv, StageTypes, FirstTryAlone
  <2>3. ASSUME NEW c \in Running PROVE c = <<1, 2>>
    <3>1. c \in CmdJobs /\ proc[c] \in {"alive", "killed"}
      BY <2>3 DEF Running
    <3>2. CASE c[1] = 1
      BY <2>2, <3>1, <3>2, CmdJobPairs
    <3>3. CASE c[1] # 1
      <4>1. c[1] \in Tries /\ c[1] > try
        BY <3>1, <3>3, CmdJobPairs DEF Tries
      <4>2. proc[<<c[1], 1>>] = "none" /\ proc[<<c[1], 2>>] = "none"
        BY <4>1 DEF StagesInv, NotBegun
      <4> QED BY <3>1, <4>2, CmdJobPairs
    <3> QED BY <3>2, <3>3
  <2> QED BY <2>2, <2>3
<1> QED BY <1>1, <1>2, StagesInit, PTL DEF ProviderSpec

-----------------------------------------------------------------------------
(***************************************************************************)
(* initCgroup.                                                             *)
(***************************************************************************)

\* While initCgroup is at work, the groups that it has passed are empty, and
\* remain so: only what is in a group can start something in it.
BaseInv ==
    ipc \in {"load", "read", "move"} =>
        /\ base \in [{0} -> SUBSET BaseProcs] \/ base \in [1..Len(Subsystems) -> SUBSET BaseProcs]
        /\ sub \in DOMAIN base
        /\ \A s \in DOMAIN base : s < sub => base[s] = {}

\* initCgroup returns nil with the groups empty, or over a list of the v1
\* hierarchy that it could not read.
Emptied == ipc' = "done" => ~left' \/ (unread' /\ ~isUnified)

\* The base groups are in order, from the first to the last.
LEMMA GroupsInOrder ==
    ASSUME BaseInv, ipc \in {"load", "read", "move"}
    PROVE  /\ sub \in Int /\ FirstGroup \in Int /\ LastGroup \in Int
           /\ DOMAIN base = FirstGroup..LastGroup
<1>1. CASE base \in [{0} -> SUBSET BaseProcs]
  BY <1>1 DEF BaseInv, FirstGroup, LastGroup, isUnified
<1>2. CASE base \in [1..Len(Subsystems) -> SUBSET BaseProcs]
  <2>1. ~isUnified
    BY <1>2, CgroupAssumption DEF isUnified
  <2> QED
    BY <1>2, <2>1, CgroupAssumption DEF BaseInv, FirstGroup, LastGroup
<1> QED
  BY <1>1, <1>2 DEF BaseInv

\* The base groups lose processes, or get others where some are already.
LEMMA BaseShrinks ==
    ASSUME BaseInv, ipc \in {"load", "read", "move"}, ipc' = ipc, sub' = sub,
           DOMAIN base' = DOMAIN base,
           \A s \in DOMAIN base : base'[s] \subseteq BaseProcs /\ (base[s] = {} => base'[s] = {}),
           base' = [s \in DOMAIN base |-> base'[s]]
    PROVE  BaseInv'
BY DEF BaseInv

LEMMA BaseStep ==
    ASSUME BaseInv, InitCgroup
    PROVE  BaseInv' /\ (ipc # "done" => Emptied)
<1>1. CASE Load
  <2>1. CASE InitReturns(FALSE) \/ InitReturns(InBase = {})
    BY <2>1 DEF InitReturns, BaseInv, Emptied
  <2>2. CASE ListUnreadable
    BY <2>2 DEF ListUnreadable, InitReturns, BaseInv, Emptied
  <2>3. CASE ipc' = "read" /\ UNCHANGED <<base, sub, procs, adding, left, unread>>
    BY <1>1, <2>3 DEF Load, BaseInv, Emptied
  <2> QED
    BY <1>1, <2>1, <2>2, <2>3 DEF Load
<1>2. CASE ReadProcs
  <2>0. /\ BaseInv /\ ipc = "read"
        /\ sub \in DOMAIN base /\ DOMAIN base = FirstGroup..LastGroup
        /\ sub \in Int /\ FirstGroup \in Int /\ LastGroup \in Int
        /\ \A s \in DOMAIN base : s < sub => base[s] = {}
    BY <1>2, GroupsInOrder DEF ReadProcs, BaseInv
  <2>1. CASE ListUnreadable
    BY <2>1 DEF ListUnreadable, InitReturns, BaseInv, Emptied
  <2>2. CASE base[sub] = {} /\ sub = LastGroup /\ InitReturns(TRUE)
    <3>1. \A s \in DOMAIN base : base[s] = {}
      BY <2>0, <2>2
    <3>2. InBase = {}
      BY <3>1 DEF InBase
    <3> QED
      BY <2>2, <3>2 DEF InitReturns, BaseInv, Emptied
  <2>3. CASE ipc' = "move" /\ UNCHANGED <<base, sub>>
    BY <2>0, <2>3 DEF BaseInv, Emptied
  <2>4. CASE base[sub] = {} /\ sub < LastGroup /\ sub' = sub + 1 /\ UNCHANGED <<ipc, base>>
    <3>1. sub' \in DOMAIN base
      BY <2>0, <2>4
    <3>2. \A s \in DOMAIN base : s < sub' => base[s] = {}
      BY <2>0, <2>4
    <3> QED
      BY <2>0, <2>4, <3>1, <3>2 DEF BaseInv, Emptied
  <2> QED
    BY <1>2, <2>1, <2>2, <2>3, <2>4 DEF ReadProcs
<1>3. CASE AddStep
  <2>1. CASE InitReturns(FALSE)
    BY <2>1 DEF InitReturns, BaseInv, Emptied
  <2>2. CASE base' = [base EXCEPT ![adding[2]] = @ \ {adding[1]}] /\ UNCHANGED <<ipc, sub>>
    <3>1. ipc = "move" /\ DOMAIN base' = DOMAIN base
          /\ base' = [s \in DOMAIN base |-> base'[s]]
      BY <1>3, <2>2 DEF AddStep
    <3>2. \A s \in DOMAIN base : base[s] \subseteq BaseProcs
      BY <3>1 DEF BaseInv
    <3>3. \A s \in DOMAIN base : base'[s] \subseteq base[s]
      BY <2>2
    <3> QED
      BY <2>2, <3>1, <3>2, <3>3, BaseShrinks DEF Emptied
  <2>3. CASE UNCHANGED <<ipc, base, sub>>
    BY <1>3, <2>3 DEF AddStep, BaseInv, Emptied
  <2> QED
    BY <1>3, <2>1, <2>2, <2>3 DEF AddStep
<1>4. CASE MoveDone
  BY <1>4 DEF MoveDone, BaseInv, Emptied
<1>5. CASE \E p \in BaseProcs : MoveProc(p)
  BY <1>5 DEF MoveProc, BaseInv, Emptied
<1>6. CASE \E p \in BaseProcs : BaseExit(p)
  <2>1. PICK p \in BaseProcs : BaseExit(p)
    BY <1>6
  <2>2. CASE ipc \in {"load", "read", "move"}
    <3>1. /\ base' = [s \in DOMAIN base |-> base[s] \ {p}] /\ UNCHANGED <<ipc, sub>>
          /\ \A s \in DOMAIN base : base[s] \subseteq BaseProcs
      BY <2>1, <2>2 DEF BaseExit, BaseInv
    <3> QED
      BY <2>2, <3>1, BaseShrinks DEF Emptied
  <2> QED
    BY <2>1, <2>2 DEF BaseExit, BaseInv, Emptied
<1>7. CASE \E p, q \in BaseProcs : BaseFork(p, q)
  <2>1. PICK p \in BaseProcs, q \in BaseProcs : BaseFork(p, q)
    BY <1>7
  <2>2. CASE ipc \in {"load", "read", "move"}
    <3>1. /\ base' = [s \in DOMAIN base |->
                         IF p \in base[s] THEN base[s] \cup {q} ELSE base[s]]
          /\ UNCHANGED <<ipc, sub>>
          /\ \A s \in DOMAIN base : base[s] \subseteq BaseProcs
      BY <2>1, <2>2 DEF BaseFork, BaseInv
    <3> QED
      BY <2>2, <3>1, BaseShrinks DEF Emptied
  <2> QED
    BY <2>1, <2>2 DEF BaseFork, BaseInv, Emptied
<1> QED
  BY <1>1, <1>2, <1>3, <1>4, <1>5, <1>6, <1>7 DEF InitCgroup

\* When initCgroup returns nil, the base groups are empty, however the processes
\* in them go on forking, unless it is over a list of the v1 hierarchy that could
\* not be read (cgroup.go).
THEOREM BaseGroupEmptied == CgSpec => BaseLeftEmpty
<1>1. CgInit => BaseInv
  <2> SUFFICES ASSUME CgInit PROVE BaseInv
    OBVIOUS
  <2>1. PICK G \in {{0}, DOMAIN Subsystems}, B \in SUBSET BaseProcs : base = [s \in G |-> B]
    BY DEF CgInit
  <2>2. sub = FirstGroup
    BY DEF CgInit
  <2>3. CASE G = {0}
    BY <2>1, <2>2, <2>3 DEF BaseInv, FirstGroup, isUnified
  <2>4. CASE G = DOMAIN Subsystems
    <3>1. base = [s \in 1..Len(Subsystems) |-> B] /\ Len(Subsystems) \in Nat \ {0}
      BY <2>1, <2>4, CgroupAssumption
    <3>2. sub = 1
      BY <2>2, <3>1 DEF FirstGroup, isUnified
    <3> QED
      BY <3>1, <3>2 DEF BaseInv
  <2> QED
    BY <2>3, <2>4
<1>2. BaseInv /\ [CgNext]_cVars => BaseInv' /\ (ipc # "done" => Emptied)
  <2> SUFFICES ASSUME BaseInv, [CgNext]_cVars
               PROVE  BaseInv' /\ (ipc # "done" => Emptied)
    OBVIOUS
  <2>1. InitCgroup \/ UNCHANGED initVars
    BY DEF CgNext, HookRun, StartRun, StartStep, ProviderRest, ChildStep, KidEnds,
           KidFork, Crash, Settled, cVars, cgVars
  <2>2. CASE UNCHANGED initVars
    BY <2>2 DEF initVars, BaseInv, Emptied
  <2> QED
    BY <2>1, <2>2, BaseStep
<1>3. BaseInv /\ [CgNext]_cVars =>
          [ipc # "done" /\ ipc' = "done" => ~left' \/ (unread' /\ ~isUnified)]_cVars
  BY <1>2 DEF Emptied
<1> QED
  BY <1>1, <1>2, <1>3, PTL DEF CgSpec, BaseLeftEmpty

-----------------------------------------------------------------------------
(***************************************************************************)
(* The handshake and the group, for providers of either kind.              *)
(***************************************************************************)

\* Every variable of Start, the hook and the processes has its type.
CgTypeOK ==
    /\ ProviderTypeOK
    /\ group \in BOOLEAN /\ cgMgr \in BOOLEAN /\ panicked \in BOOLEAN
    /\ hook \in {"idle", "ready", "run", "list", "kill", "delete", "unread"}
    /\ start \in [Tries -> {"idle", "add", "cont"}]
    /\ image \in [CmdJobs -> {"none", "tunasync-exec", "command"}]
    /\ pipe \in [CmdJobs -> {"none", "open", "cont", "eof"}]
    /\ kid \in [Kids -> {"none", "alive", "killed", "dead"}]
    /\ crashes \in Nat

\* A goroutine waits for a cmdJob there is, and what it has waited for is dead.
TargetDead ==
    \A t \in Tries :
        /\ gpc[t] = "unlocked" \/ start[t] # "idle" => cmd \in CmdJobs
        /\ gpc[t] \in {"wait", "reaped", "relock"} => target[t] \in CmdJobs
        /\ gpc[t] \in {"reaped", "relock"} => Dead(target[t])

\* Start, once it has forked, has a child with an open pipe.
InStart ==
    \A t \in Tries : start[t] # "idle" =>
        gpc[t] = "exec" /\ pipe[Cmd(t)] = "open" /\ proc[Cmd(t)] # "none"

\* A stage that has not been started has no process.
NotYetOf(t) ==
    /\ t > try => gpc[t] = "off"
    /\ gpc[t] \in {"off", "run"} => stage[t] = 1 /\ proc[<<t, 1>>] = "none"
    /\ gpc[t] = "exec" /\ start[t] = "idle" => proc[Cmd(t)] = "none"
    /\ stage[t] = 1 => proc[<<t, 2>>] = "none"
NotYet == \A t \in Tries : NotYetOf(t)

\* A child that was released, or is about to be, is in the group; only such a
\* child is the command.
InGroup ==
    /\ \A c \in Running : pipe[c] = "cont" => c \in member
    /\ \A t \in Tries : start[t] = "cont" /\ Cmd(t) \in Running => Cmd(t) \in member
    /\ \A c \in Running : image[c] = "command" => pipe[c] = "cont"
    /\ LiveKids \subseteq member
    /\ cgMgr \/ member # {} => group

CgInv == CgTypeOK /\ TargetDead /\ InStart /\ NotYet /\ InGroup

-----------------------------------------------------------------------------
(***************************************************************************)
(* Start finds its group: a provider of one stage.                         *)
(***************************************************************************)

\* A goroutine that has yet to start its process belongs to the current try,
\* and the runner waits for it: the hook is not called before Start is over.
RunnerWaits ==
    /\ \A t \in Tries :
          /\ gpc[t] \in {"run", "exec"} => t = try /\ rpc = "start"
          /\ gpc[t] \in {"off", "run", "exec"} => t \notin started
          /\ gpc[t] # "done" => syncDone[t] = "none"
          /\ stage[t] = 1 /\ gpc[t] # "relock"
    /\ rpc # "idle" => hook = "run"
    /\ hook \in {"ready", "run"} => cgMgr
    /\ ~panicked

-----------------------------------------------------------------------------
(***************************************************************************)
(* The handshake implements Exec: one stage, and the worker does not die.  *)
(***************************************************************************)

\* p.isRunning is for a goroutine that is busy with its process.
RunningIsBusy == isRunning => \E t \in Tries : Busy(t)

\* Whoever is busy was started, and so was whatever Terminate signals.
Released ==
    /\ \A t \in Tries : Busy(t) => pipe[<<t, 1>>] = "cont"
    /\ rpc \in {"signal", "grace"} => cmd \in CmdJobs /\ pipe[cmd] = "cont"

\* The live process is the one of the current try, and once the runner has done
\* with the try it is killed at least.
OneAlive ==
    \A c \in CmdJobs :
        /\ proc[c] \in {"alive", "killed"} /\ pipe[c] = "cont" =>
              gpc[c[1]] \in {"unlocked", "wait"}
        /\ proc[c] = "alive" /\ pipe[c] = "cont" => c[1] = try /\ rpc # "idle"
        /\ pipe[c] = "open" => start[c[1]] # "idle" /\ proc[c] # "killed"
        /\ pipe[c] # "none" => c = <<c[1], 1>> /\ c[1] <= try

\* Before Start there is no pipe.
Unforked ==
    \A t \in Tries :
        gpc[t] \in {"off", "run"} \/ (gpc[t] = "exec" /\ start[t] = "idle") =>
            pipe[<<t, 1>>] = "none"

\* p.cmd is the cmdJob that was made last.
Made == {t \in Tries : pipe[<<t, 1>>] # "none"}
CmdIsLast ==
    /\ (\A t \in Tries : start[t] = "idle") => cmd = LastOf(Made)
    /\ \A t \in Tries : start[t] # "idle" => cmd = <<t, 1>>

ImplInv ==
    /\ StartAlone /\ BusyOwnsCmd /\ WaitsForOwn /\ FinishedDead
    /\ RunningIsBusy /\ Released /\ OneAlive /\ Unforked /\ CmdIsLast

OneStageInv == stages = 1 => RunnerWaits /\ (crashes = 0 => ImplInv)
-----------------------------------------------------------------------------
(***************************************************************************)
(* CgInv is an invariant.                                                  *)
(***************************************************************************)

\* The cmdJob of a stage is that of a try and no other.
LEMMA CmdFacts ==
    ASSUME ProviderTypeOK
    PROVE  /\ \A t \in Tries : /\ Cmd(t) \in CmdJobs /\ Cmd(t)[1] = t
                               /\ stage[t] = 1 => Cmd(t) = <<t, 1>>
                               /\ stage[t] = 2 => Cmd(t) = <<t, 2>>
           /\ \A t, u \in Tries : t # u =>
                 /\ Cmd(t) # <<u, 1>> /\ Cmd(t) # <<u, 2>> /\ Cmd(t) # Cmd(u)
                 /\ <<t, 1>> # <<u, 1>>
           /\ \A t, u \in Tries : <<t, 1>> # <<u, 2>>
BY DEF ProviderTypeOK, Cmd, CmdJobs

\* A step of one goroutine and its process leaves what is not started.
LEMMA NotYetStep ==
    ASSUME CgInv, UNCHANGED <<stage, try>>, NEW t \in Tries, gpc[t] # "off",
           gpc'[t] \notin {"off", "run"},
           gpc'[t] = "exec" /\ start'[t] = "idle" => proc'[Cmd(t)] = "none",
           stage[t] = 1 => proc'[<<t, 2>>] = "none",
           \A u \in Tries \ {t} :
               /\ gpc'[u] = gpc[u] /\ start'[u] = start[u]
               /\ proc'[<<u, 1>>] = proc[<<u, 1>>] /\ proc'[<<u, 2>>] = proc[<<u, 2>>]
    PROVE  NotYet'
<1>1. \A u \in Tries : /\ Cmd(u)' = Cmd(u)
                       /\ Cmd(u) = <<u, 1>> \/ Cmd(u) = <<u, 2>>
  BY CmdFacts DEF Cmd, CgInv, CgTypeOK, ProviderTypeOK
<1>2. NotYetOf(t)'
  BY <1>1 DEF CgInv, NotYet, NotYetOf
<1>3. ASSUME NEW u \in Tries \ {t} PROVE NotYetOf(u)'
  <2>1. /\ gpc'[u] = gpc[u] /\ start'[u] = start[u] /\ Cmd(u)' = Cmd(u)
        /\ proc'[<<u, 1>>] = proc[<<u, 1>>] /\ proc'[<<u, 2>>] = proc[<<u, 2>>]
        /\ proc'[Cmd(u)] = proc[Cmd(u)] /\ stage' = stage /\ try' = try
    BY <1>1
  <2> QED BY <2>1 DEF CgInv, NotYet, NotYetOf
<1> QED
  BY <1>2, <1>3 DEF NotYet

LEMMA CgInitInv == CgInit => CgInv
<1> SUFFICES ASSUME CgInit PROVE CgInv
  OBVIOUS
<1>1. ProviderTypeOK
  <2>1. stage \in [Tries -> 1..2] /\ try \in 0..MaxTries
    BY ProviderAssumption DEF CgInit, ProviderInit
  <2> QED
    BY <2>1 DEF CgInit, ProviderInit, ProviderTypeOK, ProcState
<1>2. CgTypeOK
  BY <1>1 DEF CgInit, CgTypeOK
<1>3. TargetDead /\ InStart
  BY DEF CgInit, ProviderInit, TargetDead, InStart
<1>4. NotYet
  BY CmdJobPairs DEF CgInit, ProviderInit, NotYet, NotYetOf
<1>5. InGroup
  BY DEF CgInit, ProviderInit, InGroup, Running, LiveKids
<1> QED
  BY <1>2, <1>3, <1>4, <1>5 DEF CgInv

\* Steps of the hook.
LEMMA HookRunInv == ASSUME CgInv, HookRun PROVE CgInv'
<1> USE DEF CgInv, CgTypeOK, ProviderTypeOK, ProcState
<1>0. UNCHANGED <<stages, lock, isRunning, cmd, finished, gpc, stage, target, started,
                  syncDone, rpc, try, start, image, pipe, member, panicked, crashes>>
  BY DEF HookRun
<1>1. CASE UNCHANGED <<proc, kid>>
  <2>0. group' \in BOOLEAN /\ cgMgr' \in BOOLEAN
    BY DEF HookRun, HookStep, PreExec, PostExec, ListTasks, NextRound, DeleteGroup,
           KillTask
  <2>1. CgTypeOK'
    BY <1>0, <1>1, <2>0 DEF HookRun, HookStep, PreExec, PostExec, ListTasks,
                            NextRound, DeleteGroup, KillTask
  <2>2. TargetDead' /\ InStart' /\ NotYet'
    BY <1>0, <1>1 DEF TargetDead, InStart, NotYet, NotYetOf, Cmd, Dead
  <2>3. cgMgr' \/ member # {} => group'
    BY DEF InGroup, HookRun, HookStep, PreExec, PostExec, ListTasks, NextRound,
           DeleteGroup, KillTask
  <2>4. InGroup'
    BY <1>0, <1>1, <2>3 DEF InGroup, Running, LiveKids, Cmd
  <2> QED BY <2>1, <2>2, <2>4
<1>2. CASE \E p \in member \cup taskList : KillTask(p)
  <2>0. UNCHANGED <<group, cgMgr, hook>>
    BY <1>2 DEF KillTask
  <2>1. \A c \in CmdJobs : \/ proc'[c] = proc[c]
                           \/ proc[c] = "alive" /\ proc'[c] = "killed"
    BY <1>2 DEF KillTask
  <2>2. \A k \in Kids : \/ kid'[k] = kid[k]
                        \/ kid[k] = "alive" /\ kid'[k] = "killed"
    BY <1>2 DEF KillTask
  <2>3. /\ proc' \in [CmdJobs -> ProcState]
        /\ kid' \in [Kids -> {"none", "alive", "killed", "dead"}]
    BY <1>2 DEF KillTask
  <2>4. CgTypeOK'
    BY <1>0, <2>0, <2>3
  <2>5. TargetDead'
    BY <1>0, <2>1 DEF TargetDead, Dead
  <2>6. InStart' /\ NotYet'
    BY <1>0, <2>1, CmdFacts, CmdJobPairs DEF InStart, NotYet, NotYetOf, Cmd
  <2>7. Running' = Running /\ LiveKids' = LiveKids
    BY <2>1, <2>2 DEF Running, LiveKids
  <2>8. InGroup'
    BY <1>0, <2>0, <2>7 DEF InGroup, Cmd
  <2> QED BY <2>4, <2>5, <2>6, <2>8
<1> QED
  BY <1>1, <1>2 DEF HookRun, HookStep

\* A step of Start changes its own goroutine, child and pipe.
LEMMA StartFrame ==
    ASSUME CgInv, CgTypeOK', NEW t \in Tries, gpc[t] = "exec",
           UNCHANGED <<stage, target, try, kid, group, cgMgr>>,
           \A u \in Tries : u # t => gpc'[u] = gpc[u] /\ start'[u] = start[u],
           \A c \in CmdJobs : c # Cmd(t) =>
               proc'[c] = proc[c] /\ pipe'[c] = pipe[c] /\ image'[c] = image[c],
           cmd' \in CmdJobs, gpc'[t] \in {"exec", "unlocked", "done"},
           gpc'[t] = "exec" <=> start'[t] # "idle",
           start'[t] # "idle" => pipe'[Cmd(t)] = "open" /\ proc'[Cmd(t)] # "none",
           proc[Cmd(t)] = "none" \/ proc'[Cmd(t)] = proc[Cmd(t)],
           member \subseteq member', member' # {} => group,
           Cmd(t) \in Running' =>
               /\ pipe'[Cmd(t)] = "cont" \/ start'[t] = "cont" => Cmd(t) \in member'
               /\ image'[Cmd(t)] = "command" => pipe'[Cmd(t)] = "cont"
    PROVE  CgInv'
<1> DEFINE C == Cmd(t)
<1>1. /\ C \in CmdJobs /\ (C = <<t, 1>> \/ C = <<t, 2>>)
      /\ stage[t] = 1 => C # <<t, 2>>
      /\ \A u \in Tries : /\ Cmd(u)' = Cmd(u) /\ Cmd(u) \in CmdJobs
                          /\ <<u, 1>> \in CmdJobs /\ <<u, 2>> \in CmdJobs
                          /\ u # t => C # <<u, 1>> /\ C # <<u, 2>> /\ C # Cmd(u)
  BY CmdFacts, CmdJobPairs DEF CgInv, CgTypeOK, ProviderTypeOK, Cmd
<1> HIDE DEF C
<1>2. TargetDead'
  <2> SUFFICES ASSUME NEW u \in Tries
               PROVE  /\ gpc'[u] \in {"wait", "reaped", "relock"} => target[u] \in CmdJobs
                      /\ gpc'[u] \in {"reaped", "relock"} =>
                            proc'[target[u]] \in {"ok", "err"}
    BY DEF TargetDead, Dead
  <2>1. CASE u = t
    BY <2>1
  <2>2. CASE u # t
    <3>1. gpc'[u] = gpc[u]
      BY <2>2
    <3>2. ASSUME gpc[u] \in {"reaped", "relock"}
          PROVE  proc'[target[u]] \in {"ok", "err"}
      <4>1. target[u] \in CmdJobs /\ proc[target[u]] \in {"ok", "err"}
        BY <3>2 DEF CgInv, TargetDead, Dead
      <4>2. target[u] = C => proc'[target[u]] = proc[target[u]]
        BY <4>1 DEF C
      <4> QED BY <4>1, <4>2 DEF C
    <3> QED BY <3>1, <3>2 DEF CgInv, TargetDead
  <2> QED BY <2>1, <2>2
<1>3. InStart'
  <2> SUFFICES ASSUME NEW u \in Tries, start'[u] # "idle"
               PROVE  gpc'[u] = "exec" /\ pipe'[Cmd(u)] = "open" /\ proc'[Cmd(u)] # "none"
    BY <1>1 DEF InStart
  <2>1. CASE u = t
    BY <2>1
  <2>2. CASE u # t
    <3>1. gpc'[u] = gpc[u] /\ start'[u] = start[u]
      BY <2>2
    <3>2. proc'[Cmd(u)] = proc[Cmd(u)] /\ pipe'[Cmd(u)] = pipe[Cmd(u)]
      BY <1>1, <2>2 DEF C
    <3> QED BY <3>1, <3>2 DEF CgInv, InStart
  <2> QED BY <2>1, <2>2
<1>4. NotYet'
  <2>1. stage[t] = 1 => proc'[<<t, 2>>] = "none"
    BY <1>1 DEF CgInv, NotYet, NotYetOf, C
  <2>2. \A u \in Tries \ {t} :
            /\ gpc'[u] = gpc[u] /\ start'[u] = start[u]
            /\ proc'[<<u, 1>>] = proc[<<u, 1>>] /\ proc'[<<u, 2>>] = proc[<<u, 2>>]
    BY <1>1 DEF C
  <2>3. UNCHANGED <<stage, try>> /\ gpc'[t] \notin {"off", "run"} /\ gpc[t] # "off"
    OBVIOUS
  <2>4. ~(gpc'[t] = "exec" /\ start'[t] = "idle")
    OBVIOUS
  <2> QED BY <2>1, <2>2, <2>3, <2>4, NotYetStep
<1>5. InGroup'
  <2>1. ASSUME NEW c \in Running', c # C
        PROVE  c \in Running /\ pipe'[c] = pipe[c] /\ image'[c] = image[c]
    BY <2>1 DEF Running, C
  <2>2. \A c \in Running' : /\ pipe'[c] = "cont" => c \in member'
                            /\ image'[c] = "command" => pipe'[c] = "cont"
    BY <2>1 DEF CgInv, InGroup, C
  <2>3. ASSUME NEW u \in Tries, start'[u] = "cont", Cmd(u) \in Running'
        PROVE  Cmd(u) \in member'
    <3>1. CASE u = t
      BY <2>3, <3>1
    <3>2. CASE u # t
      <4>1. start[u] = "cont" /\ Cmd(u) # C
        BY <1>1, <2>3, <3>2
      <4> QED BY <2>1, <2>3, <4>1 DEF CgInv, InGroup
    <3> QED BY <3>1, <3>2
  <2>4. LiveKids' = LiveKids
    BY DEF LiveKids
  <2> QED
    BY <1>1, <2>2, <2>3, <2>4 DEF CgInv, InGroup
<1> QED
  BY <1>2, <1>3, <1>4, <1>5 DEF CgInv

\* Steps of Start.
LEMMA StartStepInv == ASSUME CgInv, NEW t \in Tries, StartStep(t) PROVE CgInv'
<1> DEFINE C == Cmd(t)
<1>0. /\ UNCHANGED <<stages, finished, stage, target, rpc, try, group, cgMgr, hook,
                     kid, crashes>>
      /\ C \in CmdJobs /\ Cmd(t)' = C
  BY CmdFacts DEF StartStep, hookVars, Cmd, CgInv, CgTypeOK
<1> HIDE DEF C
<1>t. /\ pipe \in [CmdJobs -> {"none", "open", "cont", "eof"}]
      /\ start \in [Tries -> {"idle", "add", "cont"}]
      /\ gpc \in [Tries -> {"off", "run", "exec", "unlocked", "wait", "reaped",
                            "relock", "done"}]
      /\ proc \in [CmdJobs -> ProcState]
      /\ image \in [CmdJobs -> {"none", "tunasync-exec", "command"}]
      /\ syncDone \in [Tries -> {"none", "ok", "err"}]
  BY DEF CgInv, CgTypeOK, ProviderTypeOK
<1>s. member # {} => group
  BY DEF CgInv, InGroup
<1>f. ASSUME StartFails(t)
      PROVE  /\ pipe' = [pipe EXCEPT ![C] = "eof"]
             /\ start' = [start EXCEPT ![t] = "idle"]
             /\ gpc' = [gpc EXCEPT ![t] = "done"]
             /\ syncDone' = [syncDone EXCEPT ![t] = "err"]
             /\ lock' = "free" /\ UNCHANGED <<isRunning, started>>
  BY <1>f DEF StartFails, Finish, C
<1>1. CASE Fork(t)
  <2>0. gpc[t] = "exec" /\ start[t] = "idle" /\ proc[C] = "none" /\ cmd' = C
        /\ UNCHANGED <<member, panicked>>
    BY <1>1 DEF Fork, CgInv, NotYet, NotYetOf, C
  <2>1. CASE StartFails(t) /\ UNCHANGED <<proc, image>>
    <3>1. CgTypeOK'
      BY <1>0, <1>t, <1>f, <2>0, <2>1 DEF CgInv, CgTypeOK, ProviderTypeOK
    <3>2. C \notin Running'
      BY <2>0, <2>1 DEF Running
    <3> QED
      BY <1>0, <1>t, <1>f, <1>s, <2>0, <2>1, <3>1, <3>2, StartFrame DEF C
  <2>2. CASE ~(StartFails(t) /\ UNCHANGED <<proc, image>>)
    <3>0. /\ proc' = [proc EXCEPT ![C] = "alive"]
          /\ image' = [image EXCEPT ![C] = "tunasync-exec"]
          /\ pipe' = [pipe EXCEPT ![C] = "open"]
          /\ start' = [start EXCEPT ![t] = "add"]
          /\ UNCHANGED <<lock, isRunning, started, gpc, syncDone>>
      BY <1>1, <2>2 DEF Fork, C
    <3>1. CgTypeOK'
      BY <1>0, <1>t, <2>0, <3>0 DEF CgInv, CgTypeOK, ProviderTypeOK, ProcState
    <3> QED
      BY <1>0, <1>t, <1>s, <2>0, <3>0, <3>1, StartFrame DEF C
  <2> QED BY <1>1, <2>1, <2>2
<1>2. CASE AddProc(t)
  <2>0. /\ gpc[t] = "exec" /\ pipe[C] = "open" /\ proc[C] # "none" /\ cmd \in CmdJobs
        /\ C \in Running => image[C] # "command"
        /\ UNCHANGED <<cmd, proc, image>>
    BY <1>2 DEF AddProc, CgInv, InStart, TargetDead, InGroup, C
  <2>1. CASE cgMgr /\ start' = [start EXCEPT ![t] = "cont"]
             /\ member' = member \cup ({C} \cap Running)
             /\ UNCHANGED <<lock, isRunning, started, gpc, syncDone, pipe, panicked>>
    <3>1. CgTypeOK'
      BY <1>0, <1>t, <2>0, <2>1 DEF CgInv, CgTypeOK, ProviderTypeOK
    <3>2. group /\ Running' = Running
      BY <2>0, <2>1 DEF CgInv, InGroup, Running
    <3> QED
      BY <1>0, <1>t, <2>0, <2>1, <3>1, <3>2, StartFrame DEF C
  <2>2. CASE StartFails(t) /\ UNCHANGED <<member, panicked>>
    <3>1. CgTypeOK'
      BY <1>0, <1>t, <1>f, <2>0, <2>2 DEF CgInv, CgTypeOK, ProviderTypeOK
    <3>2. Running' = Running
      BY <2>0 DEF Running
    <3> QED
      BY <1>0, <1>t, <1>f, <1>s, <2>0, <2>2, <3>1, <3>2, StartFrame DEF C
  <2>3. CASE panicked' = TRUE
             /\ UNCHANGED <<lock, isRunning, started, gpc, syncDone, start, pipe, member>>
    <3>0. start[t] = "add"
      BY <1>2 DEF AddProc
    <3>1. CgTypeOK'
      BY <1>0, <1>t, <2>0, <2>3 DEF CgInv, CgTypeOK, ProviderTypeOK
    <3>2. Running' = Running
      BY <2>0 DEF Running
    <3> QED
      BY <1>0, <1>t, <1>s, <2>0, <2>3, <3>0, <3>1, <3>2, StartFrame DEF C
  <2> QED
    BY <1>2, <2>1, <2>2, <2>3 DEF AddProc, C
<1>3. CASE Cont(t)
  <2>0. /\ gpc[t] = "exec" /\ pipe[C] = "open" /\ proc[C] # "none" /\ cmd \in CmdJobs
        /\ C \in Running => image[C] # "command" /\ C \in member
        /\ UNCHANGED <<cmd, proc, image, member, panicked>>
    BY <1>3 DEF Cont, CgInv, InStart, TargetDead, InGroup, C
  <2>r. Running' = Running
    BY <2>0 DEF Running
  <2>1. CASE StartFails(t)
    <3>1. CgTypeOK'
      BY <1>0, <1>t, <1>f, <2>0, <2>1 DEF CgInv, CgTypeOK, ProviderTypeOK
    <3> QED
      BY <1>0, <1>t, <1>f, <1>s, <2>0, <2>r, <2>1, <3>1, StartFrame DEF C
  <2>2. CASE ~StartFails(t)
    <3>0. /\ pipe' = [pipe EXCEPT ![C] = "cont"]
          /\ isRunning' = TRUE /\ started' = started \cup {t} /\ lock' = "free"
          /\ gpc' = [gpc EXCEPT ![t] = "unlocked"]
          /\ start' = [start EXCEPT ![t] = "idle"] /\ UNCHANGED syncDone
      BY <1>3, <2>2 DEF Cont, C
    <3>1. CgTypeOK'
      BY <1>0, <1>t, <2>0, <3>0 DEF CgInv, CgTypeOK, ProviderTypeOK
    <3> QED
      BY <1>0, <1>t, <1>s, <2>0, <2>r, <3>0, <3>1, StartFrame DEF C
  <2> QED BY <2>1, <2>2
<1> QED
  BY <1>1, <1>2, <1>3 DEF StartStep
\* Steps of the children: they end, or become the command.
LEMMA ChildStepInv == ASSUME CgInv, NEW c \in CmdJobs, ChildStep(c) PROVE CgInv'
<1>0. /\ UNCHANGED <<stages, lock, isRunning, cmd, finished, gpc, stage, target,
                     started, syncDone, rpc, try, group, cgMgr, hook, start,
                     pipe, kid, panicked, crashes>>
      /\ proc[c] \in {"alive", "killed"}
      /\ \A u \in Tries : Cmd(u)' = Cmd(u)
  BY DEF ChildStep, hookVars, WaitExec, Exits, Killed, Cmd
<1>t. /\ proc \in [CmdJobs -> ProcState]
      /\ image \in [CmdJobs -> {"none", "tunasync-exec", "command"}]
  BY DEF CgInv, CgTypeOK, ProviderTypeOK
<1>1. CASE pipe[c] = "cont" /\ image' = [image EXCEPT ![c] = "command"]
           /\ UNCHANGED <<proc, member>>
  <2>1. CgTypeOK'
    BY <1>0, <1>t, <1>1 DEF CgInv, CgTypeOK, ProviderTypeOK
  <2>2. TargetDead' /\ InStart' /\ NotYet'
    BY <1>0, <1>1 DEF CgInv, TargetDead, Dead, InStart, NotYet, NotYetOf
  <2>3. InGroup'
    BY <1>0, <1>t, <1>1 DEF CgInv, InGroup, Running, LiveKids
  <2> QED BY <2>1, <2>2, <2>3 DEF CgInv
<1>2. CASE /\ \E e \in {"ok", "err"} : proc' = [proc EXCEPT ![c] = e]
           /\ member' = member \ {c} /\ UNCHANGED image
  <2>0. /\ \A d \in CmdJobs : d # c => proc'[d] = proc[d]
        /\ proc'[c] \in {"ok", "err"} /\ proc' \in [CmdJobs -> ProcState]
    BY <1>t, <1>2 DEF ProcState
  <2>1. CgTypeOK'
    BY <1>0, <1>2, <2>0 DEF CgInv, CgTypeOK, ProviderTypeOK
  <2>2. TargetDead'
    BY <1>0, <2>0 DEF CgInv, TargetDead, Dead
  <2>3. \A d \in CmdJobs : proc'[d] = "none" <=> proc[d] = "none"
    BY <1>0, <2>0
  <2>4. InStart'
    <3>1. \A u \in Tries : Cmd(u) \in CmdJobs
      BY CmdFacts DEF CgInv, CgTypeOK
    <3> QED BY <1>0, <2>3, <3>1 DEF CgInv, InStart
  <2>5. NotYet'
    <3> SUFFICES ASSUME NEW u \in Tries PROVE NotYetOf(u)'
      BY DEF NotYet
    <3>1. Cmd(u) \in CmdJobs /\ <<u, 1>> \in CmdJobs /\ <<u, 2>> \in CmdJobs
      BY CmdFacts, CmdJobPairs DEF CgInv, CgTypeOK
    <3> QED BY <1>0, <2>3, <3>1 DEF CgInv, NotYet, NotYetOf
  <2>6. InGroup'
    <3>1. Running' \subseteq Running \ {c}
      BY <1>0, <2>0 DEF Running
    <3>2. c \notin LiveKids /\ LiveKids' = LiveKids
      BY <1>0, CgroupAssumption DEF LiveKids
    <3> QED BY <1>0, <1>2, <3>1, <3>2 DEF CgInv, InGroup
  <2> QED BY <2>1, <2>2, <2>4, <2>5, <2>6 DEF CgInv
<1> QED
  BY <1>1, <1>2 DEF ChildStep, WaitExec, Exits, Killed

\* Steps of what the commands have started.
LEMMA KidStepInv ==
    ASSUME CgInv, NEW k \in Kids, KidEnds(k) \/ \E p \in Executing : KidFork(p, k)
    PROVE  CgInv'
<1>0. UNCHANGED <<provVars, group, cgMgr, hook, start, image, pipe, panicked, crashes>>
  BY DEF KidEnds, KidFork, hookVars
<1>1. CgTypeOK'
  <2>1. kid' \in [Kids -> {"none", "alive", "killed", "dead"}]
    BY DEF CgInv, CgTypeOK, KidEnds, KidFork
  <2> QED BY <1>0, <2>1 DEF CgInv, CgTypeOK, provVars, ProviderTypeOK
<1>2. TargetDead' /\ InStart' /\ NotYet'
  BY <1>0 DEF provVars, CgInv, TargetDead, Dead, InStart, NotYet, NotYetOf, Cmd
<1>3. InGroup'
  <2>0. Running' = Running /\ \A u \in Tries : Cmd(u)' = Cmd(u)
    BY <1>0 DEF Running, provVars, Cmd
  <2>1. CASE KidEnds(k)
    <3>1. k \notin Running /\ k \notin CmdJobs
      BY CgroupAssumption DEF Running
    <3>2. \A u \in Tries : Cmd(u) # k
      BY <3>1, CmdFacts DEF CgInv, CgTypeOK
    <3>3. LiveKids' \subseteq LiveKids \ {k} /\ member' = member \ {k}
      BY <2>1 DEF KidEnds, LiveKids, CgInv, CgTypeOK
    <3> QED BY <1>0, <2>0, <3>1, <3>2, <3>3 DEF CgInv, InGroup
  <2>2. ASSUME NEW p \in Executing, KidFork(p, k) PROVE InGroup'
    <3>1. p \in member
      BY DEF Executing, CgInv, InGroup, Running, LiveKids
    <3>2. member' = member \cup {k}
      BY <2>2, <3>1 DEF KidFork
    <3>3. LiveKids' \subseteq LiveKids \cup {k}
      BY <2>2 DEF KidFork, LiveKids, CgInv, CgTypeOK
    <3> QED BY <1>0, <2>0, <3>1, <3>2, <3>3 DEF CgInv, InGroup
  <2> QED BY <2>1, <2>2
<1> QED BY <1>1, <1>2, <1>3 DEF CgInv

\* The death of the worker: its goroutines are gone, and so are the write ends of
\* the pipes.
LEMMA CrashInv == ASSUME CgInv, Crash PROVE CgInv'
<1>0. /\ UNCHANGED <<stages, proc, finished, stage, target, try, group, image, kid, member>>
      /\ \A u \in Tries : Cmd(u)' = Cmd(u)
      /\ crashes' = crashes + 1 /\ panicked' = FALSE
      /\ lock' = "free" /\ isRunning' = FALSE /\ cmd' = NoCmd
      /\ gpc' = [t \in Tries |-> IF gpc[t] = "off" THEN "off" ELSE "done"]
      /\ started' = {} /\ syncDone' = [t \in Tries |-> "none"] /\ rpc' = "idle"
      /\ cgMgr' = FALSE /\ hook' = "idle"
      /\ start' = [t \in Tries |-> "idle"]
      /\ pipe' = [c \in CmdJobs |-> IF pipe[c] = "open" THEN "eof" ELSE pipe[c]]
  BY DEF Crash, Cmd
<1>1. CgTypeOK'
  <2>1. gpc' \in [Tries -> {"off", "run", "exec", "unlocked", "wait", "reaped",
                            "relock", "done"}]
    BY <1>0
  <2>2. pipe' \in [CmdJobs -> {"none", "open", "cont", "eof"}]
    BY <1>0 DEF CgInv, CgTypeOK
  <2>3. /\ start' \in [Tries -> {"idle", "add", "cont"}]
        /\ syncDone' \in [Tries -> {"none", "ok", "err"}]
    BY <1>0
  <2>4. crashes' \in Nat
    BY <1>0 DEF CgInv, CgTypeOK
  <2>5. isRunning' \in BOOLEAN /\ cgMgr' \in BOOLEAN /\ panicked' \in BOOLEAN
    BY <1>0
  <2> QED
    BY <1>0, <2>1, <2>2, <2>3, <2>4, <2>5 DEF CgInv, CgTypeOK, ProviderTypeOK
<1>2. TargetDead' /\ InStart'
  BY <1>0 DEF TargetDead, InStart
<1>3. NotYet'
  BY <1>0 DEF CgInv, NotYet, NotYetOf
<1>4. InGroup'
  BY <1>0 DEF CgInv, InGroup, Running, LiveKids
<1> QED BY <1>1, <1>2, <1>3, <1>4 DEF CgInv

\* Steps of Run, outside Start.
LEMMA GoroutineInv ==
    ASSUME CgInv, NEW t \in Tries, UNCHANGED cgVars,
           Enter(t) \/ Wait(t) \/ Reap(t) \/ NotRunning(t) \/ Relock(t)
    PROVE  CgInv'
<1>0. /\ UNCHANGED <<group, cgMgr, hook, start, image, pipe, kid, member, panicked, crashes>>
      /\ UNCHANGED <<stages, cmd, proc, rpc, try, started>>
  BY DEF cgVars, hookVars, procVars, Enter, Wait, Reap, NotRunning, Relock
<1>1. gpc[t] \in {"run", "unlocked", "wait", "reaped", "relock"}
  BY DEF Enter, Wait, Reap, NotRunning, Relock
<1>2. start[t] = "idle"
  BY <1>1 DEF CgInv, InStart, CgTypeOK
<1>t. /\ gpc \in [Tries -> {"off", "run", "exec", "unlocked", "wait", "reaped",
                            "relock", "done"}]
      /\ stage \in [Tries -> 1..2] /\ target \in [Tries -> CmdJobs \cup {NoCmd}]
      /\ syncDone \in [Tries -> {"none", "ok", "err"}]
      /\ finished \subseteq CmdJobs /\ isRunning \in BOOLEAN
      /\ lock \in {"free", "run", "term"} /\ proc \in [CmdJobs -> ProcState]
  BY DEF CgInv, CgTypeOK, ProviderTypeOK
<1>3. \A u \in Tries : u # t => gpc'[u] = gpc[u] /\ target'[u] = target[u] /\ stage'[u] = stage[u]
  BY <1>t DEF Enter, Wait, Reap, NotRunning, Relock, Finish
<1>4. /\ gpc' \in [Tries -> {"off", "run", "exec", "unlocked", "wait", "reaped",
                             "relock", "done"}]
      /\ target' \in [Tries -> CmdJobs \cup {NoCmd}]
  <2>1. cmd \in CmdJobs \cup {NoCmd}
    BY DEF CgInv, CgTypeOK, ProviderTypeOK
  <2> QED BY <1>t, <2>1 DEF Enter, Wait, Reap, NotRunning, Relock, Finish
<1>5. /\ gpc'[t] \in {"wait", "reaped", "relock"} => target'[t] \in CmdJobs
      /\ gpc'[t] \in {"reaped", "relock"} => Dead(target'[t])
      /\ gpc'[t] # "unlocked" /\ gpc'[t] \notin {"off", "run"}
      /\ gpc'[t] = "exec" /\ stage' = stage => gpc[t] = "run"
  BY <1>1, <1>t DEF Enter, Wait, Reap, NotRunning, Relock, Finish, CgInv, TargetDead
<1>6. TargetDead'
  <2> SUFFICES ASSUME NEW u \in Tries
               PROVE  /\ gpc'[u] = "unlocked" \/ start[u] # "idle" => cmd \in CmdJobs
                      /\ gpc'[u] \in {"wait", "reaped", "relock"} => target'[u] \in CmdJobs
                      /\ gpc'[u] \in {"reaped", "relock"} => Dead(target'[u])
    BY <1>0 DEF TargetDead, Dead
  <2> QED
    BY <1>2, <1>3, <1>5 DEF CgInv, TargetDead
<1>7. InStart'
  BY <1>0, <1>2, <1>3 DEF CgInv, InStart, Cmd
<1>8. CASE stage' = stage
  <2>1. stage[t] = 1 => proc'[<<t, 2>>] = "none"
    BY <1>0 DEF CgInv, NotYet, NotYetOf
  <2>2. gpc'[t] = "exec" /\ start'[t] = "idle" => proc'[Cmd(t)] = "none"
    BY <1>0, <1>5, <1>8, CmdFacts DEF CgInv, NotYet, NotYetOf, CgTypeOK
  <2>3. NotYet'
    BY <1>0, <1>1, <1>3, <1>5, <1>8, <2>1, <2>2, NotYetStep
  <2>4. syncDone' \in [Tries -> {"none", "ok", "err"}]
    <3>1. gpc[t] \in {"reaped", "relock"} => proc[target[t]] \in {"ok", "err"}
      BY DEF CgInv, TargetDead, Dead
    <3> QED BY <1>t, <3>1 DEF Enter, Wait, Reap, NotRunning, Relock, Finish
  <2>5. finished' \subseteq CmdJobs
    BY <1>t DEF Enter, Wait, Reap, NotRunning, Relock, CgInv, TargetDead
  <2>6. isRunning' \in BOOLEAN /\ lock' \in {"free", "run", "term"}
    BY <1>t DEF Enter, Wait, Reap, NotRunning, Relock
  <2>7. CgTypeOK'
    BY <1>0, <1>4, <1>8, <2>4, <2>5, <2>6 DEF CgInv, CgTypeOK, ProviderTypeOK
  <2>8. InGroup'
    BY <1>0, <1>8 DEF CgInv, InGroup, Running, LiveKids, Cmd
  <2> QED BY <1>6, <1>7, <2>3, <2>7, <2>8 DEF CgInv
<1>9. CASE stage' # stage
  <2>0. /\ gpc[t] = "relock" /\ gpc'[t] = "exec" /\ stage[t] < stages
        /\ stage' = [stage EXCEPT ![t] = @ + 1] /\ lock' = "run"
        /\ UNCHANGED <<isRunning, finished, target, syncDone>>
    BY <1>9, <1>t DEF Enter, Wait, Reap, NotRunning, Relock
  <2>1. stage[t] = 1 /\ stage'[t] = 2 /\ stage' \in [Tries -> 1..2]
    <3>1. stages \in 1..2
      BY ProviderAssumption DEF CgInv, CgTypeOK, ProviderTypeOK
    <3>2. stage[t] = 1
      BY <1>t, <2>0, <3>1
    <3> QED BY <1>t, <2>0, <3>2
  <2>2. proc[<<t, 2>>] = "none" /\ ~(t > try)
    BY <2>0, <2>1 DEF CgInv, NotYet, NotYetOf
  <2>3. \A u \in Tries : u # t => Cmd(u)' = Cmd(u)
    BY <1>3 DEF Cmd
  <2>4. Cmd(t)' = <<t, 2>>
    BY <2>1 DEF Cmd
  <2>5. NotYet'
    <3> SUFFICES ASSUME NEW u \in Tries PROVE NotYetOf(u)'
      BY DEF NotYet
    <3>1. CASE u = t
      BY <1>0, <2>0, <2>1, <2>2, <2>4, <3>1 DEF NotYetOf
    <3>2. CASE u # t
      BY <1>0, <1>3, <2>3, <3>2 DEF NotYetOf, NotYet, CgInv
    <3> QED BY <3>1, <3>2
  <2>6. CgTypeOK'
    BY <1>0, <1>4, <2>0, <2>1 DEF CgInv, CgTypeOK, ProviderTypeOK
  <2>7. InGroup'
    BY <1>0, <1>2, <2>3 DEF CgInv, InGroup, Running, LiveKids
  <2> QED BY <1>6, <1>7, <2>5, <2>6, <2>7 DEF CgInv
<1> QED BY <1>8, <1>9
\* Steps of the runner, and of the hook around them.
LEMMA RunnerStepInv ==
    ASSUME CgInv, AwaitStarted \/ SyncDone \/ GiveUp \/ Terminate \/ Grace \/ NewTry \/ Signal,
           UNCHANGED <<initVars, group, cgMgr, start, procVars, panicked, crashes>>,
           hook' \in {hook, "run", "idle"}
    PROVE  CgInv'
<1>0. /\ UNCHANGED <<group, cgMgr, start, image, pipe, kid, member, panicked, crashes>>
      /\ UNCHANGED <<stages, isRunning, cmd, finished, stage, target, started, syncDone>>
      /\ \A u \in Tries : Cmd(u)' = Cmd(u)
  BY DEF procVars, AwaitStarted, SyncDone, GiveUp, Terminate, Grace, NewTry, Signal, Cmd
<1>1. CASE NewTry
  <2>0. /\ try \in Nat /\ try + 1 \in Tries /\ gpc[try + 1] = "off" /\ try' = try + 1
        /\ gpc' = [gpc EXCEPT ![try + 1] = "run"] /\ rpc' = "start" /\ UNCHANGED <<lock, proc>>
    <3>1. try \in Nat /\ try + 1 \in Tries /\ try + 1 > try
      BY <1>1, ProviderAssumption DEF NewTry, Tries, CgInv, CgTypeOK, ProviderTypeOK
    <3> QED BY <1>1, <3>1 DEF NewTry, CgInv, NotYet, NotYetOf
  <2>1. CgTypeOK'
    <3>1. gpc' \in [Tries -> {"off", "run", "exec", "unlocked", "wait", "reaped",
                              "relock", "done"}]
      BY <2>0 DEF CgInv, CgTypeOK, ProviderTypeOK
    <3>2. try' \in 0..MaxTries
      BY <2>0 DEF Tries
    <3> QED
      BY <1>0, <2>0, <3>1, <3>2 DEF CgInv, CgTypeOK, ProviderTypeOK
  <2>2. \A u \in Tries : gpc'[u] = IF u = try + 1 THEN "run" ELSE gpc[u]
    BY <2>0 DEF CgInv, CgTypeOK, ProviderTypeOK
  <2>3. TargetDead' /\ InStart'
    BY <1>0, <2>0, <2>2 DEF CgInv, TargetDead, Dead, InStart
  <2>4. NotYet'
    <3> SUFFICES ASSUME NEW u \in Tries PROVE NotYetOf(u)'
      BY DEF NotYet
    <3>1. u > try + 1 => u > try /\ u # try + 1
      BY <2>0 DEF Tries
    <3> QED BY <1>0, <2>0, <2>2, <3>1 DEF CgInv, NotYet, NotYetOf
  <2>5. InGroup'
    BY <1>0, <2>0 DEF CgInv, InGroup, Running, LiveKids
  <2> QED BY <2>1, <2>3, <2>4, <2>5 DEF CgInv
<1>2. CASE ~NewTry
  <2>0. /\ UNCHANGED <<gpc, try>>
        /\ rpc' \in {"idle", "sync", "term", "signal", "grace"}
        /\ lock' \in {lock, "free", "term"}
    BY <1>2 DEF AwaitStarted, SyncDone, GiveUp, Terminate, Grace, Signal
  <2>1. /\ proc' \in [CmdJobs -> ProcState]
        /\ \A c \in CmdJobs : \/ proc'[c] = proc[c]
                              \/ proc[c] = "alive" /\ proc'[c] = "killed"
    BY <1>2 DEF AwaitStarted, SyncDone, GiveUp, Terminate, Grace, Signal, CgInv,
                CgTypeOK, ProviderTypeOK, ProcState
  <2>2. CgTypeOK'
    BY <1>0, <2>0, <2>1 DEF CgInv, CgTypeOK, ProviderTypeOK
  <2>3. TargetDead'
    BY <1>0, <2>0, <2>1 DEF CgInv, TargetDead, Dead
  <2>4. ASSUME NEW u \in Tries
        PROVE  Cmd(u) \in CmdJobs /\ <<u, 1>> \in CmdJobs /\ <<u, 2>> \in CmdJobs
    BY CmdFacts, CmdJobPairs DEF CgInv, CgTypeOK
  <2>5. InStart'
    <3> SUFFICES ASSUME NEW u \in Tries, start[u] # "idle"
                 PROVE  gpc[u] = "exec" /\ pipe[Cmd(u)] = "open" /\ proc'[Cmd(u)] # "none"
      BY <1>0, <2>0 DEF InStart
    <3> QED BY <2>1, <2>4 DEF CgInv, InStart
  <2>6. NotYet'
    <3> SUFFICES ASSUME NEW u \in Tries PROVE NotYetOf(u)'
      BY DEF NotYet
    <3> QED BY <1>0, <2>0, <2>1, <2>4 DEF CgInv, NotYet, NotYetOf
  <2>7. Running' = Running /\ LiveKids' = LiveKids
    BY <1>0, <2>1 DEF Running, LiveKids
  <2>8. InGroup'
    BY <1>0, <2>7 DEF CgInv, InGroup
  <2> QED BY <2>2, <2>3, <2>5, <2>6, <2>8 DEF CgInv
<1> QED BY <1>1, <1>2

\* The steps of the provider, sorted.
LEMMA ProviderRestCases ==
    ASSUME ProviderRest
    PROVE  \/ \E t \in Tries : /\ Enter(t) \/ Wait(t) \/ Reap(t) \/ NotRunning(t) \/ Relock(t)
                               /\ UNCHANGED cgVars
           \/ /\ AwaitStarted \/ SyncDone \/ GiveUp \/ Terminate \/ Grace
              /\ UNCHANGED cgVars
           \/ /\ hook = "ready" /\ NewTry /\ hook' = "run"
              /\ UNCHANGED <<initVars, group, cgMgr, start, procVars, panicked, crashes>>
           \/ /\ Signal /\ hook' = IF rpc' = "idle" THEN "idle" ELSE hook
              /\ UNCHANGED <<initVars, group, cgMgr, start, procVars, panicked, crashes>>
BY DEF ProviderRest

LEMMA CgNextInv == CgInv /\ [CgNext]_cVars => CgInv'
<1> SUFFICES ASSUME CgInv, [CgNext]_cVars PROVE CgInv'
  OBVIOUS
<1>1. CASE UNCHANGED <<provVars, hookVars, start, procVars, panicked, crashes>>
  BY <1>1 DEF provVars, hookVars, procVars, CgInv, CgTypeOK, ProviderTypeOK, TargetDead,
              Dead, InStart, NotYet, NotYetOf, Cmd, InGroup, Running, LiveKids
<1>2. CASE HookRun
  BY <1>2, HookRunInv
<1>3. CASE StartRun
  BY <1>3, StartStepInv DEF StartRun
<1>4. CASE ProviderRest
  <2>1. CASE \E t \in Tries : /\ Enter(t) \/ Wait(t) \/ Reap(t) \/ NotRunning(t) \/ Relock(t)
                              /\ UNCHANGED cgVars
    <3>1. PICK t \in Tries : /\ Enter(t) \/ Wait(t) \/ Reap(t) \/ NotRunning(t) \/ Relock(t)
                             /\ UNCHANGED cgVars
      BY <2>1
    <3> QED BY <3>1, GoroutineInv
  <2>2. CASE (AwaitStarted \/ SyncDone \/ GiveUp \/ Terminate \/ Grace) /\ UNCHANGED cgVars
    <3>1. /\ UNCHANGED <<initVars, group, cgMgr, start, procVars, panicked, crashes>>
          /\ hook' \in {hook, "run", "idle"}
      BY <2>2 DEF cgVars, hookVars
    <3> QED BY <2>2, <3>1, RunnerStepInv
  <2>3. CASE /\ hook = "ready" /\ NewTry /\ hook' = "run"
             /\ UNCHANGED <<initVars, group, cgMgr, start, procVars, panicked, crashes>>
    BY <2>3, RunnerStepInv
  <2>4. CASE /\ Signal /\ hook' = IF rpc' = "idle" THEN "idle" ELSE hook
             /\ UNCHANGED <<initVars, group, cgMgr, start, procVars, panicked, crashes>>
    BY <2>4, RunnerStepInv
  <2> QED BY <1>4, <2>1, <2>2, <2>3, <2>4, ProviderRestCases
<1>5. CASE \E c \in CmdJobs : ChildStep(c)
  BY <1>5, ChildStepInv
<1>6. CASE \E k \in Kids : KidEnds(k) \/ \E p \in Executing : KidFork(p, k)
  BY <1>6, KidStepInv
<1>7. CASE Crash
  BY <1>7, CrashInv
<1> QED
  BY <1>1, <1>2, <1>3, <1>4, <1>5, <1>6, <1>7 DEF CgNext, Settled, cVars, cgVars

\* The inductive invariant of Start, the hook and the processes, for providers
\* of either kind (runner.go, cgroup.go).
THEOREM CgInvariant == CgSpec => []CgInv
BY CgInitInv, CgNextInv, PTL DEF CgSpec

\* What a command is or has started is in the group of the job as long as it
\* lives, wherever Start fails and whenever the worker dies (runner.go, cgroup.go).
THEOREM CommandsContained == CgSpec => []Contained
<1>1. CgInv => Contained
  BY DEF CgInv, InGroup, Contained
<1> QED
  BY <1>1, CgInvariant, PTL
-----------------------------------------------------------------------------
(***************************************************************************)
(* Start finds its group.                                                  *)
(***************************************************************************)

\* The number of stages does not change.
LEMMA StagesKept == [CgNext]_cVars => stages' = stages
BY DEF CgNext, cVars, provVars, HookRun, StartRun, StartStep, ProviderRest, Enter, Wait,
       Reap, NotRunning, Relock, AwaitStarted, SyncDone, GiveUp, Terminate, Grace, NewTry,
       Signal, ChildStep, KidEnds, KidFork, Crash, Settled

\* The hook and the other processes leave the goroutines alone.
LEMMA WaitsHook == ASSUME CgInv, RunnerWaits, HookRun PROVE RunnerWaits'
<1>0. UNCHANGED <<stages, gpc, stage, started, syncDone, rpc, try, panicked>>
  BY DEF HookRun
<1>1. (rpc # "idle" => hook' = "run") /\ (hook' \in {"ready", "run"} => cgMgr')
  BY DEF HookRun, HookStep, PreExec, PostExec, ListTasks, NextRound, DeleteGroup,
         KillTask, RunnerWaits
<1> QED
  BY <1>0, <1>1 DEF RunnerWaits

LEMMA WaitsStart ==
    ASSUME CgInv, RunnerWaits, NEW t \in Tries, StartStep(t)
    PROVE  RunnerWaits'
<1>0. /\ UNCHANGED <<stages, stage, rpc, try, cgMgr, hook>> /\ gpc[t] = "exec"
  BY DEF StartStep, hookVars, Fork, AddProc, Cont, CgInv, InStart
<1>t. /\ gpc \in [Tries -> {"off", "run", "exec", "unlocked", "wait", "reaped",
                            "relock", "done"}]
      /\ syncDone \in [Tries -> {"none", "ok", "err"}] /\ started \subseteq Tries
  BY DEF CgInv, CgTypeOK, ProviderTypeOK
<1>1. cgMgr /\ t = try /\ rpc = "start"
  BY <1>0 DEF RunnerWaits
<1>2. UNCHANGED panicked
  BY <1>1 DEF StartStep, Fork, AddProc, Cont
<1>3. \A u \in Tries : u # t => /\ gpc'[u] = gpc[u] /\ syncDone'[u] = syncDone[u]
                                /\ u \in started' <=> u \in started
  BY <1>t DEF StartStep, Fork, AddProc, Cont, StartFails, Finish
<1>4. \/ gpc'[t] = "exec" /\ syncDone'[t] = syncDone[t] /\ (t \in started' <=> t \in started)
      \/ gpc'[t] = "done"
      \/ gpc'[t] = "unlocked" /\ syncDone'[t] = syncDone[t]
  BY <1>0, <1>t DEF StartStep, Fork, AddProc, Cont, StartFails, Finish
<1> QED
  BY <1>0, <1>1, <1>2, <1>3, <1>4 DEF RunnerWaits

LEMMA WaitsGoroutine ==
    ASSUME CgInv, RunnerWaits, stages = 1, NEW t \in Tries, UNCHANGED cgVars,
           Enter(t) \/ Wait(t) \/ Reap(t) \/ NotRunning(t) \/ Relock(t)
    PROVE  RunnerWaits'
<1>0. /\ UNCHANGED <<cgMgr, hook, panicked, rpc, try, started>>
      /\ gpc[t] # "relock"
  BY DEF cgVars, hookVars, Enter, Wait, Reap, NotRunning, Relock, RunnerWaits
<1>t. /\ gpc \in [Tries -> {"off", "run", "exec", "unlocked", "wait", "reaped",
                            "relock", "done"}]
      /\ syncDone \in [Tries -> {"none", "ok", "err"}]
  BY DEF CgInv, CgTypeOK, ProviderTypeOK
<1>1. UNCHANGED stage
  BY <1>0 DEF Enter, Wait, Reap, NotRunning, Relock
<1>2. \A u \in Tries : u # t => gpc'[u] = gpc[u] /\ syncDone'[u] = syncDone[u]
  BY <1>t DEF Enter, Wait, Reap, NotRunning, Relock, Finish
<1>3. \/ gpc[t] = "run" /\ gpc'[t] = "exec" /\ syncDone'[t] = syncDone[t]
      \/ gpc'[t] = "done"
      \/ /\ gpc'[t] \in {"wait", "reaped"} /\ gpc[t] # "done"
         /\ syncDone'[t] = syncDone[t]
  BY <1>0, <1>t DEF Enter, Wait, Reap, NotRunning, Relock, Finish
<1> QED
  BY <1>0, <1>1, <1>2, <1>3 DEF RunnerWaits

LEMMA WaitsRunner == ASSUME CgInv, RunnerWaits, ProviderRest, stages = 1 PROVE RunnerWaits'
<1>1. CASE \E t \in Tries : /\ Enter(t) \/ Wait(t) \/ Reap(t) \/ NotRunning(t) \/ Relock(t)
                            /\ UNCHANGED cgVars
  <2>1. PICK t \in Tries : /\ Enter(t) \/ Wait(t) \/ Reap(t) \/ NotRunning(t) \/ Relock(t)
                           /\ UNCHANGED cgVars
    BY <1>1
  <2> QED BY <2>1, WaitsGoroutine
<1>2. CASE (AwaitStarted \/ SyncDone \/ GiveUp \/ Terminate \/ Grace) /\ UNCHANGED cgVars
  <2>0. /\ UNCHANGED <<cgMgr, hook, panicked, gpc, stage, started, syncDone, try>>
        /\ rpc # "idle"
    BY <1>2 DEF cgVars, hookVars, AwaitStarted, SyncDone, GiveUp, Terminate, Grace
  <2>1. rpc = "start" => ~\E t \in Tries : gpc[t] \in {"run", "exec"}
    BY <1>2 DEF AwaitStarted, SyncDone, GiveUp, Terminate, Grace, RunnerWaits
  <2> QED
    BY <2>0, <2>1 DEF RunnerWaits
<1>3. CASE /\ hook = "ready" /\ NewTry /\ hook' = "run"
           /\ UNCHANGED <<initVars, group, cgMgr, start, procVars, panicked, crashes>>
  <2>0. /\ UNCHANGED <<cgMgr, panicked, stage, started, syncDone>> /\ try' = try + 1
        /\ rpc' = "start" /\ rpc = "idle" /\ gpc' = [gpc EXCEPT ![try + 1] = "run"]
    BY <1>3 DEF NewTry
  <2>1. try + 1 \in Tries /\ gpc[try + 1] = "off"
    <3>1. try \in Nat /\ try + 1 \in Tries /\ try + 1 > try
      BY <1>3, ProviderAssumption DEF NewTry, Tries, CgInv, CgTypeOK, ProviderTypeOK
    <3> QED BY <3>1 DEF CgInv, NotYet, NotYetOf
  <2>2. \A u \in Tries : gpc'[u] = IF u = try + 1 THEN "run" ELSE gpc[u]
    BY <2>0, <2>1 DEF CgInv, CgTypeOK, ProviderTypeOK
  <2> QED
    BY <1>3, <2>0, <2>1, <2>2 DEF RunnerWaits
<1>4. CASE /\ Signal /\ hook' = IF rpc' = "idle" THEN "idle" ELSE hook
           /\ UNCHANGED <<initVars, group, cgMgr, start, procVars, panicked, crashes>>
  <2>0. /\ UNCHANGED <<cgMgr, panicked, gpc, stage, started, syncDone, try>>
        /\ rpc = "signal"
    BY <1>4 DEF Signal
  <2> QED
    BY <1>4, <2>0 DEF RunnerWaits
<1> QED
  BY <1>1, <1>2, <1>3, <1>4, ProviderRestCases

LEMMA WaitsNext ==
    ASSUME CgInv, [CgNext]_cVars, stages = 1, RunnerWaits
    PROVE  RunnerWaits'
<1>1. CASE UNCHANGED <<gpc, try, rpc, started, syncDone, stage, hook, cgMgr, panicked>>
  BY <1>1 DEF RunnerWaits
<1>2. CASE Crash
  BY <1>2 DEF Crash, RunnerWaits
<1>3. \/ HookRun \/ StartRun \/ ProviderRest \/ Crash
      \/ UNCHANGED <<gpc, try, rpc, started, syncDone, stage, hook, cgMgr, panicked>>
  BY DEF CgNext, Settled, ChildStep, KidEnds, KidFork, cVars, provVars, cgVars, hookVars
<1> QED
  BY <1>1, <1>2, <1>3, WaitsHook, WaitsStart, WaitsRunner DEF StartRun

\* Start of a one-stage provider never finds the manager of its group gone: the
\* hook that sets it to nil is called after Start is over (cgroup.go, runner.go).
THEOREM StartFindsGroup == CgSpec => []StartHasGroup
<1> DEFINE Inv == stages = 1 => RunnerWaits
<1>1. CgInit => Inv
  BY DEF CgInit, ProviderInit, RunnerWaits
<1>2. CgInv /\ Inv /\ [CgNext]_cVars => Inv'
  BY WaitsNext, StagesKept
<1>3. Inv => StartHasGroup
  BY DEF RunnerWaits, StartHasGroup
<1> QED
  BY <1>1, <1>2, <1>3, CgInvariant, PTL DEF CgSpec
-----------------------------------------------------------------------------
(***************************************************************************)
(* ImplInv, of a one-stage provider whose worker has not died.             *)
(***************************************************************************)

\* There are only first stages.
LEMMA FirstStages ==
    ASSUME CgInv, RunnerWaits
    PROVE  /\ \A t \in Tries : Cmd(t) = <<t, 1>> /\ <<t, 1>> \in CmdJobs
           /\ \A c \in CmdJobs : c[1] \in Tries /\ (proc[c] # "none" => c = <<c[1], 1>>)
           /\ \A t, u \in Tries : t # u => <<t, 1>> # <<u, 1>>
<1>1. \A t \in Tries : proc[<<t, 2>>] = "none"
  BY DEF CgInv, NotYet, NotYetOf, RunnerWaits
<1> QED
  BY <1>1, CmdJobPairs, CmdFacts DEF CgInv, CgTypeOK, RunnerWaits

\* One Start at a time.
LEMMA OneStart ==
    ASSUME CgInv, ImplInv, NEW t \in Tries, gpc[t] = "exec"
    PROVE  /\ \A u \in Tries : u # t => start[u] = "idle" /\ gpc[u] # "exec"
           /\ lock = "run" /\ ~isRunning /\ \A u \in Tries : ~Busy(u)
           /\ rpc \notin {"signal", "grace"}
BY DEF CgInv, InStart, ImplInv, StartAlone, BusyOwnsCmd, CgTypeOK

\* Nobody is in Start while the runner is past it.
LEMMA NoStart ==
    ASSUME CgInv, RunnerWaits, rpc # "start"
    PROVE  \A t \in Tries : start[t] = "idle" /\ gpc[t] \notin {"run", "exec"}
BY DEF CgInv, InStart, RunnerWaits

\* The greatest of a set of tries.
LEMMA LastIs ==
    ASSUME NEW T \in SUBSET Tries, NEW t \in T, \A u \in T : u <= t
    PROVE  LastOf(T) = <<t, 1>>
<1>1. \A s \in T : (\A u \in T : u <= s) => s = t
  BY DEF Tries
<1>2. (CHOOSE s \in T : \A u \in T : u <= s) = t
  BY <1>1
<1> QED
  BY <1>2 DEF LastOf

\* The processes end, or are killed when nothing is alive for the runner.
LEMMA ImplProc ==
    ASSUME CgInv, RunnerWaits, ImplInv, CgInv',
           UNCHANGED <<lock, isRunning, cmd, finished, gpc, stage, target, rpc, try,
                       start, pipe>>,
           \A c \in CmdJobs :
               \/ proc'[c] = proc[c]
               \/ proc[c] \in {"alive", "killed"} /\ proc'[c] \in {"ok", "err"}
               \/ proc[c] = "alive" /\ proc'[c] = "killed" /\ rpc = "idle"
    PROVE  ImplInv'
<1>1. StartAlone' /\ BusyOwnsCmd' /\ WaitsForOwn' /\ RunningIsBusy'
  BY DEF ImplInv, StartAlone, BusyOwnsCmd, WaitsForOwn, RunningIsBusy, Busy
<1>2. FinishedDead'
  <2>1. finished \subseteq CmdJobs
    BY DEF CgInv, CgTypeOK, ProviderTypeOK
  <2> QED BY <2>1 DEF ImplInv, FinishedDead
<1>3. Released' /\ CmdIsLast' /\ Unforked'
  BY DEF ImplInv, Released, CmdIsLast, Unforked, Made, Busy
<1>4. OneAlive'
  <2> SUFFICES ASSUME NEW c \in CmdJobs
               PROVE  /\ proc'[c] \in {"alive", "killed"} /\ pipe[c] = "cont" =>
                            gpc[c[1]] \in {"unlocked", "wait"}
                      /\ proc'[c] = "alive" /\ pipe[c] = "cont" => c[1] = try /\ rpc # "idle"
                      /\ pipe[c] = "open" => start[c[1]] # "idle" /\ proc'[c] # "killed"
                      /\ pipe[c] # "none" => c = <<c[1], 1>> /\ c[1] <= try
    BY DEF OneAlive
  <2>1. rpc = "idle" => start[c[1]] = "idle"
    BY NoStart, FirstStages
  <2> QED
    BY <2>1 DEF ImplInv, OneAlive
<1> QED
  BY <1>1, <1>2, <1>3, <1>4 DEF ImplInv

LEMMA ImplHook ==
    ASSUME CgInv, RunnerWaits, ImplInv, CgInv', HookRun
    PROVE  ImplInv'
<1>1. UNCHANGED <<lock, isRunning, cmd, finished, gpc, stage, target, rpc, try, start, pipe>>
  BY DEF HookRun
<1>2. \A c \in CmdJobs : \/ proc'[c] = proc[c]
                         \/ proc[c] = "alive" /\ proc'[c] = "killed" /\ rpc = "idle"
  BY DEF HookRun, HookStep, KillTask, RunnerWaits
<1> QED
  BY <1>1, <1>2, ImplProc

LEMMA ImplChild ==
    ASSUME CgInv, RunnerWaits, ImplInv, CgInv', NEW c \in CmdJobs, ChildStep(c)
    PROVE  ImplInv'
<1>1. UNCHANGED <<lock, isRunning, cmd, finished, gpc, stage, target, rpc, try, start, pipe>>
  BY DEF ChildStep
<1>2. proc \in [CmdJobs -> ProcState]
  BY DEF CgInv, CgTypeOK, ProviderTypeOK
<1>3. \A d \in CmdJobs :
          \/ proc'[d] = proc[d]
          \/ proc[d] \in {"alive", "killed"} /\ proc'[d] \in {"ok", "err"}
  BY <1>2 DEF ChildStep, WaitExec, Exits, Killed
<1> QED
  BY <1>1, <1>3, ImplProc

\* A step of Start: the others are idle, and its cmdJob is the last.
LEMMA ImplStart ==
    ASSUME CgInv, RunnerWaits, ImplInv, CgInv', RunnerWaits', NEW t \in Tries, StartStep(t)
    PROVE  ImplInv'
<1> DEFINE C == <<t, 1>>
<1>0. /\ UNCHANGED <<finished, stage, target, rpc, try, cgMgr>> /\ gpc[t] = "exec"
      /\ start[t] # "idle" => pipe[C] = "open" /\ cmd = C
      /\ start[t] = "idle" => proc[C] = "none"
      /\ Cmd(t) = C /\ C \in CmdJobs
      /\ t = try /\ rpc = "start" /\ cgMgr
  <2>1. UNCHANGED <<finished, stage, target, rpc, try, cgMgr>> /\ gpc[t] = "exec"
    BY DEF StartStep, hookVars, Fork, AddProc, Cont, CgInv, InStart
  <2>2. Cmd(t) = C /\ C \in CmdJobs
    BY FirstStages
  <2>3. t = try /\ rpc = "start" /\ cgMgr
    BY <2>1 DEF RunnerWaits
  <2>4. start[t] # "idle" => pipe[C] = "open" /\ cmd = C
    <3>1. start[t] # "idle" => pipe[Cmd(t)] = "open"
      BY DEF CgInv, InStart
    <3>2. start[t] # "idle" => cmd = C
      BY DEF ImplInv, CmdIsLast
    <3> QED BY <2>2, <3>1, <3>2
  <2>5. start[t] = "idle" => proc[C] = "none"
    <3>1. NotYetOf(t)
      BY DEF CgInv, NotYet
    <3>2. start[t] = "idle" => proc[Cmd(t)] = "none"
      BY <2>1, <3>1 DEF NotYetOf
    <3> QED BY <2>2, <3>2
  <2> QED
    BY <2>1, <2>2, <2>3, <2>4, <2>5
<1>1. /\ \A u \in Tries : u # t => start[u] = "idle" /\ gpc[u] # "exec"
      /\ lock = "run" /\ ~isRunning /\ \A u \in Tries : ~Busy(u)
  BY <1>0, OneStart
<1> HIDE DEF C
<1>t. /\ pipe \in [CmdJobs -> {"none", "open", "cont", "eof"}]
      /\ start \in [Tries -> {"idle", "add", "cont"}]
      /\ gpc \in [Tries -> {"off", "run", "exec", "unlocked", "wait", "reaped",
                            "relock", "done"}]
      /\ proc \in [CmdJobs -> ProcState]
  BY DEF CgInv, CgTypeOK, ProviderTypeOK
\* What the step does: fork, add, fail or release.
<1>2. /\ cmd' = C
      /\ \A u \in Tries : u # t => gpc'[u] = gpc[u] /\ start'[u] = start[u]
      /\ \A c \in CmdJobs : c # C => proc'[c] = proc[c] /\ pipe'[c] = pipe[c]
      /\ \/ /\ start'[t] # "idle" /\ pipe'[C] = "open" /\ gpc'[t] = "exec"
            /\ proc'[C] = "alive" \/ (proc'[C] = proc[C] /\ pipe[C] = "open")
            /\ UNCHANGED <<lock, isRunning>>
         \/ /\ start'[t] = "idle" /\ pipe'[C] = "eof" /\ gpc'[t] = "done"
            /\ proc'[C] = proc[C] /\ lock' = "free" /\ UNCHANGED isRunning
         \/ /\ start'[t] = "idle" /\ pipe'[C] = "cont" /\ gpc'[t] = "unlocked"
            /\ proc'[C] = proc[C] /\ lock' = "free" /\ isRunning' = TRUE
  BY <1>0, <1>t DEF StartStep, Fork, AddProc, Cont, StartFails, Finish
<1>3. StartAlone'
  BY <1>0, <1>1, <1>2 DEF StartAlone
<1>4. BusyOwnsCmd' /\ RunningIsBusy' /\ WaitsForOwn'
  <2>1. \A u \in Tries : u # t => ~Busy(u)'
    BY <1>1, <1>2 DEF Busy
  <2>2. Busy(t)' => gpc'[t] = "unlocked" /\ isRunning'
    BY <1>2 DEF Busy
  <2>3. isRunning' => Busy(t)'
    BY <1>1, <1>2 DEF Busy
  <2> QED
    BY <1>0, <1>2, <2>1, <2>2, <2>3 DEF BusyOwnsCmd, RunningIsBusy, WaitsForOwn, Busy, C
<1>5. FinishedDead'
  <2>1. finished \subseteq CmdJobs
    BY DEF CgInv, CgTypeOK, ProviderTypeOK
  <2>2. ASSUME NEW c \in finished PROVE proc'[c] \in {"ok", "err"}
    <3>1. proc[c] \in {"ok", "err"}
      BY DEF ImplInv, FinishedDead
    <3>2. c = C => proc'[C] = proc[C]
      BY <1>0, <3>1 DEF StartStep, Fork, AddProc, Cont, StartFails
    <3> QED BY <1>2, <2>1, <3>1, <3>2
  <2> QED BY <1>0, <2>2 DEF FinishedDead
<1>6. Released'
  <2>1. \A u \in Tries : Busy(u)' => u = t /\ gpc'[t] = "unlocked"
    BY <1>1, <1>2 DEF Busy
  <2> QED
    BY <1>0, <1>2, <2>1 DEF Released, C
<1>7. OneAlive'
  <2> SUFFICES ASSUME NEW c \in CmdJobs
               PROVE  /\ proc'[c] \in {"alive", "killed"} /\ pipe'[c] = "cont" =>
                            gpc'[c[1]] \in {"unlocked", "wait"}
                      /\ proc'[c] = "alive" /\ pipe'[c] = "cont" => c[1] = try' /\ rpc' # "idle"
                      /\ pipe'[c] = "open" => start'[c[1]] # "idle" /\ proc'[c] # "killed"
                      /\ pipe'[c] # "none" => c = <<c[1], 1>> /\ c[1] <= try'
    BY DEF OneAlive
  <2>1. CASE c = C
    <3>1. c[1] = t /\ t <= try /\ c = <<c[1], 1>>
      BY <1>0, <2>1 DEF C, Tries
    <3> QED
      BY <1>0, <1>2, <2>1, <3>1 DEF ImplInv, OneAlive
  <2>2. CASE c # C
    <3>1. proc'[c] = proc[c] /\ pipe'[c] = pipe[c] /\ c[1] \in Tries
      BY <1>2, <2>2, FirstStages
    <3>2. CASE c[1] # t
      <4>1. gpc'[c[1]] = gpc[c[1]] /\ start'[c[1]] = start[c[1]]
        BY <1>2, <3>1, <3>2
      <4> QED
        BY <1>0, <3>1, <4>1 DEF ImplInv, OneAlive
    <3>3. CASE c[1] = t
      <4>1. proc[c] = "none" /\ pipe[c] = "none"
        BY <2>2, <3>3, FirstStages DEF C, ImplInv, OneAlive
      <4> QED
        BY <1>0, <3>1, <3>3, <4>1 DEF ImplInv, OneAlive
    <3> QED BY <3>2, <3>3
  <2> QED BY <2>1, <2>2
<1>8. CmdIsLast'
  <2>1. CASE start'[t] # "idle"
    BY <1>1, <1>2, <2>1 DEF CmdIsLast, C
  <2>2. CASE start'[t] = "idle"
    <3>1. t \in Made'
      BY <1>0, <1>2, <2>2 DEF Made, C
    <3>2. \A u \in Made' : u <= t
      <4>1. \A u \in Tries : <<u, 1>> \in CmdJobs /\ <<u, 1>>[1] = u
        BY FirstStages
      <4> QED BY <1>0, <1>7, <4>1 DEF Made, OneAlive
    <3>3. LastOf(Made') = C
      BY <3>1, <3>2, LastIs DEF Made, C
    <3> QED
      BY <1>1, <1>2, <2>2, <3>3 DEF CmdIsLast, LastOf
  <2> QED BY <2>1, <2>2
<1>9. Unforked'
  <2> SUFFICES ASSUME NEW u \in Tries
               PROVE  gpc'[u] \in {"off", "run"} \/ (gpc'[u] = "exec" /\ start'[u] = "idle") =>
                          pipe'[<<u, 1>>] = "none"
    BY DEF Unforked
  <2>1. CASE u = t
    BY <1>2, <2>1
  <2>2. CASE u # t
    <3>1. <<u, 1>> \in CmdJobs /\ <<u, 1>> # C
      BY <2>2, FirstStages DEF C
    <3>2. gpc'[u] = gpc[u] /\ start'[u] = start[u] /\ pipe'[<<u, 1>>] = pipe[<<u, 1>>]
      BY <1>2, <2>2, <3>1
    <3> QED BY <3>2 DEF ImplInv, Unforked
  <2> QED BY <2>1, <2>2
<1> QED
  BY <1>3, <1>4, <1>5, <1>6, <1>7, <1>8, <1>9 DEF ImplInv

\* A step of Run outside Start.
LEMMA ImplGoroutine ==
    ASSUME CgInv, RunnerWaits, ImplInv, stages = 1, NEW t \in Tries, UNCHANGED cgVars,
           Enter(t) \/ Wait(t) \/ Reap(t) \/ NotRunning(t) \/ Relock(t)
    PROVE  ImplInv'
<1>0. /\ UNCHANGED <<cmd, proc, rpc, try, start, pipe>> /\ gpc[t] # "relock"
      /\ gpc[t] \in {"run", "unlocked", "wait", "reaped", "relock"}
  BY DEF cgVars, procVars, Enter, Wait, Reap, NotRunning, Relock, RunnerWaits
<1>t. /\ gpc \in [Tries -> {"off", "run", "exec", "unlocked", "wait", "reaped",
                            "relock", "done"}]
      /\ target \in [Tries -> CmdJobs \cup {NoCmd}]
      /\ finished \subseteq CmdJobs
  BY DEF CgInv, CgTypeOK, ProviderTypeOK
<1>1. \A u \in Tries : u # t => gpc'[u] = gpc[u] /\ target'[u] = target[u]
  BY <1>t DEF Enter, Wait, Reap, NotRunning, Relock, Finish
<1>2. CmdIsLast' /\ Unforked'
  <2>1. gpc'[t] \notin {"off", "run"} /\ (gpc'[t] = "exec" => gpc[t] = "run")
    BY <1>0, <1>t DEF Enter, Wait, Reap, NotRunning, Relock, Finish
  <2>2. Unforked'
    BY <1>0, <1>1, <2>1 DEF ImplInv, Unforked
  <2>3. CmdIsLast'
    BY <1>0 DEF ImplInv, CmdIsLast, Made
  <2> QED BY <2>2, <2>3
<1>3. Busy(t) => /\ cmd = <<t, 1>> /\ isRunning /\ pipe[<<t, 1>>] = "cont"
                 /\ \A u \in Tries : u # t => ~Busy(u) /\ gpc[u] # "exec"
  <2>1. \A u \in Tries : u # t => <<u, 1>> # <<t, 1>>
    BY FirstStages
  <2> QED BY <2>1 DEF ImplInv, BusyOwnsCmd, Released, StartAlone
<1>4. CASE Enter(t)
  <2>0. /\ gpc[t] = "run" /\ lock = "free" /\ UNCHANGED <<isRunning, finished, target>>
        /\ \/ gpc'[t] = "done" /\ lock' = lock
           \/ gpc'[t] = "exec" /\ ~isRunning /\ lock' = "run"
    BY <1>4, <1>t DEF Enter, Finish
  <2>1. \A u \in Tries : gpc[u] # "exec"
    BY <2>0 DEF ImplInv, StartAlone
  <2>2. \A u \in Tries : Busy(u)' <=> Busy(u)
    BY <1>1, <2>0 DEF Busy
  <2>3. StartAlone'
    BY <1>0, <1>1, <2>0, <2>1 DEF ImplInv, StartAlone
  <2>4. BusyOwnsCmd' /\ RunningIsBusy' /\ Released' /\ FinishedDead'
    BY <1>0, <2>0, <2>2 DEF ImplInv, BusyOwnsCmd, RunningIsBusy, Released, FinishedDead
  <2>5. WaitsForOwn'
    BY <1>0, <1>1, <2>0 DEF ImplInv, WaitsForOwn
  <2>6. OneAlive'
    <3> SUFFICES ASSUME NEW c \in CmdJobs, proc[c] \in {"alive", "killed"}, pipe[c] = "cont"
                 PROVE  gpc'[c[1]] \in {"unlocked", "wait"}
      BY <1>0 DEF ImplInv, OneAlive
    <3>1. gpc[c[1]] \in {"unlocked", "wait"} /\ c[1] \in Tries
      BY FirstStages DEF ImplInv, OneAlive
    <3> QED BY <1>1, <2>0, <3>1
  <2> QED BY <1>2, <2>3, <2>4, <2>5, <2>6 DEF ImplInv
<1>5. CASE Wait(t) \/ Reap(t)
  <2>0. /\ UNCHANGED <<isRunning, lock>>
        /\ \/ gpc[t] = "unlocked" /\ gpc'[t] = "wait" /\ target'[t] = cmd
              /\ finished' = finished
           \/ gpc[t] = "wait" /\ gpc'[t] = "reaped" /\ target'[t] = target[t]
              /\ proc[target[t]] \in {"ok", "err"}
              /\ finished' = finished \cup {target[t]}
    BY <1>5, <1>t DEF Wait, Reap, Dead
  <2>1. cmd = <<t, 1>> /\ (gpc[t] = "wait" => target[t] = <<t, 1>>)
    BY <1>3, <2>0 DEF ImplInv, WaitsForOwn, Busy
  <2>2. \A u \in Tries : Busy(u)' <=> Busy(u)
    BY <1>1, <2>0 DEF Busy
  <2>3. StartAlone'
    BY <1>0, <1>1, <2>0 DEF ImplInv, StartAlone
  <2>4. BusyOwnsCmd' /\ RunningIsBusy' /\ Released'
    BY <1>0, <2>0, <2>2 DEF ImplInv, BusyOwnsCmd, RunningIsBusy, Released
  <2>5. FinishedDead'
    BY <1>0, <2>0 DEF ImplInv, FinishedDead
  <2>6. WaitsForOwn'
    <3> SUFFICES ASSUME NEW u \in Tries
                 PROVE  /\ gpc'[u] \in {"wait", "reaped"} => target'[u] = <<u, 1>>
                        /\ gpc'[u] = "reaped" => <<u, 1>> \in finished'
      BY DEF WaitsForOwn
    <3>1. CASE u = t
      BY <2>0, <2>1, <3>1
    <3>2. CASE u # t
      BY <1>1, <2>0, <3>2 DEF ImplInv, WaitsForOwn
    <3> QED BY <3>1, <3>2
  <2>7. OneAlive'
    <3> SUFFICES ASSUME NEW c \in CmdJobs, proc[c] \in {"alive", "killed"}, pipe[c] = "cont"
                 PROVE  gpc'[c[1]] \in {"unlocked", "wait"}
      BY <1>0 DEF ImplInv, OneAlive
    <3>1. gpc[c[1]] \in {"unlocked", "wait"} /\ c = <<c[1], 1>> /\ c[1] \in Tries
      BY FirstStages DEF ImplInv, OneAlive
    <3>2. CASE c[1] = t
      BY <2>0, <2>1, <3>1, <3>2
    <3>3. CASE c[1] # t
      BY <1>1, <3>1, <3>3
    <3> QED BY <3>2, <3>3
  <2> QED BY <1>2, <2>3, <2>4, <2>5, <2>6, <2>7 DEF ImplInv
<1>6. CASE NotRunning(t)
  <2>0. /\ gpc[t] = "reaped" /\ isRunning' = FALSE /\ gpc'[t] = "done"
        /\ UNCHANGED <<lock, finished, target>>
    BY <1>6, <1>t DEF NotRunning, Finish
  <2>1. \A u \in Tries : ~Busy(u)' /\ gpc'[u] # "exec"
    BY <1>1, <1>3, <2>0 DEF Busy
  <2>2. StartAlone' /\ BusyOwnsCmd' /\ RunningIsBusy' /\ Released'
    BY <1>0, <2>0, <2>1 DEF ImplInv, StartAlone, BusyOwnsCmd, RunningIsBusy, Released
  <2>3. FinishedDead' /\ WaitsForOwn'
    BY <1>0, <1>1, <2>0 DEF ImplInv, FinishedDead, WaitsForOwn
  <2>4. OneAlive'
    <3> SUFFICES ASSUME NEW c \in CmdJobs, proc[c] \in {"alive", "killed"}, pipe[c] = "cont"
                 PROVE  gpc'[c[1]] \in {"unlocked", "wait"}
      BY <1>0 DEF ImplInv, OneAlive
    <3>1. gpc[c[1]] \in {"unlocked", "wait"} /\ c[1] \in Tries
      BY FirstStages DEF ImplInv, OneAlive
    <3> QED BY <1>1, <2>0, <3>1
  <2> QED BY <1>2, <2>2, <2>3, <2>4 DEF ImplInv
<1> QED
  BY <1>0, <1>4, <1>5, <1>6 DEF Relock

\* A live process that the runner knows of is the one of p.cmd.
LEMMA AliveIsCmd ==
    ASSUME CgInv, RunnerWaits, ImplInv, NEW c \in CmdJobs,
           proc[c] \in {"alive", "killed"}, pipe[c] = "cont"
    PROVE  c = cmd /\ isRunning /\ c \notin finished
<1>1. c = <<c[1], 1>> /\ c[1] \in Tries /\ Busy(c[1])
  BY FirstStages DEF ImplInv, OneAlive, Busy
<1>2. c \notin finished
  BY DEF ImplInv, FinishedDead
<1> QED
  BY <1>1, <1>2 DEF ImplInv, BusyOwnsCmd

\* A step of the runner.
LEMMA ImplRunner ==
    ASSUME CgInv, RunnerWaits, ImplInv, stages = 1,
           UNCHANGED <<initVars, group, cgMgr, start, procVars, panicked, crashes>>,
           AwaitStarted \/ SyncDone \/ GiveUp \/ Terminate \/ Grace \/ NewTry \/ Signal
    PROVE  ImplInv'
<1>0. UNCHANGED <<start, pipe, isRunning, cmd, finished, target>>
  BY DEF procVars, AwaitStarted, SyncDone, GiveUp, Terminate, Grace, NewTry, Signal
<1>1. CmdIsLast'
  BY <1>0 DEF ImplInv, CmdIsLast, Made
<1>u. Unforked'
  <2>1. CASE NewTry
    <3>1. try \in Nat /\ try + 1 \in Tries /\ try + 1 > try
      BY <2>1, ProviderAssumption DEF NewTry, Tries, CgInv, CgTypeOK, ProviderTypeOK
    <3>2. gpc[try + 1] = "off" /\ gpc' = [gpc EXCEPT ![try + 1] = "run"]
      BY <2>1, <3>1 DEF NewTry, CgInv, NotYet, NotYetOf
    <3>3. \A u \in Tries : gpc'[u] = IF u = try + 1 THEN "run" ELSE gpc[u]
      BY <3>1, <3>2 DEF CgInv, CgTypeOK, ProviderTypeOK
    <3> QED BY <1>0, <3>2, <3>3 DEF ImplInv, Unforked
  <2>2. CASE UNCHANGED gpc
    BY <1>0, <2>2 DEF ImplInv, Unforked
  <2> QED
    BY <2>1, <2>2 DEF AwaitStarted, SyncDone, GiveUp, Terminate, Grace, Signal
<1>2. CASE NewTry
  <2>0. /\ try \in Nat /\ try + 1 \in Tries /\ gpc[try + 1] = "off" /\ try' = try + 1
        /\ gpc' = [gpc EXCEPT ![try + 1] = "run"] /\ rpc' = "start" /\ rpc = "idle"
        /\ UNCHANGED <<lock, proc>>
    <3>1. try \in Nat /\ try + 1 \in Tries /\ try + 1 > try
      BY <1>2, ProviderAssumption DEF NewTry, Tries, CgInv, CgTypeOK, ProviderTypeOK
    <3> QED BY <1>2, <3>1 DEF NewTry, CgInv, NotYet, NotYetOf
  <2>1. \A u \in Tries : gpc'[u] = IF u = try + 1 THEN "run" ELSE gpc[u]
    BY <2>0 DEF CgInv, CgTypeOK, ProviderTypeOK
  <2>2. \A u \in Tries : Busy(u)' <=> Busy(u)
    BY <2>0, <2>1 DEF Busy
  <2>3. StartAlone' /\ WaitsForOwn' /\ FinishedDead'
    BY <1>0, <2>0, <2>1 DEF ImplInv, StartAlone, WaitsForOwn, FinishedDead
  <2>4. BusyOwnsCmd' /\ RunningIsBusy' /\ Released'
    BY <1>0, <2>0, <2>2 DEF ImplInv, BusyOwnsCmd, RunningIsBusy, Released
  <2>5. OneAlive'
    <3> SUFFICES ASSUME NEW c \in CmdJobs
                 PROVE  /\ proc[c] \in {"alive", "killed"} /\ pipe[c] = "cont" =>
                              gpc'[c[1]] \in {"unlocked", "wait"}
                        /\ proc[c] = "alive" /\ pipe[c] = "cont" => c[1] = try'
                        /\ pipe[c] = "open" => start[c[1]] # "idle" /\ proc[c] # "killed"
                        /\ pipe[c] # "none" => c = <<c[1], 1>> /\ c[1] <= try'
      BY <1>0, <2>0 DEF OneAlive
    <3>1. c[1] \in Tries
      BY FirstStages
    <3>2. c[1] <= try => c[1] <= try + 1
      BY <2>0, <3>1 DEF Tries
    <3>3. c[1] = try + 1 => gpc[c[1]] = "off"
      BY <2>0
    <3> QED BY <2>0, <2>1, <3>1, <3>2, <3>3 DEF ImplInv, OneAlive
  <2> QED BY <1>1, <1>u, <2>3, <2>4, <2>5 DEF ImplInv
<1>3. CASE AwaitStarted \/ SyncDone \/ GiveUp \/ Terminate \/ Signal
  <2>0. UNCHANGED <<gpc, try, proc>>
    BY <1>3 DEF AwaitStarted, SyncDone, GiveUp, Terminate, Signal
  <2>1. \A u \in Tries : gpc[u] = "exec" => lock' = lock /\ rpc' \notin {"signal", "grace"}
    BY <1>3, OneStart DEF AwaitStarted, SyncDone, GiveUp, Terminate, Signal
  <2>2. StartAlone'
    <3>1. rpc' \in {"signal", "grace"} => lock' = "term"
      BY <1>3 DEF AwaitStarted, SyncDone, GiveUp, Terminate, Signal, ImplInv, StartAlone
    <3> QED BY <1>0, <2>0, <2>1, <3>1 DEF ImplInv, StartAlone
  <2>3. BusyOwnsCmd' /\ RunningIsBusy' /\ WaitsForOwn' /\ FinishedDead'
    BY <1>0, <2>0 DEF ImplInv, BusyOwnsCmd, RunningIsBusy, WaitsForOwn, FinishedDead, Busy
  <2>4. Released'
    <3>1. ASSUME rpc' \in {"signal", "grace"} PROVE cmd \in CmdJobs /\ pipe[cmd] = "cont"
      <4>1. CASE rpc = "signal"
        BY <4>1 DEF ImplInv, Released
      <4>2. CASE rpc # "signal"
        <5>1. isRunning
          BY <1>3, <3>1, <4>2 DEF AwaitStarted, SyncDone, GiveUp, Terminate, Signal
        <5>2. PICK t \in Tries : Busy(t)
          BY <5>1 DEF ImplInv, RunningIsBusy
        <5> QED BY <5>2, FirstStages DEF ImplInv, BusyOwnsCmd, Released
      <4> QED BY <4>1, <4>2
    <3> QED BY <1>0, <2>0, <3>1 DEF ImplInv, Released, Busy
  <2>5. ASSUME NEW c \in CmdJobs, proc[c] = "alive", pipe[c] = "cont" PROVE rpc' # "idle"
    <3>1. c = cmd /\ isRunning /\ c \notin finished
      BY <2>5, AliveIsCmd
    <3>2. c[1] = try /\ gpc[try] \in {"unlocked", "wait"} /\ try \in Tries
      BY <2>5, FirstStages DEF ImplInv, OneAlive
    <3>3. syncDone[try] = "none"
      BY <3>2 DEF RunnerWaits
    <3> QED
      BY <1>3, <2>5, <3>1, <3>3 DEF AwaitStarted, SyncDone, GiveUp, Terminate, Signal
  <2>6. OneAlive'
    BY <1>0, <2>0, <2>5 DEF ImplInv, OneAlive
  <2> QED BY <1>1, <1>u, <2>2, <2>3, <2>4, <2>6 DEF ImplInv
<1>4. CASE Grace
  <2>0. /\ UNCHANGED <<gpc, try>> /\ rpc = "grace" /\ rpc' = "idle" /\ lock = "term"
        /\ lock' = "free" /\ cmd \in CmdJobs /\ pipe[cmd] = "cont"
        /\ \/ cmd \in finished /\ UNCHANGED proc
           \/ proc' = [proc EXCEPT ![cmd] = IF @ = "alive" THEN "killed" ELSE @]
    BY <1>4 DEF Grace, ImplInv, StartAlone, Released
  <2>1. \A c \in CmdJobs : \/ proc'[c] = proc[c]
                           \/ proc[c] = "alive" /\ proc'[c] = "killed" /\ c = cmd
    BY <2>0 DEF CgInv, CgTypeOK, ProviderTypeOK
  <2>2. StartAlone'
    BY <2>0 DEF ImplInv, StartAlone
  <2>3. BusyOwnsCmd' /\ RunningIsBusy' /\ WaitsForOwn'
    BY <1>0, <2>0 DEF ImplInv, BusyOwnsCmd, RunningIsBusy, WaitsForOwn, Busy
  <2>4. FinishedDead'
    <3>1. finished \subseteq CmdJobs
      BY DEF CgInv, CgTypeOK, ProviderTypeOK
    <3> QED BY <1>0, <2>1, <3>1 DEF ImplInv, FinishedDead
  <2>5. Released'
    BY <1>0, <2>0 DEF ImplInv, Released, Busy
  <2>6. ASSUME NEW c \in CmdJobs, pipe[c] = "cont" PROVE proc'[c] # "alive"
    <3>1. CASE proc[c] = "alive"
      <4>1. c = cmd /\ c \notin finished
        BY <2>6, <3>1, AliveIsCmd
      <4> QED BY <2>0, <4>1 DEF CgInv, CgTypeOK, ProviderTypeOK
    <3>2. CASE proc[c] # "alive"
      BY <2>1, <3>2
    <3> QED BY <3>1, <3>2
  <2>7. OneAlive'
    <3> SUFFICES ASSUME NEW c \in CmdJobs
                 PROVE  /\ proc'[c] \in {"alive", "killed"} /\ pipe[c] = "cont" =>
                              gpc[c[1]] \in {"unlocked", "wait"}
                        /\ proc'[c] = "alive" /\ pipe[c] = "cont" => FALSE
                        /\ pipe[c] = "open" => start[c[1]] # "idle" /\ proc'[c] # "killed"
                        /\ pipe[c] # "none" => c = <<c[1], 1>> /\ c[1] <= try
      BY <1>0, <2>0 DEF OneAlive
    <3> QED BY <2>0, <2>1, <2>6 DEF ImplInv, OneAlive
  <2> QED BY <1>1, <1>u, <2>2, <2>3, <2>4, <2>5, <2>7 DEF ImplInv
<1> QED
  BY <1>2, <1>3, <1>4
\* All of it, as one invariant.
CgImplInv ==
    /\ CgInv
    /\ stages = 1 => RunnerWaits
    /\ stages = 1 /\ crashes = 0 => ImplInv

LEMMA ImplInit == CgInit => CgImplInv
<1> SUFFICES ASSUME CgInit PROVE CgImplInv
  OBVIOUS
<1>1. CgInv
  BY CgInitInv
<1>2. RunnerWaits
  BY DEF CgInit, ProviderInit, RunnerWaits
<1>3. StartAlone /\ BusyOwnsCmd /\ WaitsForOwn /\ FinishedDead /\ RunningIsBusy
  BY DEF CgInit, ProviderInit, StartAlone, BusyOwnsCmd, WaitsForOwn, FinishedDead,
         RunningIsBusy, Busy
<1>4. Released /\ OneAlive /\ Unforked
  BY CmdJobPairs DEF CgInit, ProviderInit, Released, OneAlive, Unforked, Busy
<1>5. CmdIsLast
  <2>1. Made = {}
    BY CmdJobPairs DEF CgInit, Made
  <2> QED BY <2>1 DEF CgInit, ProviderInit, CmdIsLast, LastOf
<1> QED
  BY <1>1, <1>2, <1>3, <1>4, <1>5 DEF CgImplInv, ImplInv

\* The steps without the death of the worker.
LEMMA ImplNext == CgImplInv /\ [CgNext]_cVars => CgImplInv'
<1> SUFFICES ASSUME CgImplInv, [CgNext]_cVars PROVE CgImplInv'
  OBVIOUS
<1>1. CgInv /\ CgInv' /\ stages' = stages
  BY CgNextInv, StagesKept DEF CgImplInv
<1>2. stages = 1 => RunnerWaits /\ RunnerWaits'
  BY <1>1, WaitsNext DEF CgImplInv
<1>3. ASSUME stages = 1, crashes' = 0 PROVE ImplInv'
  <2>0. ~Crash /\ crashes = 0 /\ ImplInv
    <3>1. crashes \in Nat
      BY <1>1 DEF CgInv, CgTypeOK
    <3>2. ~Crash
      BY <1>3, <3>1 DEF Crash
    <3>3. crashes = 0
      BY <1>3, <3>2 DEF CgNext, HookRun, StartRun, StartStep, ProviderRest, cgVars,
                        ChildStep, KidEnds, KidFork, Settled, cVars
    <3> QED BY <1>3, <3>2, <3>3 DEF CgImplInv
  <2>1. CASE UNCHANGED <<lock, isRunning, cmd, proc, finished, gpc, stage, target, rpc, try,
                         start, pipe>>
    BY <1>1, <1>2, <1>3, <2>0, <2>1, ImplProc
  <2>2. CASE HookRun
    BY <1>1, <1>2, <1>3, <2>0, <2>2, ImplHook
  <2>3. CASE StartRun
    BY <1>1, <1>2, <1>3, <2>0, <2>3, ImplStart DEF StartRun
  <2>4. CASE ProviderRest
    <3>1. CASE \E t \in Tries : /\ Enter(t) \/ Wait(t) \/ Reap(t) \/ NotRunning(t) \/ Relock(t)
                                /\ UNCHANGED cgVars
      <4>1. PICK t \in Tries : /\ Enter(t) \/ Wait(t) \/ Reap(t) \/ NotRunning(t) \/ Relock(t)
                               /\ UNCHANGED cgVars
        BY <3>1
      <4> QED BY <1>1, <1>2, <1>3, <2>0, <4>1, ImplGoroutine
    <3>2. CASE (AwaitStarted \/ SyncDone \/ GiveUp \/ Terminate \/ Grace) /\ UNCHANGED cgVars
      <4>1. UNCHANGED <<initVars, group, cgMgr, start, procVars, panicked, crashes>>
        BY <3>2 DEF cgVars, hookVars
      <4> QED BY <1>1, <1>2, <1>3, <2>0, <3>2, <4>1, ImplRunner
    <3>3. CASE /\ NewTry \/ Signal
               /\ UNCHANGED <<initVars, group, cgMgr, start, procVars, panicked, crashes>>
      BY <1>1, <1>2, <1>3, <2>0, <3>3, ImplRunner
    <3> QED BY <2>4, <3>1, <3>2, <3>3, ProviderRestCases
  <2>5. CASE \E c \in CmdJobs : ChildStep(c)
    BY <1>1, <1>2, <1>3, <2>0, <2>5, ImplChild
  <2>6. CASE \E k \in Kids : KidEnds(k) \/ \E p \in Executing : KidFork(p, k)
    BY <2>1, <2>6 DEF KidEnds, KidFork, provVars
  <2> QED
    BY <2>0, <2>1, <2>2, <2>3, <2>4, <2>5, <2>6
       DEF CgNext, Settled, cVars, provVars, cgVars, procVars
<1> QED
  BY <1>1, <1>2, <1>3 DEF CgImplInv

-----------------------------------------------------------------------------
(***************************************************************************)
(* The refinement, step by step.                                           *)
(***************************************************************************)

\* While no Start is under way, p.cmd is what it is in module Provider.
LEMMA CmdSame ==
    ASSUME \A t \in Tries : start[t] = "idle"
    PROVE  AbsCmd = cmd
BY DEF AbsCmd

\* The abstract variables other than the processes and p.cmd.
LEMMA AbsStutter ==
    ASSUME UNCHANGED <<stages, lock, isRunning, finished, gpc, stage, target, started,
                       syncDone, rpc, try>>, AbsProc' = AbsProc, AbsCmd' = AbsCmd
    PROVE  UNCHANGED Abs!provVars
BY DEF Abs!provVars

\* Processes that were not let go do not count.
LEMMA AbsProcSame ==
    ASSUME UNCHANGED pipe, \A c \in CmdJobs : pipe[c] = "cont" => proc'[c] = proc[c]
    PROVE  AbsProc' = AbsProc
BY DEF AbsProc

LEMMA AbsCmdSame ==
    ASSUME UNCHANGED <<pipe, start, cmd>>
    PROVE  AbsCmd' = AbsCmd
BY DEF AbsCmd

\* killAll does not touch a process that Run or Terminate knows of.
LEMMA MapHook ==
    ASSUME CgInv, RunnerWaits, ImplInv, HookRun
    PROVE  UNCHANGED Abs!provVars
<1>0. UNCHANGED <<stages, lock, isRunning, cmd, finished, gpc, stage, target, started,
                  syncDone, rpc, try, start, pipe>>
  BY DEF HookRun
<1>1. ASSUME NEW c \in CmdJobs, pipe[c] = "cont" PROVE proc'[c] = proc[c]
  <2>1. CASE UNCHANGED proc
    BY <2>1
  <2>2. CASE \E p \in member \cup taskList : KillTask(p)
    <3>1. rpc = "idle"
      BY <2>2 DEF KillTask, RunnerWaits
    <3>2. proc[c] # "alive"
      BY <1>1, <3>1 DEF ImplInv, OneAlive
    <3> QED BY <2>2, <3>2 DEF KillTask
  <2> QED BY <2>1, <2>2 DEF HookRun, HookStep
<1> QED
  BY <1>0, <1>1, AbsProcSame, AbsCmdSame, AbsStutter

\* A child that ends is a process that exits, if it was let go.
LEMMA MapChild ==
    ASSUME CgInv, RunnerWaits, ImplInv, NEW c \in CmdJobs, ChildStep(c)
    PROVE  Abs!ProviderNext \/ UNCHANGED Abs!provVars
<1>0. UNCHANGED <<stages, lock, isRunning, cmd, finished, gpc, stage, target, started,
                  syncDone, rpc, try, start, pipe>>
  BY DEF ChildStep
<1>1. AbsCmd' = AbsCmd
  BY <1>0, AbsCmdSame
<1>2. CASE pipe[c] # "cont" \/ UNCHANGED proc
  <2>1. \A d \in CmdJobs : pipe[d] = "cont" => proc'[d] = proc[d]
    BY <1>2 DEF ChildStep, WaitExec, Exits, Killed, CgInv, CgTypeOK, ProviderTypeOK
  <2> QED BY <1>0, <1>1, <2>1, AbsProcSame, AbsStutter
<1>3. CASE pipe[c] = "cont" /\ ~UNCHANGED proc
  <2>1. \E e \in {"ok", "err"} : /\ proc' = [proc EXCEPT ![c] = e]
                                 /\ proc[c] = "alive" \/ (proc[c] = "killed" /\ e = "err")
    BY <1>3 DEF ChildStep, WaitExec, Exits, Killed
  <2>2. PICK e \in {"ok", "err"} : /\ proc' = [proc EXCEPT ![c] = e]
                                   /\ proc[c] = "alive" \/ (proc[c] = "killed" /\ e = "err")
    BY <2>1
  <2>3. AbsProc' = [AbsProc EXCEPT ![c] = e] /\ AbsProc[c] = proc[c]
    BY <1>0, <1>3, <2>2 DEF AbsProc, CgInv, CgTypeOK, ProviderTypeOK
  <2>4. Abs!ProcExit(c) \/ Abs!ProcKilled(c)
    BY <1>0, <1>1, <2>2, <2>3 DEF Abs!ProcExit, Abs!ProcKilled
  <2> QED BY <2>4 DEF Abs!ProviderNext, Abs!CmdJobs, CmdJobs, Abs!Tries, Tries
<1> QED BY <1>2, <1>3
\* The handshake: fork and add are nothing, "cont" or an error is Exec.
LEMMA MapStart ==
    ASSUME CgInv, RunnerWaits, ImplInv, NEW t \in Tries, StartStep(t)
    PROVE  Abs!ProviderNext \/ UNCHANGED Abs!provVars
<1> DEFINE C == <<t, 1>>
<1>0. /\ UNCHANGED <<stages, finished, stage, target, rpc, try, cgMgr>>
      /\ gpc[t] = "exec" /\ Cmd(t) = C /\ C \in CmdJobs /\ cgMgr /\ stage[t] = 1
  <2>1. gpc[t] = "exec"
    BY DEF StartStep, Fork, AddProc, Cont, CgInv, InStart
  <2> QED BY <2>1, FirstStages DEF StartStep, hookVars, RunnerWaits
<1>1. \A u \in Tries : u # t => start[u] = "idle"
  BY <1>0, OneStart
<1> HIDE DEF C
<1>t. /\ pipe \in [CmdJobs -> {"none", "open", "cont", "eof"}]
      /\ start \in [Tries -> {"idle", "add", "cont"}]
      /\ proc \in [CmdJobs -> ProcState]
  BY DEF CgInv, CgTypeOK, ProviderTypeOK
<1>2. ASSUME start[t] # "idle" PROVE pipe[C] = "open" /\ proc[C] \in {"alive", "ok", "err"} /\ cmd = C
  <2>1. pipe[Cmd(t)] = "open" /\ proc[Cmd(t)] # "none" /\ cmd = C
    BY <1>2 DEF CgInv, InStart, ImplInv, CmdIsLast, C
  <2>2. pipe[C] = "open" /\ proc[C] # "none" /\ proc[C] # "killed"
    BY <1>0, <2>1 DEF ImplInv, OneAlive
  <2> QED BY <1>0, <1>t, <2>1, <2>2 DEF ProcState
<1>3. ASSUME StartFails(t), cmd' = C, UNCHANGED proc, pipe[C] # "cont"
      PROVE  Abs!ProviderNext
  <2>1. /\ Finish(t, "err") /\ lock' = "free" /\ start' = [start EXCEPT ![t] = "idle"]
        /\ pipe' = [pipe EXCEPT ![C] = "eof"] /\ UNCHANGED <<isRunning, started>>
    BY <1>0, <1>3 DEF StartFails
  <2>2. \A u \in Tries : start'[u] = "idle"
    BY <1>1, <1>t, <2>1
  <2>3. AbsCmd' = <<t, stage[t]>>
    BY <1>0, <1>3, <2>2 DEF AbsCmd, C
  <2>4. AbsProc' = AbsProc
    BY <1>0, <1>3, <1>t, <2>1 DEF AbsProc
  <2>5. Abs!Exec(t)
    BY <1>0, <2>1, <2>3, <2>4 DEF Abs!Exec, Abs!Finish, Finish
  <2> QED BY <2>5 DEF Abs!ProviderNext, Abs!RunStep, Abs!Tries, Tries
<1>4. CASE Fork(t)
  <2>0. start[t] = "idle" /\ cmd' = C /\ pipe[C] = "none"
    BY <1>0, <1>4 DEF Fork, ImplInv, Unforked, C
  <2>1. CASE StartFails(t) /\ UNCHANGED proc
    BY <1>3, <2>0, <2>1
  <2>2. CASE ~(StartFails(t) /\ UNCHANGED proc)
    <3>0. /\ proc' = [proc EXCEPT ![C] = "alive"] /\ pipe' = [pipe EXCEPT ![C] = "open"]
          /\ start' = [start EXCEPT ![t] = "add"]
          /\ UNCHANGED <<lock, isRunning, started, gpc, syncDone>>
      BY <1>0, <1>4, <2>2 DEF Fork
    <3>1. AbsProc' = AbsProc
      BY <1>0, <1>t, <2>0, <3>0 DEF AbsProc
    <3>2. AbsCmd = LastOf(Made)
      <4>1. \A u \in Tries : start[u] = "idle"
        BY <1>1, <2>0
      <4> QED BY <4>1 DEF AbsCmd, ImplInv, CmdIsLast
    <3>3. AbsCmd' = LastOf({u \in Tries : start'[u] = "idle" /\ pipe'[<<u, 1>>] # "none"})
      <4>1. start'[t] # "idle"
        BY <1>t, <3>0
      <4> QED BY <4>1 DEF AbsCmd, LastOf
    <3>4. {u \in Tries : start'[u] = "idle" /\ pipe'[<<u, 1>>] # "none"} = Made
      <4>1. \A u \in Tries : u # t => /\ start'[u] = "idle"
                                      /\ pipe'[<<u, 1>>] = pipe[<<u, 1>>]
        BY <1>1, <1>t, <3>0, FirstStages DEF C
      <4>2. start'[t] = "add" /\ pipe[<<t, 1>>] = "none"
        BY <1>t, <2>0, <3>0 DEF C
      <4> QED BY <4>1, <4>2 DEF Made
    <3>5. AbsCmd' = AbsCmd
      BY <3>2, <3>3, <3>4
    <3> QED BY <1>0, <3>0, <3>1, <3>5, AbsStutter
  <2> QED BY <2>1, <2>2
<1>5. CASE AddProc(t)
  <2>0. start[t] = "add" /\ UNCHANGED <<cmd, proc>>
    BY <1>5 DEF AddProc
  <2>1. CASE StartFails(t)
    BY <1>2, <1>3, <2>0, <2>1
  <2>2. CASE ~StartFails(t)
    <3>0. /\ start' = [start EXCEPT ![t] = "cont"]
          /\ UNCHANGED <<lock, isRunning, started, gpc, syncDone, pipe>>
      BY <1>0, <1>5, <2>2 DEF AddProc
    <3>1. AbsProc' = AbsProc
      BY <2>0, <3>0 DEF AbsProc
    <3>2. \A u \in Tries : start'[u] = "idle" <=> start[u] = "idle"
      BY <1>t, <2>0, <3>0
    <3>3. {u \in Tries : start'[u] = "idle" /\ pipe'[<<u, 1>>] # "none"} =
              {u \in Tries : start[u] = "idle" /\ pipe[<<u, 1>>] # "none"}
      BY <3>0, <3>2
    <3>4. (\A u \in Tries : start'[u] = "idle") <=> (\A u \in Tries : start[u] = "idle")
      BY <3>2
    <3>5. AbsCmd' = AbsCmd
      <4> DEFINE idle == \A u \in Tries : start[u] = "idle"
                 forked == {u \in Tries : start[u] = "idle" /\ pipe[<<u, 1>>] # "none"}
      <4>1. AbsCmd = IF idle THEN cmd ELSE LastOf(forked)
        BY DEF AbsCmd
      <4>2. AbsCmd' = IF idle' THEN cmd' ELSE LastOf(forked')
        BY DEF AbsCmd, LastOf
      <4>3. forked' = forked /\ (idle' <=> idle)
        BY <3>3, <3>4
      <4> HIDE DEF idle, forked
      <4> QED BY <2>0, <4>1, <4>2, <4>3
    <3> QED BY <1>0, <3>0, <3>1, <3>5, AbsStutter
  <2> QED BY <2>1, <2>2
<1>6. CASE Cont(t)
  <2>0. start[t] = "cont" /\ UNCHANGED <<cmd, proc>>
    BY <1>6 DEF Cont
  <2>1. CASE StartFails(t)
    BY <1>2, <1>3, <2>0, <2>1
  <2>2. CASE ~StartFails(t)
    <3>0. /\ pipe' = [pipe EXCEPT ![C] = "cont"] /\ ~Dead(C)
          /\ isRunning' = TRUE /\ started' = started \cup {t} /\ lock' = "free"
          /\ gpc' = [gpc EXCEPT ![t] = "unlocked"]
          /\ start' = [start EXCEPT ![t] = "idle"] /\ UNCHANGED syncDone
      BY <1>0, <1>6, <2>2 DEF Cont
    <3>1. \A u \in Tries : start'[u] = "idle"
      BY <1>1, <1>t, <3>0
    <3>2. AbsCmd' = <<t, stage[t]>>
      BY <1>0, <1>2, <2>0, <3>1 DEF AbsCmd, C
    <3>3. AbsProc' = [AbsProc EXCEPT ![<<t, stage[t]>>] = "alive"]
      <4>1. proc[C] = "alive"
        BY <1>2, <2>0, <3>0 DEF Dead
      <4>2. AbsProc' = [AbsProc EXCEPT ![C] = "alive"]
        BY <1>0, <1>t, <2>0, <3>0, <4>1 DEF AbsProc
      <4> QED BY <1>0, <4>2 DEF C
    <3>4. Abs!Exec(t)
      BY <1>0, <3>0, <3>2, <3>3 DEF Abs!Exec, Abs!Finish
    <3> QED BY <3>4 DEF Abs!ProviderNext, Abs!RunStep, Abs!Tries, Tries
  <2> QED BY <2>1, <2>2
<1> QED
  BY <1>4, <1>5, <1>6 DEF StartStep

\* The rest of Run is the same.
LEMMA MapGoroutine ==
    ASSUME CgInv, RunnerWaits, ImplInv, stages = 1, NEW t \in Tries, UNCHANGED cgVars,
           Enter(t) \/ Wait(t) \/ Reap(t) \/ NotRunning(t) \/ Relock(t)
    PROVE  Abs!ProviderNext
<1>0. UNCHANGED <<cmd, proc, start, pipe>> /\ gpc[t] # "relock"
  BY DEF cgVars, procVars, Enter, Wait, Reap, NotRunning, Relock, RunnerWaits
<1>1. AbsProc' = AbsProc /\ AbsCmd' = AbsCmd
  BY <1>0, AbsProcSame, AbsCmdSame
<1>2. Busy(t) => /\ AbsCmd = cmd /\ AbsProc[<<t, 1>>] = proc[<<t, 1>>]
                 /\ gpc[t] \in {"wait", "reaped"} => target[t] = <<t, 1>>
  <2>1. Busy(t) => \A u \in Tries : start[u] = "idle"
    BY OneStart DEF CgInv, InStart
  <2>2. Busy(t) => AbsProc[<<t, 1>>] = proc[<<t, 1>>]
    BY FirstStages DEF AbsProc, ImplInv, Released
  <2>3. gpc[t] \in {"wait", "reaped"} => target[t] = <<t, 1>>
    BY DEF ImplInv, WaitsForOwn
  <2> QED BY <2>1, <2>2, <2>3, CmdSame
<1>3. CASE Enter(t)
  <2>1. Abs!Enter(t)
    BY <1>1, <1>3 DEF Abs!Enter, Abs!Finish, Enter, Finish
  <2> QED BY <2>1 DEF Abs!ProviderNext, Abs!RunStep, Abs!Tries, Tries
<1>4. CASE Wait(t)
  <2>1. Abs!Wait(t)
    BY <1>1, <1>2, <1>4 DEF Abs!Wait, Wait, Busy
  <2> QED BY <2>1 DEF Abs!ProviderNext, Abs!RunStep, Abs!Tries, Tries
<1>5. CASE Reap(t)
  <2>1. Abs!Reap(t)
    BY <1>1, <1>2, <1>5 DEF Abs!Reap, Abs!Dead, Reap, Dead, Busy
  <2> QED BY <2>1 DEF Abs!ProviderNext, Abs!RunStep, Abs!Tries, Tries
<1>6. CASE NotRunning(t)
  <2>1. Abs!NotRunning(t)
    BY <1>1, <1>2, <1>6 DEF Abs!NotRunning, Abs!Finish, NotRunning, Finish, Busy
  <2> QED BY <2>1 DEF Abs!ProviderNext, Abs!RunStep, Abs!Tries, Tries
<1> QED
  BY <1>0, <1>3, <1>4, <1>5, <1>6 DEF Relock

\* And so is the runner: Terminate signals what was let go.
LEMMA MapRunner ==
    ASSUME CgInv, RunnerWaits, ImplInv, stages = 1,
           UNCHANGED <<initVars, group, cgMgr, start, procVars, panicked, crashes>>,
           AwaitStarted \/ SyncDone \/ GiveUp \/ Terminate \/ Grace \/ NewTry \/ Signal
    PROVE  Abs!ProviderNext
<1>0. UNCHANGED <<cmd, start, pipe>>
  BY DEF procVars, AwaitStarted, SyncDone, GiveUp, Terminate, Grace, NewTry, Signal
<1>1. AbsCmd' = AbsCmd
  BY <1>0, AbsCmdSame
<1>2. rpc \in {"signal", "grace"} =>
          AbsCmd = cmd /\ cmd \in CmdJobs /\ pipe[cmd] = "cont" /\ AbsProc[cmd] = proc[cmd]
  <2>1. rpc \in {"signal", "grace"} => \A u \in Tries : start[u] = "idle"
    BY NoStart
  <2> QED BY <2>1, CmdSame DEF ImplInv, Released, AbsProc
<1>3. CASE ~Grace
  <2>1. AbsProc' = AbsProc
    BY <1>0, <1>3, AbsProcSame DEF AwaitStarted, SyncDone, GiveUp, Terminate, NewTry, Signal
  <2>2. CASE AwaitStarted
    <3>1. Abs!AwaitStarted
      BY <1>1, <2>1, <2>2 DEF AwaitStarted, Abs!AwaitStarted
    <3> QED BY <3>1 DEF Abs!ProviderNext, Abs!RunnerStep
  <2>3. CASE SyncDone
    <3>1. Abs!SyncDone
      BY <1>1, <2>1, <2>3 DEF SyncDone, Abs!SyncDone
    <3> QED BY <3>1 DEF Abs!ProviderNext, Abs!RunnerStep
  <2>4. CASE GiveUp
    <3>1. Abs!GiveUp
      BY <1>1, <2>1, <2>4 DEF GiveUp, Abs!GiveUp
    <3> QED BY <3>1 DEF Abs!ProviderNext
  <2>5. CASE Terminate
    <3>1. Abs!Terminate
      BY <1>1, <2>1, <2>5 DEF Terminate, Abs!Terminate
    <3> QED BY <3>1 DEF Abs!ProviderNext, Abs!RunnerStep
  <2>6. CASE NewTry
    <3>1. Abs!NewTry
      BY <1>1, <2>1, <2>6 DEF NewTry, Abs!NewTry
    <3> QED BY <3>1 DEF Abs!ProviderNext
  <2>7. CASE Signal
    <3>1. Abs!Signal
      BY <1>1, <1>2, <2>1, <2>7 DEF Signal, Abs!Signal
    <3> QED BY <3>1 DEF Abs!ProviderNext, Abs!RunnerStep
  <2> QED BY <1>3, <2>2, <2>3, <2>4, <2>5, <2>6, <2>7
<1>4. CASE Grace
  <2>0. rpc = "grace"
    BY <1>4 DEF Grace
  <2>1. \/ cmd \in finished /\ AbsProc' = AbsProc
        \/ AbsProc' = [AbsProc EXCEPT ![cmd] = IF @ = "alive" THEN "killed" ELSE @]
    <3>0. cmd \in CmdJobs /\ pipe[cmd] = "cont" /\ proc \in [CmdJobs -> ProcState]
      BY <1>2, <2>0 DEF CgInv, CgTypeOK, ProviderTypeOK
    <3>1. CASE cmd \in finished /\ UNCHANGED proc
      BY <1>0, <3>1 DEF AbsProc
    <3>2. CASE proc' = [proc EXCEPT ![cmd] = IF @ = "alive" THEN "killed" ELSE @]
      <4>1. \A c \in CmdJobs :
              AbsProc'[c] = IF c = cmd THEN IF AbsProc[cmd] = "alive" THEN "killed"
                                            ELSE AbsProc[cmd]
                            ELSE AbsProc[c]
        BY <1>0, <3>0, <3>2 DEF AbsProc
      <4> QED BY <3>0, <4>1 DEF AbsProc
    <3> QED BY <1>4, <3>1, <3>2 DEF Grace
  <2>2. Abs!Grace
    BY <1>1, <1>2, <1>4, <2>0, <2>1 DEF Grace, Abs!Grace
  <2> QED BY <2>2 DEF Abs!ProviderNext, Abs!RunnerStep
<1> QED BY <1>3, <1>4

\* As long as the worker lives, a one-stage provider in a control group is a
\* provider: the re-exec handshake, whatever fails in it, is one Exec of module
\* Provider or nothing (runner.go, cgroup.go).
THEOREM HandshakeIsExec == CgSpec => ImplementsProvider
<1>1. CgImplInv /\ [CgNext]_cVars
        => [stages = 1 /\ crashes' = 0 => [Abs!ProviderNext]_(Abs!provVars)]_cVars
  <2> SUFFICES ASSUME CgImplInv, CgNext, stages = 1, crashes' = 0
               PROVE  Abs!ProviderNext \/ UNCHANGED Abs!provVars
    OBVIOUS
  <2>0. CgInv /\ RunnerWaits /\ ~Crash /\ ImplInv
    <3>1. crashes \in Nat /\ CgInv /\ RunnerWaits
      BY DEF CgImplInv, CgInv, CgTypeOK
    <3>2. ~Crash
      BY <3>1 DEF Crash
    <3>3. crashes = 0
      BY <3>2 DEF CgNext, HookRun, StartRun, StartStep, ProviderRest, cgVars,
                  ChildStep, KidEnds, KidFork, Settled, cVars
    <3> QED BY <3>1, <3>2, <3>3 DEF CgImplInv
  <2>1. CASE UNCHANGED <<provVars, start, pipe>>
    <3>1. AbsProc' = AbsProc /\ AbsCmd' = AbsCmd
      BY <2>1 DEF AbsProc, AbsCmd, LastOf, provVars
    <3> QED BY <2>1, <3>1, AbsStutter DEF provVars
  <2>2. CASE HookRun
    BY <2>0, <2>2, MapHook
  <2>3. CASE StartRun
    BY <2>0, <2>3, MapStart DEF StartRun
  <2>4. CASE ProviderRest
    <3>1. CASE \E t \in Tries : /\ Enter(t) \/ Wait(t) \/ Reap(t) \/ NotRunning(t) \/ Relock(t)
                                /\ UNCHANGED cgVars
      <4>1. PICK t \in Tries : /\ Enter(t) \/ Wait(t) \/ Reap(t) \/ NotRunning(t) \/ Relock(t)
                               /\ UNCHANGED cgVars
        BY <3>1
      <4> QED BY <2>0, <4>1, MapGoroutine
    <3>2. CASE (AwaitStarted \/ SyncDone \/ GiveUp \/ Terminate \/ Grace) /\ UNCHANGED cgVars
      <4>1. UNCHANGED <<initVars, group, cgMgr, start, procVars, panicked, crashes>>
        BY <3>2 DEF cgVars, hookVars
      <4> QED BY <2>0, <3>2, <4>1, MapRunner
    <3>3. CASE /\ NewTry \/ Signal
               /\ UNCHANGED <<initVars, group, cgMgr, start, procVars, panicked, crashes>>
      BY <2>0, <3>3, MapRunner
    <3> QED BY <2>4, <3>1, <3>2, <3>3, ProviderRestCases
  <2>5. CASE \E c \in CmdJobs : ChildStep(c)
    BY <2>0, <2>5, MapChild
  <2>6. CASE \E k \in Kids : KidEnds(k) \/ \E p \in Executing : KidFork(p, k)
    BY <2>1, <2>6 DEF KidEnds, KidFork
  <2> QED
    BY <2>0, <2>1, <2>2, <2>3, <2>4, <2>5, <2>6 DEF CgNext, Settled, cVars, cgVars, procVars
<1>2. CgSpec => []CgImplInv
  BY ImplInit, ImplNext, PTL DEF CgSpec
<1> QED
  BY <1>1, <1>2, PTL DEF CgSpec, ImplementsProvider
=============================================================================
