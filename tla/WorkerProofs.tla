---------------------------- MODULE WorkerProofs ----------------------------
(***************************************************************************)
(* Proofs about the jobs (module MirrorJob) and about the worker that      *)
(* drives them (module Worker): the control handler, the scheduler loop    *)
(* and Halt over any number of jobs, Runs and commands.  The theorems of   *)
(* the second part are about a worker whose operator is Patient: a command *)
(* waits until the command before it has been taken.                       *)
(***************************************************************************)
EXTENDS Worker, FiniteSetTheorems, TLAPS

-----------------------------------------------------------------------------
(***************************************************************************)
(* Part 1: module MirrorJob, for any number of jobs and Runs, any          *)
(* concurrency limit, retry count and channel capacity.                    *)
(***************************************************************************)

\* The runs that have put a token in the semaphore and not yet signalled
\* jobDone.
Holders == {g \in Runs : holds[g]}

\* The tokens in the semaphore are those of the holders and those that
\* finished runners have still to take out.
TokenCount == semaphore = Cardinality(Holders) + releasing

\* A runner that waits for the semaphore, is over or does not exist has no
\* message to send and no token.
QuietRunner ==
    \A g \in Runs : rpc[g] \in {"none", "sem", "done"} =>
                        out[g] = NoMsg /\ ~holds[g]

\* A control loop that is idle, starting or gone has no runner.
Joined ==
    \A g \in Runs : pc[g] \in {"off", "launched", "loop", "idle"} =>
                        rpc[g] = "none"

MJInv == MJTypeOK /\ TokenCount /\ QuietRunner /\ Joined

-----------------------------------------------------------------------------
(***************************************************************************)
(* How the number of holders changes.                                      *)
(***************************************************************************)

\* Changing holds at one run that does not hold makes the holders one more.
LEMMA HoldersGrow ==
    ASSUME NEW g \in Runs, holds \in [Runs -> BOOLEAN], ~holds[g],
           holds' = [holds EXCEPT ![g] = TRUE]
    PROVE  Cardinality(Holders') = Cardinality(Holders) + 1
<1>1. IsFiniteSet(Holders)
  BY FS_Subset, RunsAssumption DEF Holders
<1>2. g \notin Holders
  BY DEF Holders
<1>3. Holders' = Holders \cup {g}
  BY DEF Holders
<1> QED
  BY <1>1, <1>2, <1>3, FS_AddElement

\* Clearing holds at a run that holds makes them one fewer.
LEMMA HoldersShrink ==
    ASSUME NEW g \in Runs, holds \in [Runs -> BOOLEAN], holds[g],
           holds' = [holds EXCEPT ![g] = FALSE]
    PROVE  Cardinality(Holders') = Cardinality(Holders) - 1
<1>1. IsFiniteSet(Holders)
  BY FS_Subset, RunsAssumption DEF Holders
<1>2. g \in Holders
  BY DEF Holders
<1>3. Holders' = Holders \ {g}
  BY DEF Holders
<1> QED
  BY <1>1, <1>2, <1>3, FS_RemoveElement

LEMMA HoldersNat == Cardinality(Holders) \in Nat
BY FS_Subset, FS_CardinalityType, RunsAssumption DEF Holders

-----------------------------------------------------------------------------
(***************************************************************************)
(* The invariant holds initially and every action preserves it.            *)
(***************************************************************************)
LEMMA InitInv == MJInit => MJInv
<1> SUFFICES ASSUME MJInit PROVE MJInv
  OBVIOUS
<1> USE RunsAssumption, BoundAssumption, NullAssumption
<1>1. MJTypeOK
  <2>1. retry \in [Runs -> 0..(Retry - 1)] /\ semaphore \in 0..Concurrent
    BY DEF MJInit, QuietInit
  <2>2. managerChan \in Seq(jobMessage) /\ Len(managerChan) <= MsgCap
    BY DEF MJInit, QuietInit
  <2>3. bypass \in [Runs -> BOOLEAN] /\ holds \in [Runs -> BOOLEAN] /\ panicked \in BOOLEAN
    BY DEF MJInit, QuietInit
  <2> QED
    BY <2>1, <2>2, <2>3 DEF MJInit, QuietInit, MJTypeOK, JobState, LoopPC, RunnerPC, Outcome, ProvState, NoCtrl
<1>2. Holders = {}
  BY DEF MJInit, QuietInit, Holders
<1>3. TokenCount
  BY <1>2, FS_EmptySet DEF MJInit, QuietInit, TokenCount
<1>4. QuietRunner /\ Joined
  BY DEF MJInit, QuietInit, QuietRunner, Joined
<1> QED
  BY <1>1, <1>3, <1>4 DEF MJInv

\* Messages are well formed.
LEMMA MessageType ==
    ASSUME NEW g \in Runs, NEW sched \in BOOLEAN,
           NEW status \in {"PreSyncing", "Syncing", "Success", "Failed"}
    PROVE  Message(g, status, sched) \in jobMessage
BY RunsAssumption DEF Message, Job, jobMessage

\* The tables of the control messages are total.
LEMMA WaitTables ==
    ASSUME NEW c \in CtrlAction
    PROVE  WaitState[c] \in JobState /\ WaitNext[c] \in LoopPC
BY DEF WaitState, WaitNext, CtrlAction, JobState, LoopPC

LEMMA TypeStep ==
    ASSUME MJInv, MJNext
    PROVE  MJTypeOK'
<1> USE RunsAssumption DEF Job
<1>state. state \in [Jobs -> JobState]
  BY DEF MJInv, MJTypeOK
<1>ctrlChan. ctrlChan \in [Jobs -> CtrlAction \cup {NoCtrl}]
  BY DEF MJInv, MJTypeOK
<1>disabled. disabled \in [Jobs -> Runs \cup {NoChan}]
  BY DEF MJInv, MJTypeOK
<1>closed. closed \subseteq Runs \cup {NoChan}
  BY DEF MJInv, MJTypeOK
<1>pc. pc \in [Runs -> LoopPC]
  BY DEF MJInv, MJTypeOK
<1>bypass. bypass \in [Runs -> BOOLEAN]
  BY DEF MJInv, MJTypeOK
<1>rpc. rpc \in [Runs -> RunnerPC]
  BY DEF MJInv, MJTypeOK
<1>retry. retry \in [Runs -> 0..(Retry - 1)]
  BY DEF MJInv, MJTypeOK
<1>outcome. outcome \in [Runs -> Outcome]
  BY DEF MJInv, MJTypeOK
<1>out. out \in [Runs -> jobMessage \cup {NoMsg}]
  BY DEF MJInv, MJTypeOK
<1>holds. holds \in [Runs -> BOOLEAN]
  BY DEF MJInv, MJTypeOK
<1>prov. prov \in [Runs -> ProvState]
  BY DEF MJInv, MJTypeOK
<1>semaphore. semaphore \in 0..Concurrent
  BY DEF MJInv, MJTypeOK
<1>releasing. releasing \in Nat
  BY DEF MJInv, MJTypeOK
<1>managerChan. managerChan \in Seq(jobMessage)
  BY DEF MJInv, MJTypeOK
<1>panicked. panicked \in BOOLEAN
  BY DEF MJInv, MJTypeOK
<1>sent. sent \in [Runs -> jobMessage \cup {NoMsg}]
  BY DEF MJInv, MJTypeOK
<1>len. Len(managerChan) <= MsgCap
  BY DEF MJInv, MJTypeOK
<1>ctrl. ASSUME NEW j \in Jobs PROVE ctrlChan[j] \in CtrlAction \cup {NoCtrl}
  BY <1>ctrlChan
<1>1. ASSUME NEW g \in Runs, Begin(g) PROVE MJTypeOK'
  <2>1. pc' \in [Runs -> LoopPC]
    BY <1>1, <1>pc DEF Begin, LoopPC
  <2>2. bypass' \in [Runs -> BOOLEAN]
    BY <1>1, <1>bypass DEF Begin
  <2>3. disabled' \in [Jobs -> Runs \cup {NoChan}]
    BY <1>1, <1>disabled DEF Begin
  <2>4. closed' \subseteq Runs \cup {NoChan}
    BY <1>1, <1>closed, <1>disabled DEF Begin
  <2>5. UNCHANGED <<state, ctrlChan, rpc, retry, outcome, out, holds, prov, semaphore, releasing, managerChan, panicked, sent>>
    BY <1>1 DEF Begin, jobVars, loopVars, runnerVars, chanVars
  <2> QED
    BY <2>1, <2>2, <2>3, <2>4, <2>5 DEF MJInv, MJTypeOK
<1>2. ASSUME NEW g \in Runs, LoopTop(g) PROVE MJTypeOK'
  <2>1. pc' \in [Runs -> LoopPC]
    BY <1>2, <1>pc DEF LoopTop, LoopPC
  <2>2. rpc' \in [Runs -> RunnerPC]
    BY <1>2, <1>rpc DEF LoopTop, RunnerPC
  <2>3. UNCHANGED <<state, ctrlChan, disabled, closed, bypass, retry, outcome, out, holds, prov, semaphore, releasing, managerChan, panicked, sent>>
    BY <1>2 DEF LoopTop, jobVars, loopVars, runnerVars, chanVars
  <2> QED
    BY <2>1, <2>2, <2>3 DEF MJInv, MJTypeOK
<1>3. ASSUME NEW g \in Runs, JobDone(g) PROVE MJTypeOK'
  <2>1. pc' \in [Runs -> LoopPC]
    BY <1>3, <1>pc DEF JobDone, RunnerGone, LoopPC
  <2>2. rpc' \in [Runs -> RunnerPC]
    BY <1>3, <1>rpc DEF JobDone, RunnerGone, RunnerPC
  <2>3. retry' \in [Runs -> 0..(Retry - 1)]
    BY <1>3, <1>retry, BoundAssumption DEF JobDone, RunnerGone
  <2>4. outcome' \in [Runs -> Outcome]
    BY <1>3, <1>outcome DEF JobDone, RunnerGone, Outcome
  <2>5. sent' \in [Runs -> jobMessage \cup {NoMsg}]
    BY <1>3, <1>sent, <1>out DEF JobDone, RunnerGone
  <2>6. UNCHANGED <<state, ctrlChan, disabled, closed, bypass, out, holds, prov, semaphore, releasing, managerChan, panicked>>
    BY <1>3 DEF JobDone, RunnerGone, jobVars, loopVars, runnerVars, chanVars
  <2> QED
    BY <2>1, <2>2, <2>3, <2>4, <2>5, <2>6 DEF MJInv, MJTypeOK
<1>4. ASSUME NEW g \in Runs, WaitCtrl(g) PROVE MJTypeOK'
  <2>1. ctrlChan' \in [Jobs -> CtrlAction \cup {NoCtrl}]
    BY <1>4, <1>ctrlChan DEF WaitCtrl, WaitState, WaitNext, CtrlAction, NoCtrl
  <2>2. state' \in [Jobs -> JobState]
    BY <1>4, <1>state, <1>ctrl, WaitTables DEF WaitCtrl
  <2>3. bypass' \in [Runs -> BOOLEAN]
    BY <1>4, <1>bypass DEF WaitCtrl, WaitState, WaitNext
  <2>4. pc' \in [Runs -> LoopPC]
    BY <1>4, <1>pc, <1>ctrl, WaitTables DEF WaitCtrl
  <2>5. UNCHANGED <<disabled, closed, rpc, retry, outcome, out, holds, prov, semaphore, releasing, managerChan, panicked, sent>>
    BY <1>4 DEF WaitCtrl, WaitState, WaitNext, jobVars, loopVars, runnerVars, chanVars
  <2> QED
    BY <2>1, <2>2, <2>3, <2>4, <2>5 DEF MJInv, MJTypeOK
<1>5. ASSUME NEW g \in Runs, Reap(g) PROVE MJTypeOK'
  <2>1. pc' \in [Runs -> LoopPC]
    BY <1>5, <1>pc DEF Reap, RunnerGone, Continue, Exit, LoopPC
  <2>2. closed' \subseteq Runs \cup {NoChan}
    BY <1>5, <1>closed, <1>disabled DEF Reap, RunnerGone, Continue, Exit
  <2>3. rpc' \in [Runs -> RunnerPC]
    BY <1>5, <1>rpc DEF Reap, RunnerGone, Continue, Exit, RunnerPC
  <2>4. retry' \in [Runs -> 0..(Retry - 1)]
    BY <1>5, <1>retry, BoundAssumption DEF Reap, RunnerGone, Continue, Exit
  <2>5. outcome' \in [Runs -> Outcome]
    BY <1>5, <1>outcome DEF Reap, RunnerGone, Continue, Exit, Outcome
  <2>6. sent' \in [Runs -> jobMessage \cup {NoMsg}]
    BY <1>5, <1>sent, <1>out DEF Reap, RunnerGone, Continue, Exit
  <2>7. panicked' \in BOOLEAN
    <3>1. CASE Exit(g)
      BY <3>1 DEF Exit
    <3>2. CASE UNCHANGED panicked
      BY <3>2, <1>panicked
    <3> QED
      BY <1>5, <3>1, <3>2 DEF Reap, Continue
  <2>8. UNCHANGED <<state, ctrlChan, disabled, bypass, out, holds, prov, semaphore, releasing, managerChan>>
    BY <1>5 DEF Reap, RunnerGone, Continue, Exit, jobVars, loopVars, runnerVars, chanVars
  <2> QED
    BY <2>1, <2>2, <2>3, <2>4, <2>5, <2>6, <2>7, <2>8 DEF MJInv, MJTypeOK
<1>6. ASSUME NEW g \in Runs, IdleCtrl(g) PROVE MJTypeOK'
  <2>1. pc' \in [Runs -> LoopPC]
    BY <1>6, <1>pc DEF IdleCtrl, WaitState, Continue, Exit, LoopPC, CtrlAction
  <2>2. closed' \subseteq Runs \cup {NoChan}
    BY <1>6, <1>closed, <1>disabled DEF IdleCtrl, WaitState, Continue, Exit
  <2>3. ctrlChan' \in [Jobs -> CtrlAction \cup {NoCtrl}]
    BY <1>6, <1>ctrlChan DEF IdleCtrl, WaitState, Continue, Exit, CtrlAction, NoCtrl
  <2>4. state' \in [Jobs -> JobState]
    BY <1>6, <1>state, <1>ctrl, WaitTables DEF IdleCtrl
  <2>5. bypass' \in [Runs -> BOOLEAN]
    BY <1>6, <1>bypass DEF IdleCtrl, WaitState, Continue, Exit
  <2>6. panicked' \in BOOLEAN
    <3>1. CASE Exit(g)
      BY <3>1 DEF Exit
    <3>2. CASE UNCHANGED panicked
      BY <3>2, <1>panicked
    <3> QED
      BY <1>6, <3>1, <3>2 DEF IdleCtrl, Continue
  <2>7. UNCHANGED <<disabled, rpc, retry, outcome, out, holds, prov, semaphore, releasing, managerChan, sent>>
    BY <1>6 DEF IdleCtrl, WaitState, Continue, Exit, jobVars, loopVars, runnerVars, chanVars
  <2> QED
    BY <2>1, <2>2, <2>3, <2>4, <2>5, <2>6, <2>7 DEF MJInv, MJTypeOK
<1>7. ASSUME NEW g \in Runs, Acquire(g) PROVE MJTypeOK'
  <2>1. semaphore' \in 0..Concurrent
    BY <1>7, <1>semaphore, BoundAssumption DEF Acquire
  <2>2. holds' \in [Runs -> BOOLEAN]
    BY <1>7, <1>holds DEF Acquire
  <2>3. out' \in [Runs -> jobMessage \cup {NoMsg}]
    BY <1>7, <1>out, MessageType DEF Acquire
  <2>4. rpc' \in [Runs -> RunnerPC]
    BY <1>7, <1>rpc DEF Acquire, RunnerPC
  <2>5. UNCHANGED <<state, ctrlChan, disabled, closed, pc, bypass, retry, outcome, prov, releasing, managerChan, panicked, sent>>
    BY <1>7 DEF Acquire, jobVars, loopVars, runnerVars, chanVars
  <2> QED
    BY <2>1, <2>2, <2>3, <2>4, <2>5 DEF MJInv, MJTypeOK
<1>8. ASSUME NEW g \in Runs, BypassSemaphore(g) PROVE MJTypeOK'
  <2>1. bypass' \in [Runs -> BOOLEAN]
    BY <1>8, <1>bypass DEF BypassSemaphore
  <2>2. out' \in [Runs -> jobMessage \cup {NoMsg}]
    BY <1>8, <1>out, MessageType DEF BypassSemaphore
  <2>3. rpc' \in [Runs -> RunnerPC]
    BY <1>8, <1>rpc DEF BypassSemaphore, RunnerPC
  <2>4. UNCHANGED <<state, ctrlChan, disabled, closed, pc, retry, outcome, holds, prov, semaphore, releasing, managerChan, panicked, sent>>
    BY <1>8 DEF BypassSemaphore, jobVars, loopVars, runnerVars, chanVars
  <2> QED
    BY <2>1, <2>2, <2>3, <2>4 DEF MJInv, MJTypeOK
<1>9. ASSUME NEW g \in Runs, KilledWaiting(g) PROVE MJTypeOK'
  <2>1. rpc' \in [Runs -> RunnerPC]
    BY <1>9, <1>rpc DEF KilledWaiting, RunnerPC
  <2>2. UNCHANGED <<state, ctrlChan, disabled, closed, pc, bypass, retry, outcome, out, holds, prov, semaphore, releasing, managerChan, panicked, sent>>
    BY <1>9 DEF KilledWaiting, jobVars, loopVars, runnerVars, chanVars
  <2> QED
    BY <2>1, <2>2 DEF MJInv, MJTypeOK
<1>10. ASSUME NEW g \in Runs, Send(g) PROVE MJTypeOK'
  <2>1. managerChan' \in Seq(jobMessage) /\ Len(managerChan') <= MsgCap
    <3>1. out[g] \in jobMessage
      BY <1>10, <1>out DEF Send
    <3> QED
      BY <3>1, <1>10, <1>managerChan, <1>len, BoundAssumption DEF Send
  <2>2. sent' \in [Runs -> jobMessage \cup {NoMsg}]
    BY <1>10, <1>sent, <1>out DEF Send
  <2>3. out' \in [Runs -> jobMessage \cup {NoMsg}]
    BY <1>10, <1>out, MessageType DEF Send
  <2>4. UNCHANGED <<state, ctrlChan, disabled, closed, pc, bypass, rpc, retry, outcome, holds, prov, semaphore, releasing, panicked>>
    BY <1>10 DEF Send, jobVars, loopVars, runnerVars, chanVars
  <2> QED
    BY <2>1, <2>2, <2>3, <2>4 DEF MJInv, MJTypeOK
<1>11. ASSUME NEW g \in Runs, PreJobHooks(g) PROVE MJTypeOK'
  <2>1. out' \in [Runs -> jobMessage \cup {NoMsg}]
    BY <1>11, <1>out, MessageType DEF PreJobHooks, HookFails
  <2>2. rpc' \in [Runs -> RunnerPC]
    BY <1>11, <1>rpc DEF PreJobHooks, HookFails, RunnerPC
  <2>3. retry' \in [Runs -> 0..(Retry - 1)]
    <3>1. CASE UNCHANGED retry
      BY <3>1, <1>retry
    <3>2. CASE retry' = [retry EXCEPT ![g] = 0]
      BY <3>2, <1>retry, BoundAssumption
    <3> QED
      BY <1>11, <3>1, <3>2 DEF PreJobHooks, HookFails
  <2>4. UNCHANGED <<state, ctrlChan, disabled, closed, pc, bypass, outcome, holds, prov, semaphore, releasing, managerChan, panicked, sent>>
    BY <1>11 DEF PreJobHooks, HookFails, jobVars, loopVars, runnerVars, chanVars
  <2> QED
    BY <2>1, <2>2, <2>3, <2>4 DEF MJInv, MJTypeOK
<1>12. ASSUME NEW g \in Runs, PreExecHooks(g) PROVE MJTypeOK'
  <2>1. out' \in [Runs -> jobMessage \cup {NoMsg}]
    BY <1>12, <1>out, MessageType DEF PreExecHooks, HookFails
  <2>2. rpc' \in [Runs -> RunnerPC]
    BY <1>12, <1>rpc DEF PreExecHooks, HookFails, RunnerPC
  <2>3. retry' \in [Runs -> 0..(Retry - 1)]
    BY <1>12, <1>retry, BoundAssumption DEF PreExecHooks, HookFails
  <2>4. UNCHANGED <<state, ctrlChan, disabled, closed, pc, bypass, outcome, holds, prov, semaphore, releasing, managerChan, panicked, sent>>
    BY <1>12 DEF PreExecHooks, HookFails, jobVars, loopVars, runnerVars, chanVars
  <2> QED
    BY <2>1, <2>2, <2>3, <2>4 DEF MJInv, MJTypeOK
<1>13. ASSUME NEW g \in Runs, AwaitStarted(g) PROVE MJTypeOK'
  <2>1. rpc' \in [Runs -> RunnerPC]
    BY <1>13, <1>rpc DEF AwaitStarted, RunnerPC
  <2>2. panicked' \in BOOLEAN
    BY <1>13, <1>panicked DEF AwaitStarted
  <2>3. UNCHANGED <<state, ctrlChan, disabled, closed, pc, bypass, retry, outcome, out, holds, prov, semaphore, releasing, managerChan, sent>>
    BY <1>13 DEF AwaitStarted, jobVars, loopVars, runnerVars, chanVars
  <2> QED
    BY <2>1, <2>2, <2>3 DEF MJInv, MJTypeOK
<1>14. ASSUME NEW g \in Runs, AwaitSync(g) PROVE MJTypeOK'
  <2>1. outcome' \in [Runs -> Outcome]
    BY <1>14, <1>outcome DEF AwaitSync, Outcome
  <2>2. rpc' \in [Runs -> RunnerPC]
    BY <1>14, <1>rpc DEF AwaitSync, RunnerPC
  <2>3. prov' \in [Runs -> ProvState]
    BY <1>14, <1>prov DEF AwaitSync, ProvState
  <2>4. UNCHANGED <<state, ctrlChan, disabled, closed, pc, bypass, retry, out, holds, semaphore, releasing, managerChan, panicked, sent>>
    BY <1>14 DEF AwaitSync, jobVars, loopVars, runnerVars, chanVars
  <2> QED
    BY <2>1, <2>2, <2>3, <2>4 DEF MJInv, MJTypeOK
<1>15. ASSUME NEW g \in Runs, Terminate(g) PROVE MJTypeOK'
  <2>1. outcome' \in [Runs -> Outcome]
    BY <1>15, <1>outcome DEF Terminate, Outcome
  <2>2. rpc' \in [Runs -> RunnerPC]
    BY <1>15, <1>rpc DEF Terminate, RunnerPC
  <2>3. UNCHANGED <<state, ctrlChan, disabled, closed, pc, bypass, retry, out, holds, prov, semaphore, releasing, managerChan, panicked, sent>>
    BY <1>15 DEF Terminate, jobVars, loopVars, runnerVars, chanVars
  <2> QED
    BY <2>1, <2>2, <2>3 DEF MJInv, MJTypeOK
<1>16. ASSUME NEW g \in Runs, PostHooks(g) PROVE MJTypeOK'
  <2>1. out' \in [Runs -> jobMessage \cup {NoMsg}]
    BY <1>16, <1>out, MessageType DEF PostHooks, HookFails, Ready, LastTry
  <2>2. rpc' \in [Runs -> RunnerPC]
    BY <1>16, <1>rpc DEF PostHooks, HookFails, RunnerPC
  <2>3. retry' \in [Runs -> 0..(Retry - 1)]
    <3>1. CASE UNCHANGED retry
      BY <3>1, <1>retry
    <3>2. CASE ~LastTry(g) /\ retry' = [retry EXCEPT ![g] = @ + 1]
      BY <3>2, <1>retry, BoundAssumption DEF LastTry
    <3> QED
      BY <1>16, <3>1, <3>2 DEF PostHooks, HookFails
  <2>4. UNCHANGED <<state, ctrlChan, disabled, closed, pc, bypass, outcome, holds, prov, semaphore, releasing, managerChan, panicked, sent>>
    BY <1>16 DEF PostHooks, HookFails, jobVars, loopVars, runnerVars, chanVars
  <2> QED
    BY <2>1, <2>2, <2>3, <2>4 DEF MJInv, MJTypeOK
<1>17. ASSUME NEW g \in Runs, Return(g) PROVE MJTypeOK'
  <2>1. rpc' \in [Runs -> RunnerPC]
    BY <1>17, <1>rpc DEF Return, RunnerPC
  <2>2. holds' \in [Runs -> BOOLEAN]
    BY <1>17, <1>holds DEF Return
  <2>3. releasing' \in Nat
    BY <1>17, <1>releasing DEF Return
  <2>4. UNCHANGED <<state, ctrlChan, disabled, closed, pc, bypass, retry, outcome, out, prov, semaphore, managerChan, panicked, sent>>
    BY <1>17 DEF Return, jobVars, loopVars, runnerVars, chanVars
  <2> QED
    BY <2>1, <2>2, <2>3, <2>4 DEF MJInv, MJTypeOK
<1>18. ASSUME NEW g \in Runs, ProviderStart(g) PROVE MJTypeOK'
  <2>1. prov' \in [Runs -> ProvState]
    BY <1>18, <1>prov DEF ProviderStart, ProvState
  <2>2. UNCHANGED <<state, ctrlChan, disabled, closed, pc, bypass, rpc, retry, outcome, out, holds, semaphore, releasing, managerChan, panicked, sent>>
    BY <1>18 DEF ProviderStart, jobVars, loopVars, runnerVars, chanVars
  <2> QED
    BY <2>1, <2>2 DEF MJInv, MJTypeOK
<1>19. ASSUME NEW g \in Runs, ProviderEnd(g) PROVE MJTypeOK'
  <2>1. prov' \in [Runs -> ProvState]
    BY <1>19, <1>prov DEF ProviderEnd, ProvState
  <2>2. UNCHANGED <<state, ctrlChan, disabled, closed, pc, bypass, rpc, retry, outcome, out, holds, semaphore, releasing, managerChan, panicked, sent>>
    BY <1>19 DEF ProviderEnd, jobVars, loopVars, runnerVars, chanVars
  <2> QED
    BY <2>1, <2>2 DEF MJInv, MJTypeOK
<1>20. ASSUME NEW g \in Runs, Timeout(g) PROVE MJTypeOK'
  <2>1. outcome' \in [Runs -> Outcome]
    BY <1>20, <1>outcome DEF Timeout, Outcome
  <2>2. rpc' \in [Runs -> RunnerPC]
    BY <1>20, <1>rpc DEF Timeout, RunnerPC
  <2>3. prov' \in [Runs -> ProvState]
    BY <1>20, <1>prov DEF Timeout, ProvState
  <2>4. UNCHANGED <<state, ctrlChan, disabled, closed, pc, bypass, retry, out, holds, semaphore, releasing, managerChan, panicked, sent>>
    BY <1>20 DEF Timeout, jobVars, loopVars, runnerVars, chanVars
  <2> QED
    BY <2>1, <2>2, <2>3, <2>4 DEF MJInv, MJTypeOK
<1>21. ASSUME NEW g \in Runs, Launch(g) PROVE MJTypeOK'
  <2>1. pc' \in [Runs -> LoopPC]
    BY <1>21, <1>pc DEF Launch, GoRun, LoopPC
  <2>2. state' \in [Jobs -> JobState]
    BY <1>21, <1>state DEF Launch, GoRun, JobState
  <2>3. UNCHANGED <<ctrlChan, disabled, closed, bypass, rpc, retry, outcome, out, holds, prov, semaphore, releasing, managerChan, panicked, sent>>
    BY <1>21 DEF Launch, GoRun, jobVars, loopVars, runnerVars, chanVars
  <2> QED
    BY <2>1, <2>2, <2>3 DEF MJInv, MJTypeOK
<1>22. ASSUME Release PROVE MJTypeOK'
  <2>1. semaphore' \in 0..Concurrent /\ releasing' \in Nat
    BY <1>22, <1>semaphore, <1>releasing, BoundAssumption, HoldersNat DEF Release, MJInv, TokenCount
  <2> QED
    BY <1>22, <2>1 DEF MJInv, MJTypeOK, Release, jobVars, loopVars, runnerVars, chanVars
<1>23. ASSUME NEW j \in Jobs, NEW c \in EnvCtrl, SendCtrl(j, c) PROVE MJTypeOK'
  <2>1. ctrlChan' \in [Jobs -> CtrlAction \cup {NoCtrl}]
    BY <1>23, <1>ctrlChan, EnvAssumption DEF SendCtrl
  <2> QED
    BY <1>23, <2>1 DEF MJInv, MJTypeOK, SendCtrl, jobVars, loopVars, runnerVars, chanVars
<1>24. ASSUME ReceiveMsg PROVE MJTypeOK'
  <2>1. managerChan' \in Seq(jobMessage) /\ Len(managerChan') <= MsgCap
    BY <1>24, <1>managerChan, <1>len, BoundAssumption DEF ReceiveMsg
  <2> QED
    BY <1>24, <2>1 DEF MJInv, MJTypeOK, ReceiveMsg, jobVars, loopVars, runnerVars, chanVars
<1>25. ASSUME Crashed PROVE MJTypeOK'
  BY <1>25 DEF Crashed, mjVars, MJInv, MJTypeOK, jobVars, loopVars, runnerVars, chanVars
<1> QED
  BY <1>1, <1>2, <1>3, <1>4, <1>5, <1>6, <1>7, <1>8, <1>9, <1>10, <1>11, <1>12, <1>13, <1>14, <1>15, <1>16, <1>17, <1>18, <1>19, <1>20, <1>21, <1>22, <1>23, <1>24, <1>25
  DEF MJNext, LoopStep, RunnerStep, ProviderStep, Environment

\* Only Acquire, Return and Release touch the tokens.
LEMMA TokenStep ==
    ASSUME MJInv, MJNext
    PROVE  TokenCount'
<1> USE DEF MJInv, TokenCount
<1>1. holds \in [Runs -> BOOLEAN] /\ semaphore \in Nat /\ releasing \in Nat
  BY BoundAssumption DEF MJTypeOK
<1>2. ASSUME NEW g \in Runs, Acquire(g) PROVE TokenCount'
  <2>1. ~holds[g]
    BY <1>2 DEF Acquire, QuietRunner
  <2>2. holds' = [holds EXCEPT ![g] = TRUE]
    BY <1>2 DEF Acquire
  <2>3. Cardinality(Holders') = Cardinality(Holders) + 1
    BY <1>1, <2>1, <2>2, HoldersGrow
  <2> QED
    BY <1>1, <1>2, <2>3, HoldersNat DEF Acquire
<1>3. ASSUME NEW g \in Runs, Return(g) PROVE TokenCount'
  <2>1. CASE holds[g]
    <3>1. holds' = [holds EXCEPT ![g] = FALSE] /\ releasing' = releasing + 1
          /\ semaphore' = semaphore
      BY <1>3, <2>1 DEF Return
    <3>2. Cardinality(Holders') = Cardinality(Holders) - 1
      BY <1>1, <2>1, <3>1, HoldersShrink
    <3> QED
      BY <1>1, <3>1, <3>2, HoldersNat
  <2>2. CASE ~holds[g]
    <3>1. Holders' = Holders
      BY <1>1, <1>3, <2>2 DEF Return, Holders
    <3> QED
      BY <1>3, <2>2, <3>1 DEF Return
  <2> QED
    BY <2>1, <2>2
<1>4. ASSUME Release PROVE TokenCount'
  <2>1. Holders' = Holders
    BY <1>4 DEF Release, runnerVars, Holders
  <2> QED
    BY <1>1, <1>4, <2>1, HoldersNat DEF Release
<1>5. ASSUME UNCHANGED <<holds, semaphore, releasing>> PROVE TokenCount'
  <2>1. Holders' = Holders
    BY <1>5 DEF Holders
  <2> QED
    BY <1>5, <2>1
<1>6. ASSUME NEW g \in Runs, LoopStep(g) PROVE UNCHANGED <<holds, semaphore, releasing>>
  BY <1>6 DEF LoopStep, Begin, LoopTop, JobDone, WaitCtrl, Reap, IdleCtrl,
              RunnerGone, runnerVars, chanVars
<1>7. ASSUME NEW g \in Runs, ProviderStep(g) PROVE UNCHANGED <<holds, semaphore, releasing>>
  BY <1>7 DEF ProviderStep, ProviderStart, ProviderEnd, Timeout, runnerVars, chanVars
<1>8. ASSUME NEW g \in Runs,
             \/ BypassSemaphore(g) \/ KilledWaiting(g) \/ Send(g)
             \/ PreJobHooks(g) \/ PreExecHooks(g) \/ AwaitStarted(g)
             \/ AwaitSync(g) \/ Terminate(g) \/ PostHooks(g)
      PROVE  UNCHANGED <<holds, semaphore, releasing>>
  BY <1>8 DEF BypassSemaphore, KilledWaiting, Send, PreJobHooks, PreExecHooks,
              AwaitStarted, AwaitSync, Terminate, PostHooks, chanVars
<1>9. ASSUME Environment \/ Crashed PROVE UNCHANGED <<holds, semaphore, releasing>>
  BY <1>9 DEF Environment, Launch, GoRun, SendCtrl, ReceiveMsg, Crashed, mjVars,
              runnerVars, chanVars
<1> QED
  BY <1>2, <1>3, <1>4, <1>5, <1>6, <1>7, <1>8, <1>9 DEF MJNext, RunnerStep

LEMMA QuietStep ==
    ASSUME MJInv, MJNext
    PROVE  QuietRunner'
<1>1. /\ rpc \in [Runs -> RunnerPC]
      /\ out \in [Runs -> jobMessage \cup {NoMsg}]
      /\ holds \in [Runs -> BOOLEAN]
  BY DEF MJInv, MJTypeOK
<1>2. QuietRunner /\ Joined
  BY DEF MJInv
<1> USE DEF QuietRunner, jobVars, loopVars, runnerVars, chanVars
<1>3. ASSUME NEW g \in Runs, LoopTop(g) PROVE QuietRunner'
  BY <1>1, <1>2, <1>3 DEF LoopTop, Joined
<1>4. ASSUME NEW g \in Runs, JobDone(g) PROVE QuietRunner'
  BY <1>1, <1>2, <1>4 DEF JobDone, RunnerGone
<1>5. ASSUME NEW g \in Runs, Reap(g) PROVE QuietRunner'
  BY <1>1, <1>2, <1>5 DEF Reap, RunnerGone
<1>6. ASSUME NEW g \in Runs, Acquire(g) PROVE QuietRunner'
  BY <1>1, <1>2, <1>6 DEF Acquire
<1>7. ASSUME NEW g \in Runs, BypassSemaphore(g) PROVE QuietRunner'
  BY <1>1, <1>2, <1>7 DEF BypassSemaphore
<1>8. ASSUME NEW g \in Runs, KilledWaiting(g) PROVE QuietRunner'
  BY <1>1, <1>2, <1>8 DEF KilledWaiting, Killed
<1>9. ASSUME NEW g \in Runs, Send(g) PROVE QuietRunner'
  BY <1>1, <1>2, <1>9 DEF Send
<1>10. ASSUME NEW g \in Runs, PreJobHooks(g) PROVE QuietRunner'
  BY <1>1, <1>2, <1>10 DEF PreJobHooks, HookFails, At
<1>11. ASSUME NEW g \in Runs, PreExecHooks(g) PROVE QuietRunner'
  BY <1>1, <1>2, <1>11 DEF PreExecHooks, HookFails, At
<1>12. ASSUME NEW g \in Runs, AwaitStarted(g) PROVE QuietRunner'
  BY <1>1, <1>2, <1>12 DEF AwaitStarted, At
<1>13. ASSUME NEW g \in Runs, AwaitSync(g) PROVE QuietRunner'
  BY <1>1, <1>2, <1>13 DEF AwaitSync, At
<1>14. ASSUME NEW g \in Runs, Timeout(g) PROVE QuietRunner'
  BY <1>1, <1>2, <1>14 DEF Timeout, At
<1>15. ASSUME NEW g \in Runs, Terminate(g) PROVE QuietRunner'
  BY <1>1, <1>2, <1>15 DEF Terminate, At
<1>16. ASSUME NEW g \in Runs, PostHooks(g) PROVE QuietRunner'
  BY <1>1, <1>2, <1>16 DEF PostHooks, HookFails, At
<1>17. ASSUME NEW g \in Runs, Return(g) PROVE QuietRunner'
  BY <1>1, <1>2, <1>17 DEF Return, At
<1>18. ASSUME UNCHANGED <<rpc, out, holds>> PROVE QuietRunner'
  BY <1>2, <1>18
<1>19. ASSUME NEW g \in Runs, Begin(g) \/ WaitCtrl(g) \/ IdleCtrl(g) \/ ProviderStart(g) \/ ProviderEnd(g) \/ Launch(g)
      PROVE  UNCHANGED <<rpc, out, holds>>
  BY <1>19 DEF Begin, WaitCtrl, IdleCtrl, ProviderStart, ProviderEnd, Launch, GoRun
<1>20. ASSUME Release \/ ReceiveMsg \/ Crashed PROVE UNCHANGED <<rpc, out, holds>>
  BY <1>20 DEF Release, ReceiveMsg, Crashed, mjVars
<1>21. ASSUME NEW j \in Jobs, NEW c \in EnvCtrl, SendCtrl(j, c) PROVE UNCHANGED <<rpc, out, holds>>
  BY <1>21 DEF SendCtrl
<1> QED
  BY <1>3, <1>4, <1>5, <1>6, <1>7, <1>8, <1>9, <1>10, <1>11, <1>12, <1>13, <1>14, <1>15, <1>16, <1>17, <1>18, <1>19, <1>20, <1>21
  DEF MJNext, LoopStep, RunnerStep, ProviderStep, Environment

LEMMA JoinedStep ==
    ASSUME MJInv, MJNext
    PROVE  Joined'
<1>1. /\ rpc \in [Runs -> RunnerPC] /\ pc \in [Runs -> LoopPC]
      /\ ctrlChan \in [Jobs -> CtrlAction \cup {NoCtrl}]
  BY DEF MJInv, MJTypeOK
<1>2. Joined
  BY DEF MJInv
<1> USE DEF Joined, jobVars, loopVars, runnerVars, chanVars
<1>3. ASSUME NEW g \in Runs, Begin(g) PROVE Joined'
  BY <1>1, <1>2, <1>3 DEF Begin
<1>4. ASSUME NEW g \in Runs, LoopTop(g) PROVE Joined'
  BY <1>1, <1>2, <1>4 DEF LoopTop
<1>5. ASSUME NEW g \in Runs, JobDone(g) PROVE Joined'
  BY <1>1, <1>2, <1>5 DEF JobDone, RunnerGone
<1>6. ASSUME NEW g \in Runs, WaitCtrl(g) PROVE Joined'
  <2>1. pc' = [pc EXCEPT ![g] = WaitNext[ctrlChan[Job(g)]]] /\ UNCHANGED rpc
    BY <1>6 DEF WaitCtrl
  <2>2. WaitNext[ctrlChan[Job(g)]] \in {"wait", "stopping", "leaving", "restarting"}
    <3>1. ctrlChan[Job(g)] \in CtrlAction
      BY <1>1, <1>6, RunsAssumption DEF WaitCtrl, Job
    <3> QED
      BY <3>1 DEF WaitNext, CtrlAction
  <2> QED
    BY <1>1, <1>2, <2>1, <2>2
<1>7. ASSUME NEW g \in Runs, Reap(g) PROVE Joined'
  BY <1>1, <1>2, <1>7 DEF Reap, RunnerGone, Continue, Exit
<1>8. ASSUME NEW g \in Runs, IdleCtrl(g) PROVE Joined'
  BY <1>1, <1>2, <1>8 DEF IdleCtrl, Continue, Exit
<1>9. ASSUME NEW g \in Runs, Launch(g) PROVE Joined'
  BY <1>1, <1>2, <1>9 DEF Launch, GoRun
<1>10. ASSUME UNCHANGED <<rpc, pc>> PROVE Joined'
  BY <1>2, <1>10
<1>11. ASSUME NEW g \in Runs, NEW r, rpc[g] # "none", UNCHANGED pc,
             rpc' = [rpc EXCEPT ![g] = r]
      PROVE  Joined'
  BY <1>1, <1>2, <1>11
<1>12. ASSUME NEW g \in Runs, Acquire(g) \/ BypassSemaphore(g) \/ KilledWaiting(g) \/ PreJobHooks(g) \/ PreExecHooks(g) \/ AwaitStarted(g) \/ AwaitSync(g) \/ Timeout(g) \/ Terminate(g) \/ PostHooks(g) \/ Return(g)
      PROVE  rpc[g] # "none" /\ UNCHANGED pc /\ \E r : rpc' = [rpc EXCEPT ![g] = r]
  BY <1>12 DEF Acquire, BypassSemaphore, KilledWaiting, PreJobHooks, PreExecHooks, AwaitStarted, AwaitSync, Timeout, Terminate, PostHooks, Return, At, HookFails
<1>13. ASSUME NEW g \in Runs, Send(g) \/ ProviderStart(g) \/ ProviderEnd(g) PROVE UNCHANGED <<rpc, pc>>
  BY <1>13 DEF Send, ProviderStart, ProviderEnd
<1>14. ASSUME Release \/ ReceiveMsg \/ Crashed PROVE UNCHANGED <<rpc, pc>>
  BY <1>14 DEF Release, ReceiveMsg, Crashed, mjVars
<1>15. ASSUME NEW j \in Jobs, NEW c \in EnvCtrl, SendCtrl(j, c) PROVE UNCHANGED <<rpc, pc>>
  BY <1>15 DEF SendCtrl
<1> QED
  BY <1>3, <1>4, <1>5, <1>6, <1>7, <1>8, <1>9, <1>10, <1>11, <1>12, <1>13, <1>14, <1>15
  DEF MJNext, LoopStep, RunnerStep, ProviderStep, Environment

LEMMA InvStep == MJInv /\ [MJNext]_mjVars => MJInv'
<1>1. ASSUME MJInv, MJNext PROVE MJInv'
  BY <1>1, TypeStep, TokenStep, QuietStep, JoinedStep DEF MJInv
<1>2. ASSUME MJInv, UNCHANGED mjVars PROVE MJInv'
  BY <1>2 DEF MJInv, MJTypeOK, TokenCount, QuietRunner, Joined, Holders, mjVars,
              jobVars, loopVars, runnerVars, chanVars
<1> QED
  BY <1>1, <1>2

LEMMA Invariance == MJSpec => []MJInv
BY InitInv, InvStep, PTL DEF MJSpec

-----------------------------------------------------------------------------
(***************************************************************************)
(* The theorems.                                                           *)
(***************************************************************************)

\* Every variable keeps its type; in particular managerChan, the semaphore and
\* the retry counter stay within their bounds.  The deferred <-semaphore finds
\* a token because TokenCount holds.
THEOREM TypeCorrect == MJSpec => []MJTypeOK
<1>1. MJInv => MJTypeOK
  BY DEF MJInv
<1> QED
  BY <1>1, Invariance, PTL

\* However many jobs there are and whatever is started, stopped, forced and
\* killed, at most Concurrent of the runs that took the semaphore are in
\* progress (runJob, job.go).
THEOREM LimitRespected == MJSpec => []SemaphoreLimit
<1>1. ASSUME MJInv PROVE SemaphoreLimit
  <2>1. IsFiniteSet(Holders) /\ Limited \subseteq Holders
    BY FS_Subset, RunsAssumption DEF Holders, Limited
  <2>2. Cardinality(Limited) <= Cardinality(Holders) /\ Cardinality(Limited) \in Nat
    BY <2>1, FS_Subset, FS_CardinalityType
  <2> QED
    BY <1>1, <2>2, HoldersNat, BoundAssumption
    DEF MJInv, MJTypeOK, TokenCount, SemaphoreLimit
<1> QED
  BY <1>1, Invariance, PTL

\* Whenever a Run is idle or has returned, its runner is gone: it has no report
\* to send and no token (the joins on jobDone in Run, job.go).
THEOREM RunnersJoined == MJSpec => []NoOrphanRunner
<1>1. MJInv => NoOrphanRunner
  BY DEF MJInv, QuietRunner, Joined, NoOrphanRunner
<1> QED
  BY <1>1, Invariance, PTL

-----------------------------------------------------------------------------
(***************************************************************************)
(* What a run reports: the order of its messages, and that its last one    *)
(* asks for the next run.                                                  *)
(***************************************************************************)

\* The last report of g's runner, sent or about to be sent.
Issued(g) == IF out[g] = NoMsg THEN sent[g] ELSE out[g]

\* m is a report of one of these statuses that does not ask for scheduling.
Plain(m, statuses) == m # NoMsg /\ m.status \in statuses /\ ~m.schedule

\* What the last report was at each place of the runner.
Stage(g) ==
    /\ rpc[g] \in {"none", "sem"} => sent[g] = NoMsg
    /\ rpc[g] = "pre" => Plain(Issued(g), {"PreSyncing"})
    /\ rpc[g] = "exec" => Plain(Issued(g), {"PreSyncing", "Failed"})
    /\ rpc[g] \in {"start", "sync", "term", "post"} => Plain(Issued(g), {"Syncing"})

OrderInv ==
    \A g \in Runs : Stage(g) /\ (out[g] # NoMsg => MayFollow(sent[g], out[g]))

-----------------------------------------------------------------------------
LEMMA OrderInit == MJInit => OrderInv
BY DEF MJInit, QuietInit, OrderInv, Stage

LEMMA OrderStep ==
    ASSUME MJInv, OrderInv, MJNext
    PROVE  OrderInv'
<1> DEFINE Same(h) == UNCHANGED <<rpc[h], out[h], sent[h]>>
           Good(h) == Stage(h) /\ (out[h] # NoMsg => MayFollow(sent[h], out[h]))
<1>1. /\ rpc \in [Runs -> RunnerPC]
      /\ out \in [Runs -> jobMessage \cup {NoMsg}]
      /\ sent \in [Runs -> jobMessage \cup {NoMsg}]
  BY DEF MJInv, MJTypeOK
<1>2. QuietRunner
  BY DEF MJInv
<1>3. ASSUME NEW g \in Runs PROVE Good(g)
  BY DEF OrderInv
<1>4. ASSUME NEW h \in Runs, Same(h) PROVE Good(h)'
  BY <1>3, <1>4 DEF Stage, Issued
<1>hook. ASSUME NEW g \in Runs, out[g] = NoMsg, HookFails(g), UNCHANGED sent,
                Plain(sent[g], {"PreSyncing", "Failed", "Syncing"})
         PROVE  Good(g)'
  <2>1. /\ Message(g, "Failed", TRUE) # NoMsg
        /\ Message(g, "Failed", TRUE).status = "Failed"
    BY MessageType, NullAssumption DEF Message
  <2>2. out'[g] = Message(g, "Failed", TRUE) /\ rpc'[g] = "return" /\ sent'[g] = sent[g]
    BY <1>1, <1>hook DEF HookFails
  <2>3. MayFollow(sent'[g], out'[g])
    BY <1>hook, <2>1, <2>2 DEF Plain, MayFollow
  <2> QED
    BY <2>2, <2>3 DEF Stage
<1>5. ASSUME NEW g \in Runs, NEW sched \in BOOLEAN,
             NEW status \in {"PreSyncing", "Syncing", "Success", "Failed"}
      PROVE  /\ Message(g, status, sched) # NoMsg
             /\ Message(g, status, sched).status = status
             /\ Message(g, status, sched).schedule = sched
  BY MessageType, NullAssumption DEF Message
<1>6. ASSUME NEW g \in Runs, LoopTop(g) PROVE OrderInv'
  <2>1. Good(g)'
    BY <1>1, <1>2, <1>3, <1>6 DEF LoopTop, Stage, Issued, QuietRunner, MJInv, Joined
  <2>2. ASSUME NEW h \in Runs, h # g PROVE Same(h)
    BY <1>1, <1>6, <2>2 DEF LoopTop, runnerVars
  <2> QED
    BY <2>1, <2>2, <1>4 DEF OrderInv
<1>7. ASSUME NEW g \in Runs, JobDone(g) PROVE OrderInv'
  <2>1. Good(g)'
    BY <1>1, <1>2, <1>3, <1>7 DEF JobDone, RunnerGone, Stage, Issued, Plain, MayFollow, QuietRunner, loopVars, runnerVars
  <2>2. ASSUME NEW h \in Runs, h # g PROVE Same(h)
    BY <1>1, <1>7, <2>2 DEF JobDone, RunnerGone, runnerVars
  <2> QED
    BY <2>1, <2>2, <1>4 DEF OrderInv
<1>8. ASSUME NEW g \in Runs, Reap(g) PROVE OrderInv'
  <2>1. Good(g)'
    BY <1>1, <1>2, <1>3, <1>8 DEF Reap, RunnerGone, Stage, Issued, Plain, MayFollow, QuietRunner, loopVars, runnerVars
  <2>2. ASSUME NEW h \in Runs, h # g PROVE Same(h)
    BY <1>1, <1>8, <2>2 DEF Reap, RunnerGone, runnerVars
  <2> QED
    BY <2>1, <2>2, <1>4 DEF OrderInv
<1>9. ASSUME NEW g \in Runs, Acquire(g) PROVE OrderInv'
  <2>1. Good(g)'
    BY <1>1, <1>2, <1>3, <1>5, <1>9 DEF Acquire, Stage, Issued, Plain, MayFollow, QuietRunner, loopVars, runnerVars
  <2>2. ASSUME NEW h \in Runs, h # g PROVE Same(h)
    BY <1>1, <1>9, <2>2 DEF Acquire, runnerVars
  <2> QED
    BY <2>1, <2>2, <1>4 DEF OrderInv
<1>10. ASSUME NEW g \in Runs, BypassSemaphore(g) PROVE OrderInv'
  <2>1. Good(g)'
    BY <1>1, <1>2, <1>3, <1>5, <1>10 DEF BypassSemaphore, Stage, Issued, Plain, MayFollow, QuietRunner, loopVars, runnerVars
  <2>2. ASSUME NEW h \in Runs, h # g PROVE Same(h)
    BY <1>1, <1>10, <2>2 DEF BypassSemaphore, runnerVars
  <2> QED
    BY <2>1, <2>2, <1>4 DEF OrderInv
<1>11. ASSUME NEW g \in Runs, KilledWaiting(g) PROVE OrderInv'
  <2>1. Good(g)'
    BY <1>1, <1>2, <1>3, <1>11 DEF KilledWaiting, Stage, Issued, Plain, MayFollow, QuietRunner, loopVars, runnerVars
  <2>2. ASSUME NEW h \in Runs, h # g PROVE Same(h)
    BY <1>1, <1>11, <2>2 DEF KilledWaiting, runnerVars
  <2> QED
    BY <2>1, <2>2, <1>4 DEF OrderInv
<1>12. ASSUME NEW g \in Runs, Send(g) PROVE OrderInv'
  <2>1. Good(g)'
    BY <1>1, <1>2, <1>3, <1>12 DEF Send, Stage, Issued, Plain, MayFollow, QuietRunner, loopVars, runnerVars
  <2>2. ASSUME NEW h \in Runs, h # g PROVE Same(h)
    BY <1>1, <1>12, <2>2 DEF Send, runnerVars
  <2> QED
    BY <2>1, <2>2, <1>4 DEF OrderInv
<1>13. ASSUME NEW g \in Runs, PreJobHooks(g) PROVE OrderInv'
  <2>1. Good(g)'
    <3>st. out[g] = NoMsg /\ Plain(sent[g], {"PreSyncing"}) /\ UNCHANGED sent
      BY <1>3, <1>13 DEF PreJobHooks, At, Stage, Issued
    <3>1. CASE HookFails(g)
      BY <1>hook, <3>st, <3>1 DEF Plain
    <3>2. CASE rpc' = [rpc EXCEPT ![g] = "exec"] /\ UNCHANGED out
      BY <1>1, <3>st, <3>2 DEF Stage, Issued, Plain
    <3> QED
      BY <1>13, <3>1, <3>2 DEF PreJobHooks
  <2>2. ASSUME NEW h \in Runs, h # g PROVE Same(h)
    BY <1>1, <1>13, <2>2 DEF PreJobHooks, HookFails, At, runnerVars
  <2> QED
    BY <2>1, <2>2, <1>4 DEF OrderInv
<1>14. ASSUME NEW g \in Runs, PreExecHooks(g) PROVE OrderInv'
  <2>1. Good(g)'
    <3>st. out[g] = NoMsg /\ Plain(sent[g], {"PreSyncing", "Failed"}) /\ UNCHANGED sent
      BY <1>3, <1>14 DEF PreExecHooks, At, Stage, Issued
    <3>1. CASE HookFails(g)
      BY <1>hook, <3>st, <3>1 DEF Plain
    <3>2. CASE /\ rpc' = [rpc EXCEPT ![g] = "start"]
               /\ out' = [out EXCEPT ![g] = Message(g, "Syncing", FALSE)]
      <4>1. Plain(out'[g], {"Syncing"}) /\ rpc'[g] = "start"
        BY <1>1, <1>5, <3>2 DEF Plain
      <4>2. MayFollow(sent'[g], out'[g])
        BY <3>st, <4>1 DEF Plain, MayFollow
      <4> QED
        BY <4>1, <4>2 DEF Stage, Issued, Plain
    <3> QED
      BY <1>14, <3>1, <3>2 DEF PreExecHooks
  <2>2. ASSUME NEW h \in Runs, h # g PROVE Same(h)
    BY <1>1, <1>14, <2>2 DEF PreExecHooks, HookFails, At, runnerVars
  <2> QED
    BY <2>1, <2>2, <1>4 DEF OrderInv
<1>15. ASSUME NEW g \in Runs, AwaitStarted(g) PROVE OrderInv'
  <2>1. Good(g)'
    BY <1>1, <1>2, <1>3, <1>15 DEF AwaitStarted, At, Stage, Issued, Plain, MayFollow, QuietRunner, loopVars, runnerVars
  <2>2. ASSUME NEW h \in Runs, h # g PROVE Same(h)
    BY <1>1, <1>15, <2>2 DEF AwaitStarted, At, runnerVars
  <2> QED
    BY <2>1, <2>2, <1>4 DEF OrderInv
<1>16. ASSUME NEW g \in Runs, AwaitSync(g) PROVE OrderInv'
  <2>1. Good(g)'
    BY <1>1, <1>2, <1>3, <1>16 DEF AwaitSync, At, Stage, Issued, Plain, MayFollow, QuietRunner, loopVars, runnerVars
  <2>2. ASSUME NEW h \in Runs, h # g PROVE Same(h)
    BY <1>1, <1>16, <2>2 DEF AwaitSync, At, runnerVars
  <2> QED
    BY <2>1, <2>2, <1>4 DEF OrderInv
<1>17. ASSUME NEW g \in Runs, Timeout(g) PROVE OrderInv'
  <2>1. Good(g)'
    BY <1>1, <1>2, <1>3, <1>17 DEF Timeout, At, Stage, Issued, Plain, MayFollow, QuietRunner, loopVars, runnerVars
  <2>2. ASSUME NEW h \in Runs, h # g PROVE Same(h)
    BY <1>1, <1>17, <2>2 DEF Timeout, At, runnerVars
  <2> QED
    BY <2>1, <2>2, <1>4 DEF OrderInv
<1>18. ASSUME NEW g \in Runs, Terminate(g) PROVE OrderInv'
  <2>1. Good(g)'
    BY <1>1, <1>2, <1>3, <1>18 DEF Terminate, At, Stage, Issued, Plain, MayFollow, QuietRunner, loopVars, runnerVars
  <2>2. ASSUME NEW h \in Runs, h # g PROVE Same(h)
    BY <1>1, <1>18, <2>2 DEF Terminate, At, runnerVars
  <2> QED
    BY <2>1, <2>2, <1>4 DEF OrderInv
<1>19. ASSUME NEW g \in Runs, PostHooks(g) PROVE OrderInv'
  <2>1. Good(g)'
    <3>st. out[g] = NoMsg /\ Plain(sent[g], {"Syncing"}) /\ UNCHANGED sent
      BY <1>3, <1>19 DEF PostHooks, At, Stage, Issued
    <3>1. CASE HookFails(g)
      BY <1>hook, <3>st, <3>1 DEF Plain
    <3> DEFINE status == IF outcome[g] = "ok" THEN "Success" ELSE "Failed"
    <3>2. CASE \E sched \in BOOLEAN :
                 /\ out' = [out EXCEPT ![g] = Message(g, status, sched)]
                 /\ \/ rpc' = [rpc EXCEPT ![g] = "return"]
                    \/ status = "Failed" /\ ~sched /\ rpc' = [rpc EXCEPT ![g] = "exec"]
      <4>1. PICK sched \in BOOLEAN :
                 /\ out' = [out EXCEPT ![g] = Message(g, status, sched)]
                 /\ \/ rpc' = [rpc EXCEPT ![g] = "return"]
                    \/ status = "Failed" /\ ~sched /\ rpc' = [rpc EXCEPT ![g] = "exec"]
        BY <3>2
      <4>2. out'[g] # NoMsg /\ out'[g].status = status /\ out'[g].schedule = sched
        BY <1>1, <1>5, <4>1
      <4>3. MayFollow(sent'[g], out'[g])
        BY <3>st, <4>2 DEF Plain, MayFollow
      <4> QED
        BY <1>1, <4>1, <4>2, <4>3 DEF Stage, Issued, Plain
    <3> QED
      <4>1. LastTry(g) \in BOOLEAN /\ Ready(g) \in BOOLEAN
        BY DEF LastTry, Ready
      <4>2. CASE outcome[g] = "ok" /\ ~HookFails(g)
        BY <1>19, <3>2, <4>1, <4>2 DEF PostHooks
      <4>3. CASE outcome[g] # "ok" /\ ~HookFails(g)
        BY <1>19, <3>2, <4>1, <4>3 DEF PostHooks
      <4> QED
        BY <3>1, <4>2, <4>3
  <2>2. ASSUME NEW h \in Runs, h # g PROVE Same(h)
    BY <1>1, <1>19, <2>2 DEF PostHooks, HookFails, At, runnerVars
  <2> QED
    BY <2>1, <2>2, <1>4 DEF OrderInv
<1>20. ASSUME NEW g \in Runs, Return(g) PROVE OrderInv'
  <2>1. Good(g)'
    BY <1>1, <1>2, <1>3, <1>20 DEF Return, At, Stage, Issued, Plain, MayFollow, QuietRunner, loopVars, runnerVars
  <2>2. ASSUME NEW h \in Runs, h # g PROVE Same(h)
    BY <1>1, <1>20, <2>2 DEF Return, At, runnerVars
  <2> QED
    BY <2>1, <2>2, <1>4 DEF OrderInv
<1>21. ASSUME UNCHANGED <<rpc, out, sent>> PROVE OrderInv'
  BY <1>4, <1>21 DEF OrderInv
<1>22. ASSUME NEW g \in Runs,
             \/ Begin(g) \/ WaitCtrl(g) \/ IdleCtrl(g) \/ ProviderStart(g)
             \/ ProviderEnd(g) \/ Launch(g)
      PROVE  UNCHANGED <<rpc, out, sent>>
  BY <1>22 DEF Begin, WaitCtrl, IdleCtrl, ProviderStart, ProviderEnd, Launch, GoRun, runnerVars
<1>23. ASSUME Release \/ ReceiveMsg \/ Crashed PROVE UNCHANGED <<rpc, out, sent>>
  BY <1>23 DEF Release, ReceiveMsg, Crashed, mjVars, runnerVars
<1>24. ASSUME NEW j \in Jobs, NEW c \in EnvCtrl, SendCtrl(j, c)
      PROVE  UNCHANGED <<rpc, out, sent>>
  BY <1>24 DEF SendCtrl, runnerVars
<1> QED
  BY <1>6, <1>7, <1>8, <1>9, <1>10, <1>11, <1>12, <1>13, <1>14, <1>15, <1>16, <1>17, <1>18, <1>19, <1>20, <1>21, <1>22, <1>23, <1>24
  DEF MJNext, LoopStep, RunnerStep, ProviderStep, Environment

\* The reports of a run come in the order of the "Job Run Process" diagram:
\* PreSyncing first, a result only after Syncing, nothing after a report that
\* asks for scheduling (runJobWrapper, job.go).
THEOREM ReportsInOrder == MJSpec => ReportOrder
<1>1. MJInv /\ OrderInv /\ [MJNext]_mjVars => OrderInv'
  <2>1. ASSUME OrderInv, UNCHANGED mjVars PROVE OrderInv'
    BY <2>1 DEF OrderInv, Stage, Issued, mjVars, runnerVars
  <2> QED
    BY <2>1, OrderStep
<1>2. ASSUME MJInv, OrderInv, [MJNext]_mjVars
      PROVE  [\A g \in Runs : sent'[g] \notin {sent[g], NoMsg} =>
                                  MayFollow(sent[g], sent'[g])]_mjVars
  <2> SUFFICES ASSUME MJNext, NEW g \in Runs, sent'[g] \notin {sent[g], NoMsg}
               PROVE  MayFollow(sent[g], sent'[g])
    BY <1>2
  <2>1. sent \in [Runs -> jobMessage \cup {NoMsg}]
    BY <1>2 DEF MJInv, MJTypeOK
  <2>2. ASSUME NEW h \in Runs, LoopStep(h) PROVE FALSE
    BY <2>1, <2>2 DEF LoopStep, Begin, LoopTop, JobDone, WaitCtrl, Reap, IdleCtrl,
                      RunnerGone, runnerVars
  <2>3. ASSUME NEW h \in Runs, ProviderStep(h) PROVE FALSE
    BY <2>3 DEF ProviderStep, ProviderStart, ProviderEnd, Timeout
  <2>4. ASSUME NEW h \in Runs, RunnerStep(h), ~Send(h) PROVE FALSE
    BY <2>4 DEF RunnerStep, Acquire, BypassSemaphore, KilledWaiting, PreJobHooks,
                PreExecHooks, AwaitStarted, AwaitSync, Terminate, PostHooks, Return
  <2>5. ~(Release \/ Environment \/ Crashed)
    BY DEF Release, Environment, Launch, GoRun, SendCtrl, ReceiveMsg, Crashed, mjVars, runnerVars
  <2>6. PICK h \in Runs : Send(h)
    BY <2>2, <2>3, <2>4, <2>5 DEF MJNext
  <2>7. h = g /\ out[g] # NoMsg /\ sent'[g] = out[g]
    BY <2>1, <2>6 DEF Send
  <2> QED
    BY <1>2, <2>7 DEF OrderInv
<1> QED
  BY <1>1, <1>2, OrderInit, Invariance, PTL DEF MJSpec, ReportOrder

-----------------------------------------------------------------------------
(***************************************************************************)
(* A run that ends by itself asks for the next one.                        *)
(***************************************************************************)
AsksAgain(g) == Issued(g) # NoMsg /\ Issued(g).schedule

\* While a Run waits for its runner the job is ready and the runner has not
\* been killed, so the last report of a runner on its way out asks for
\* scheduling; a Run without a runner has no outcome left over.
RescheduleInv ==
    \A g \in Runs :
        /\ pc[g] \in {"off", "launched", "loop", "idle"} => outcome[g] = "none"
        /\ pc[g] = "wait" => /\ state[Job(g)] = "ready"
                             /\ outcome[g] # "killed"
                             /\ (rpc[g] \in {"return", "done"} /\ outcome[g] # "termErr")
                                    => AsksAgain(g)

LEMMA RescheduleInit == MJInit => RescheduleInv
BY DEF MJInit, QuietInit, RescheduleInv

LEMMA RescheduleStep ==
    ASSUME SoleRuns, MJInv, RescheduleInv, MJNext
    PROVE  RescheduleInv'
<1> DEFINE
      Good(h) ==
        /\ pc[h] \in {"off", "launched", "loop", "idle"} => outcome[h] = "none"
        /\ pc[h] = "wait" => /\ state[Job(h)] = "ready"
                             /\ outcome[h] # "killed"
                             /\ (rpc[h] \in {"return", "done"} /\ outcome[h] # "termErr")
                                    => AsksAgain(h)
      Same(h) == UNCHANGED <<pc[h], outcome[h], rpc[h], out[h], sent[h], state[Job(h)]>>
<1>1. /\ rpc \in [Runs -> RunnerPC] /\ pc \in [Runs -> LoopPC]
      /\ outcome \in [Runs -> Outcome] /\ state \in [Jobs -> JobState]
      /\ out \in [Runs -> jobMessage \cup {NoMsg}]
      /\ sent \in [Runs -> jobMessage \cup {NoMsg}]
      /\ ctrlChan \in [Jobs -> CtrlAction \cup {NoCtrl}]
  BY DEF MJInv, MJTypeOK
<1>2. QuietRunner /\ Joined
  BY DEF MJInv
<1>3. ASSUME NEW g \in Runs PROVE Good(g)
  BY DEF RescheduleInv
<1>4. ASSUME NEW h \in Runs, Same(h) PROVE Good(h)'
  BY <1>3, <1>4 DEF AsksAgain, Issued
<1>5. ASSUME NEW g \in Runs, NEW h \in Runs, g # h PROVE Job(g) # Job(h)
  BY <1>5 DEF SoleRuns, Job
<1>6. \A g \in Runs : Job(g) \in Jobs
  BY RunsAssumption DEF Job
<1>7. ASSUME NEW g \in Runs, NEW sched \in BOOLEAN,
             NEW status \in {"PreSyncing", "Syncing", "Success", "Failed"}
      PROVE  /\ Message(g, status, sched) # NoMsg
             /\ Message(g, status, sched).schedule = sched
  BY MessageType, NullAssumption DEF Message
<1>8. ASSUME NEW g \in Runs, Begin(g) PROVE RescheduleInv'
  <2>1. Good(g)'
    BY <1>1, <1>2, <1>3, <1>6, <1>8 DEF Begin, QuietRunner, Joined, AsksAgain, Issued, jobVars, loopVars, runnerVars, chanVars
  <2>2. ASSUME NEW h \in Runs, h # g PROVE Same(h)
    BY <1>1, <1>5, <1>6, <1>8, <2>2 DEF Begin, jobVars, loopVars, runnerVars, chanVars
  <2> QED
    BY <2>1, <2>2, <1>4 DEF RescheduleInv
<1>9. ASSUME NEW g \in Runs, LoopTop(g) PROVE RescheduleInv'
  <2>1. Good(g)'
    BY <1>1, <1>2, <1>3, <1>6, <1>9 DEF LoopTop, QuietRunner, Joined, AsksAgain, Issued, jobVars, loopVars, runnerVars, chanVars
  <2>2. ASSUME NEW h \in Runs, h # g PROVE Same(h)
    BY <1>1, <1>5, <1>6, <1>9, <2>2 DEF LoopTop, jobVars, loopVars, runnerVars, chanVars
  <2> QED
    BY <2>1, <2>2, <1>4 DEF RescheduleInv
<1>10. ASSUME NEW g \in Runs, JobDone(g) PROVE RescheduleInv'
  <2>1. Good(g)'
    BY <1>1, <1>2, <1>3, <1>6, <1>10 DEF JobDone, RunnerGone, QuietRunner, Joined, AsksAgain, Issued, jobVars, loopVars, runnerVars, chanVars
  <2>2. ASSUME NEW h \in Runs, h # g PROVE Same(h)
    BY <1>1, <1>5, <1>6, <1>10, <2>2 DEF JobDone, RunnerGone, jobVars, loopVars, runnerVars, chanVars
  <2> QED
    BY <2>1, <2>2, <1>4 DEF RescheduleInv
<1>11. ASSUME NEW g \in Runs, WaitCtrl(g) PROVE RescheduleInv'
  <2>1. Good(g)'
    <3>1. ctrlChan[Job(g)] \in CtrlAction
      BY <1>1, <1>6, <1>11 DEF WaitCtrl
    <3>2. WaitNext[ctrlChan[Job(g)]] \in {"wait", "stopping", "leaving", "restarting"}
          /\ (WaitNext[ctrlChan[Job(g)]] = "wait" => WaitState[ctrlChan[Job(g)]] = "ready")
      BY <3>1 DEF WaitNext, WaitState, CtrlAction
    <3>3. /\ pc'[g] = WaitNext[ctrlChan[Job(g)]] /\ pc[g] = "wait"
          /\ state'[Job(g)] = WaitState[ctrlChan[Job(g)]]
          /\ UNCHANGED <<outcome, rpc, out, sent>>
      BY <1>1, <1>6, <1>11 DEF WaitCtrl, runnerVars
    <3> QED
      BY <1>3, <3>2, <3>3 DEF AsksAgain, Issued
  <2>2. ASSUME NEW h \in Runs, h # g PROVE Same(h)
    BY <1>1, <1>5, <1>6, <1>11, <2>2 DEF WaitCtrl, jobVars, loopVars, runnerVars, chanVars
  <2> QED
    BY <2>1, <2>2, <1>4 DEF RescheduleInv
<1>12. ASSUME NEW g \in Runs, Reap(g) PROVE RescheduleInv'
  <2>1. Good(g)'
    BY <1>1, <1>12 DEF Reap, RunnerGone, Continue, Exit
  <2>2. ASSUME NEW h \in Runs, h # g PROVE Same(h)
    BY <1>1, <1>5, <1>6, <1>12, <2>2 DEF Reap, RunnerGone, Continue, Exit, jobVars, loopVars, runnerVars, chanVars
  <2> QED
    BY <2>1, <2>2, <1>4 DEF RescheduleInv
<1>13. ASSUME NEW g \in Runs, IdleCtrl(g) PROVE RescheduleInv'
  <2>1. Good(g)'
    BY <1>1, <1>3, <1>13 DEF IdleCtrl, Continue, Exit, runnerVars
  <2>2. ASSUME NEW h \in Runs, h # g PROVE Same(h)
    BY <1>1, <1>5, <1>6, <1>13, <2>2 DEF IdleCtrl, Continue, Exit, jobVars, loopVars, runnerVars, chanVars
  <2> QED
    BY <2>1, <2>2, <1>4 DEF RescheduleInv
<1>14. ASSUME NEW g \in Runs, Acquire(g) PROVE RescheduleInv'
  <2>1. Good(g)'
    BY <1>1, <1>2, <1>3, <1>6, <1>14 DEF Acquire, QuietRunner, Joined, AsksAgain, Issued, jobVars, loopVars, runnerVars, chanVars
  <2>2. ASSUME NEW h \in Runs, h # g PROVE Same(h)
    BY <1>1, <1>5, <1>6, <1>14, <2>2 DEF Acquire, jobVars, loopVars, runnerVars, chanVars
  <2> QED
    BY <2>1, <2>2, <1>4 DEF RescheduleInv
<1>15. ASSUME NEW g \in Runs, BypassSemaphore(g) PROVE RescheduleInv'
  <2>1. Good(g)'
    BY <1>1, <1>2, <1>3, <1>6, <1>15 DEF BypassSemaphore, QuietRunner, Joined, AsksAgain, Issued, jobVars, loopVars, runnerVars, chanVars
  <2>2. ASSUME NEW h \in Runs, h # g PROVE Same(h)
    BY <1>1, <1>5, <1>6, <1>15, <2>2 DEF BypassSemaphore, jobVars, loopVars, runnerVars, chanVars
  <2> QED
    BY <2>1, <2>2, <1>4 DEF RescheduleInv
<1>16. ASSUME NEW g \in Runs, KilledWaiting(g) PROVE RescheduleInv'
  <2>1. Good(g)'
    BY <1>1, <1>2, <1>3, <1>6, <1>16 DEF KilledWaiting, Killed, QuietRunner, Joined, AsksAgain, Issued, jobVars, loopVars, runnerVars, chanVars
  <2>2. ASSUME NEW h \in Runs, h # g PROVE Same(h)
    BY <1>1, <1>5, <1>6, <1>16, <2>2 DEF KilledWaiting, Killed, jobVars, loopVars, runnerVars, chanVars
  <2> QED
    BY <2>1, <2>2, <1>4 DEF RescheduleInv
<1>17. ASSUME NEW g \in Runs, Send(g) PROVE RescheduleInv'
  <2>1. Good(g)'
    BY <1>1, <1>2, <1>3, <1>6, <1>17 DEF Send, QuietRunner, Joined, AsksAgain, Issued, jobVars, loopVars, runnerVars, chanVars
  <2>2. ASSUME NEW h \in Runs, h # g PROVE Same(h)
    BY <1>1, <1>5, <1>6, <1>17, <2>2 DEF Send, jobVars, loopVars, runnerVars, chanVars
  <2> QED
    BY <2>1, <2>2, <1>4 DEF RescheduleInv
<1>18. ASSUME NEW g \in Runs, PreJobHooks(g) PROVE RescheduleInv'
  <2>1. Good(g)'
    <3>1. pc[g] = "wait" => outcome[g] # "killed" /\ state[Job(g)] = "ready"
      BY <1>3
    <3>2. CASE HookFails(g)
      BY <1>1, <1>2, <1>3, <1>7, <1>18, <3>2 DEF PreJobHooks, At, HookFails, Joined, AsksAgain, Issued, jobVars, loopVars
    <3>3. CASE rpc' = [rpc EXCEPT ![g] = "exec"]
      BY <1>1, <1>2, <1>3, <1>18, <3>3 DEF PreJobHooks, At, Joined, jobVars, loopVars
    <3> QED
      BY <1>18, <3>2, <3>3 DEF PreJobHooks
  <2>2. ASSUME NEW h \in Runs, h # g PROVE Same(h)
    BY <1>1, <1>5, <1>6, <1>18, <2>2 DEF PreJobHooks, HookFails, jobVars, loopVars, runnerVars, chanVars
  <2> QED
    BY <2>1, <2>2, <1>4 DEF RescheduleInv
<1>19. ASSUME NEW g \in Runs, PreExecHooks(g) PROVE RescheduleInv'
  <2>1. Good(g)'
    <3>1. CASE HookFails(g)
      BY <1>1, <1>2, <1>3, <1>7, <1>19, <3>1 DEF PreExecHooks, At, HookFails, Joined, AsksAgain, Issued, jobVars, loopVars
    <3>2. CASE rpc' = [rpc EXCEPT ![g] = "start"]
      BY <1>1, <1>2, <1>3, <1>19, <3>2 DEF PreExecHooks, At, Joined, jobVars, loopVars
    <3> QED
      BY <1>19, <3>1, <3>2 DEF PreExecHooks
  <2>2. ASSUME NEW h \in Runs, h # g PROVE Same(h)
    BY <1>1, <1>5, <1>6, <1>19, <2>2 DEF PreExecHooks, HookFails, jobVars, loopVars, runnerVars, chanVars
  <2> QED
    BY <2>1, <2>2, <1>4 DEF RescheduleInv
<1>20. ASSUME NEW g \in Runs, AwaitStarted(g) PROVE RescheduleInv'
  <2>1. Good(g)'
    BY <1>1, <1>2, <1>3, <1>6, <1>20 DEF AwaitStarted, At, QuietRunner, Joined, AsksAgain, Issued, jobVars, loopVars, runnerVars, chanVars
  <2>2. ASSUME NEW h \in Runs, h # g PROVE Same(h)
    BY <1>1, <1>5, <1>6, <1>20, <2>2 DEF AwaitStarted, At, jobVars, loopVars, runnerVars, chanVars
  <2> QED
    BY <2>1, <2>2, <1>4 DEF RescheduleInv
<1>21. ASSUME NEW g \in Runs, AwaitSync(g) PROVE RescheduleInv'
  <2>1. Good(g)'
    BY <1>1, <1>2, <1>3, <1>21 DEF AwaitSync, At, Killed, Joined, jobVars, loopVars
  <2>2. ASSUME NEW h \in Runs, h # g PROVE Same(h)
    BY <1>1, <1>5, <1>6, <1>21, <2>2 DEF AwaitSync, jobVars, loopVars, runnerVars, chanVars
  <2> QED
    BY <2>1, <2>2, <1>4 DEF RescheduleInv
<1>22. ASSUME NEW g \in Runs, Timeout(g) PROVE RescheduleInv'
  <2>1. Good(g)'
    BY <1>1, <1>2, <1>3, <1>6, <1>22 DEF Timeout, At, QuietRunner, Joined, AsksAgain, Issued, jobVars, loopVars, runnerVars, chanVars
  <2>2. ASSUME NEW h \in Runs, h # g PROVE Same(h)
    BY <1>1, <1>5, <1>6, <1>22, <2>2 DEF Timeout, At, jobVars, loopVars, runnerVars, chanVars
  <2> QED
    BY <2>1, <2>2, <1>4 DEF RescheduleInv
<1>23. ASSUME NEW g \in Runs, Terminate(g) PROVE RescheduleInv'
  <2>1. Good(g)'
    BY <1>1, <1>2, <1>3, <1>6, <1>23 DEF Terminate, At, QuietRunner, Joined, AsksAgain, Issued, jobVars, loopVars, runnerVars, chanVars
  <2>2. ASSUME NEW h \in Runs, h # g PROVE Same(h)
    BY <1>1, <1>5, <1>6, <1>23, <2>2 DEF Terminate, At, jobVars, loopVars, runnerVars, chanVars
  <2> QED
    BY <2>1, <2>2, <1>4 DEF RescheduleInv
<1>24. ASSUME NEW g \in Runs, PostHooks(g) PROVE RescheduleInv'
  <2>1. Good(g)'
    <3>1. /\ rpc[g] = "post" /\ out[g] = NoMsg
          /\ UNCHANGED <<pc, outcome, state, sent>>
      BY <1>24 DEF PostHooks, At, jobVars, loopVars
    <3>2. pc[g] \notin {"off", "launched", "loop", "idle"}
      BY <1>2, <3>1 DEF Joined
    <3>3. CASE \E status \in {"Success", "Failed"}, sched \in BOOLEAN :
                  /\ out' = [out EXCEPT ![g] = Message(g, status, sched)]
                  /\ rpc' = [rpc EXCEPT ![g] = "return"]
                  /\ pc[g] = "wait" => sched
      BY <1>1, <1>3, <1>7, <3>1, <3>2, <3>3 DEF AsksAgain, Issued
    <3>4. CASE rpc' = [rpc EXCEPT ![g] = "exec"]
      BY <1>1, <1>3, <3>1, <3>2, <3>4
    <3>5. CASE HookFails(g)
      BY <3>3, <3>5 DEF HookFails
    <3>6. CASE ~HookFails(g) /\ outcome[g] = "ok"
      <4>1. /\ out' = [out EXCEPT ![g] = Message(g, "Success", Ready(g))]
            /\ rpc' = [rpc EXCEPT ![g] = "return"]
        BY <1>24, <3>6 DEF PostHooks
      <4>2. Ready(g) \in BOOLEAN /\ (pc[g] = "wait" => Ready(g))
        BY <1>3 DEF Ready
      <4> QED
        BY <3>3, <4>1, <4>2
    <3>7. CASE ~HookFails(g) /\ outcome[g] # "ok" /\ rpc' # [rpc EXCEPT ![g] = "exec"]
      <4>1. /\ out' = [out EXCEPT ![g] = Message(g, "Failed", LastTry(g) /\ Ready(g))]
            /\ rpc' = [rpc EXCEPT ![g] = "return"]
            /\ outcome[g] = "killed" \/ LastTry(g)
        BY <1>24, <3>7 DEF PostHooks
      <4>2. pc[g] = "wait" => LastTry(g) /\ Ready(g)
        BY <1>3, <4>1 DEF Ready
      <4> QED
        BY <3>3, <4>1, <4>2
    <3> QED
      BY <3>4, <3>5, <3>6, <3>7
  <2>2. ASSUME NEW h \in Runs, h # g PROVE Same(h)
    BY <1>1, <1>5, <1>6, <1>24, <2>2 DEF PostHooks, HookFails, jobVars, loopVars, runnerVars, chanVars
  <2> QED
    BY <2>1, <2>2, <1>4 DEF RescheduleInv
<1>25. ASSUME NEW g \in Runs, Return(g) PROVE RescheduleInv'
  <2>1. Good(g)'
    BY <1>1, <1>2, <1>3, <1>6, <1>25 DEF Return, At, QuietRunner, Joined, AsksAgain, Issued, jobVars, loopVars, runnerVars, chanVars
  <2>2. ASSUME NEW h \in Runs, h # g PROVE Same(h)
    BY <1>1, <1>5, <1>6, <1>25, <2>2 DEF Return, At, jobVars, loopVars, runnerVars, chanVars
  <2> QED
    BY <2>1, <2>2, <1>4 DEF RescheduleInv
<1>26. ASSUME NEW g \in Runs, ProviderStart(g) PROVE RescheduleInv'
  <2>1. Good(g)'
    BY <1>1, <1>2, <1>3, <1>6, <1>26 DEF ProviderStart, QuietRunner, Joined, AsksAgain, Issued, jobVars, loopVars, runnerVars, chanVars
  <2>2. ASSUME NEW h \in Runs, h # g PROVE Same(h)
    BY <1>1, <1>5, <1>6, <1>26, <2>2 DEF ProviderStart, jobVars, loopVars, runnerVars, chanVars
  <2> QED
    BY <2>1, <2>2, <1>4 DEF RescheduleInv
<1>27. ASSUME NEW g \in Runs, ProviderEnd(g) PROVE RescheduleInv'
  <2>1. Good(g)'
    BY <1>1, <1>2, <1>3, <1>6, <1>27 DEF ProviderEnd, QuietRunner, Joined, AsksAgain, Issued, jobVars, loopVars, runnerVars, chanVars
  <2>2. ASSUME NEW h \in Runs, h # g PROVE Same(h)
    BY <1>1, <1>5, <1>6, <1>27, <2>2 DEF ProviderEnd, jobVars, loopVars, runnerVars, chanVars
  <2> QED
    BY <2>1, <2>2, <1>4 DEF RescheduleInv
<1>28. ASSUME NEW g \in Runs, Launch(g) PROVE RescheduleInv'
  <2>1. Good(g)'
    BY <1>1, <1>2, <1>3, <1>6, <1>28 DEF Launch, GoRun, QuietRunner, Joined, AsksAgain, Issued, jobVars, loopVars, runnerVars, chanVars
  <2>2. ASSUME NEW h \in Runs, h # g PROVE Same(h)
    BY <1>1, <1>5, <1>6, <1>28, <2>2 DEF Launch, GoRun, jobVars, loopVars, runnerVars, chanVars
  <2> QED
    BY <2>1, <2>2, <1>4 DEF RescheduleInv
<1>29. ASSUME UNCHANGED <<pc, outcome, rpc, out, sent, state>> PROVE RescheduleInv'
  BY <1>4, <1>29 DEF RescheduleInv
<1>30. ASSUME Release \/ ReceiveMsg \/ Crashed
      PROVE  UNCHANGED <<pc, outcome, rpc, out, sent, state>>
  BY <1>30 DEF Release, ReceiveMsg, Crashed, mjVars, jobVars, loopVars, runnerVars, chanVars
<1>31. ASSUME NEW j \in Jobs, NEW c \in EnvCtrl, SendCtrl(j, c)
      PROVE  UNCHANGED <<pc, outcome, rpc, out, sent, state>>
  BY <1>31 DEF SendCtrl, jobVars, loopVars, runnerVars, chanVars
<1> QED
  BY <1>8, <1>9, <1>10, <1>11, <1>12, <1>13, <1>14, <1>15, <1>16, <1>17, <1>18, <1>19, <1>20, <1>21, <1>22, <1>23, <1>24, <1>25, <1>26, <1>27, <1>28, <1>29, <1>30, <1>31
  DEF MJNext, LoopStep, RunnerStep, ProviderStep, Environment

\* Where every job has one Run, a run that ended without being killed and
\* without an error of Terminate has asked the scheduler for the next run, for
\* every number of retries (runJobWrapper, job.go).
THEOREM RunsAskAgain == MJSpec => []RunReschedules
<1>1. (SoleRuns => RescheduleInv) /\ MJInv /\ [MJNext]_mjVars => (SoleRuns => RescheduleInv)'
  <2>1. ASSUME RescheduleInv, UNCHANGED mjVars PROVE RescheduleInv'
    BY <2>1 DEF RescheduleInv, AsksAgain, Issued, mjVars, jobVars, loopVars, runnerVars, chanVars
  <2>2. SoleRuns' <=> SoleRuns
    BY DEF SoleRuns
  <2> QED
    BY <2>1, <2>2, RescheduleStep
<1>2. MJInv /\ (SoleRuns => RescheduleInv) => RunReschedules
  BY DEF MJInv, QuietRunner, RescheduleInv, RunReschedules, AsksAgain, Issued
<1>3. MJInit => (SoleRuns => RescheduleInv)
  BY RescheduleInit
<1> QED
  BY <1>1, <1>2, <1>3, Invariance, PTL DEF MJSpec

-----------------------------------------------------------------------------
(***************************************************************************)
(* Part 2: module Worker.                                                  *)
(***************************************************************************)


\* The goroutine of Run g exists.
Live(g) == pc[g] # "off"

\* Every variable has its type ("report" is a place of module System).
WTypeOK ==
    /\ L \in {"free", "http", "sched", "main"}
    /\ schedule \subseteq Jobs
    /\ hpc \in {"idle", "branch", "send", "eval", "await"}
    /\ hcmd \in CmdVerb \cup {"none"}
    /\ hjob \in Jobs \cup {NoJob}
    /\ hchan \in Runs \cup {NoChan}
    /\ spc \in {"select", "lookup", "check", "update", "push", "lock", "flush", "done",
                "report"}
    /\ smsg \in jobMessage \cup {NoMsg}
    /\ sjob \in Jobs \cup {NoJob}
    /\ mpc \in {"idle", "range", "send", "done"}
    /\ hleft \subseteq Jobs
    /\ hcur \in Jobs \cup {NoJob}
    /\ exit \in BOOLEAN

\* Who holds w.L, and what the three goroutines know where they are.
LockInv ==
    /\ hpc = "idle" => hcmd = "none"
    /\ hpc # "idle" => L = "http" /\ mpc = "idle" /\ hjob \in Jobs /\ hcmd # "none"
    /\ hpc \in {"eval", "await"} => hcmd = "disable"
    /\ hpc = "send" => hcmd # "ping"
    /\ mpc \in {"range", "send"} => L = "main"
    /\ mpc = "send" => hcur \in Jobs
    /\ mpc # "send" => hcur = NoJob
    /\ mpc = "done" => hleft = {}
    /\ spc = "flush" => L = "sched"
    /\ spc = "push" => sjob \in Jobs
    /\ spc \in {"lookup", "check", "update"} => smsg \in jobMessage
    /\ spc \in {"lock", "flush", "done"} => exit
    /\ exit => mpc = "done"

\* A job has one Run at a time.
Sole == \A g, h \in Runs : Live(g) /\ Live(h) /\ Job(g) = Job(h) => g = h

\* A Run that has begun owns the channel in m.disabled, and it is open.
OwnChan ==
    \A g \in Runs : pc[g] \notin {"off", "launched"} =>
                        disabled[Job(g)] = g /\ g \notin closed

\* The state of the job at the places of its control loop.
StateOf(g, s) ==
    /\ pc[g] = "launched" => s \in {"none", "paused", "disabled"}
    /\ pc[g] \in {"wait", "restarting"} => s = "ready"
    /\ pc[g] = "stopping" => s = "paused"
    /\ pc[g] = "leaving" => s \in {"disabled", "halting"}

StateInv == \A g \in Runs : StateOf(g, state[Job(g)])

\* A Run of a disabled job was launched by a handler whose starting message is
\* in ctrlChan or about to be sent.
Reviving(g) ==
    /\ pc[g] \in {"launched", "loop", "idle"} /\ mpc = "idle"
    /\ \/ ctrlChan[Job(g)] \in {"jobStart", "jobForceStart", "jobRestart"}
       \/ hpc = "send" /\ hjob = Job(g) /\ hcmd \in Starting

\* Otherwise it is leaving, and the handler of the disable waits for that.
DisabledInv ==
    \A g \in Runs : Live(g) /\ state[Job(g)] = "disabled" =>
        \/ pc[g] = "leaving" /\ hpc \in {"eval", "await"} /\ hjob = Job(g)
        \/ Reviving(g)

\* jobDisable is in ctrlChan only while its handler waits, jobHalt only when
\* Halt has been called.
PendingInv ==
    \A j \in Jobs :
        /\ ctrlChan[j] = "jobDisable" =>
               hpc \in {"eval", "await"} /\ hjob = j /\ state[j] # "disabled"
        /\ ctrlChan[j] = "jobHalt" => mpc # "idle"

\* Until Halt is called, a job that is not disabled has a Run.
HasRun ==
    \A j \in Jobs : mpc = "idle" =>
        /\ state[j] # "disabled" => \E g \in Runs : Job(g) = j /\ Live(g)
        /\ state[j] # "halting"

\* What the handler may rely on in its job.
HandlerInv ==
    /\ hcmd = "disable" => \A g \in Runs : Job(g) = hjob => pc[g] # "launched"
    /\ hpc \in {"eval", "await"} =>
           \A g \in Runs : Job(g) = hjob /\ Live(g) =>
               ctrlChan[hjob] = "jobDisable" \/ pc[g] = "leaving"
    /\ hpc = "await" => hchan = disabled[hjob]
    /\ hpc = "branch" /\ state[hjob] = "disabled" =>
           \A g \in Runs : Job(g) = hjob => ~Live(g)
    /\ hpc = "send" /\ hcmd \in {"stop", "disable"} => state[hjob] # "disabled"

\* A job that Halt has dealt with has jobHalt to take, or has taken it; once
\* Halt is done, only Runs that had not begun are left, and they have nothing
\* to do but to take jobHalt.
HaltInv ==
    /\ \A g \in Runs :
          mpc # "idle" /\ Live(g) /\ Job(g) \notin hleft /\ Job(g) # hcur =>
              ctrlChan[Job(g)] = "jobHalt" \/ pc[g] = "leaving"
    /\ \A g \in Runs : mpc = "done" /\ Live(g) =>
           /\ pc[g] \in {"launched", "loop", "idle"}
           /\ state[Job(g)] \in {"none", "paused"}
           /\ ctrlChan[Job(g)] = "jobHalt"

ControlInv ==
    /\ LockInv /\ Sole /\ OwnChan /\ StateInv /\ DisabledInv /\ PendingInv
    /\ HasRun /\ HandlerInv /\ HaltInv

WInv == MJInv /\ WTypeOK /\ ControlInv

-----------------------------------------------------------------------------
(***************************************************************************)
(* The jobs of a worker keep the invariant of module MirrorJob.            *)
(***************************************************************************)

LEMMA CtrlTypes == \A cmd \in CmdVerb \ {"ping"} : Ctrl[cmd] \in CtrlAction
BY DEF Ctrl, CmdVerb, CtrlAction

LEMMA SendInv ==
    ASSUME MJInv, NEW j \in Jobs, NEW c \in CtrlAction, SendCtrl(j, c)
    PROVE  MJInv'
<1>1. ctrlChan' \in [Jobs -> CtrlAction \cup {NoCtrl}]
  BY DEF SendCtrl, MJInv, MJTypeOK
<1>2. MJTypeOK'
  BY <1>1 DEF SendCtrl, MJInv, MJTypeOK, loopVars, runnerVars, chanVars
<1> QED
  BY <1>2 DEF SendCtrl, MJInv, TokenCount, Holders, QuietRunner, Joined,
              loopVars, runnerVars, chanVars

\* The worker has just booted: WInit, whatever is scheduled and was commanded.
Booted ==
    /\ QuietInit
    /\ state \in [Jobs -> {"none", "paused", "disabled"}]
    /\ disabled = [j \in Jobs |-> NoChan]
    /\ pc \in [Runs -> {"off", "launched"}]
    /\ \A j \in Jobs :
          Cardinality({g \in Runs : Job(g) = j /\ pc[g] = "launched"})
              = (IF state[j] = "disabled" THEN 0 ELSE 1)
    /\ L = "free" /\ schedule \subseteq Jobs
    /\ hpc = "idle" /\ hcmd = "none" /\ hjob = NoJob /\ hchan = NoChan
    /\ spc \in {"select", "report"} /\ smsg = NoMsg /\ sjob = NoJob
    /\ mpc = "idle" /\ hleft = {} /\ hcur = NoJob /\ exit = FALSE

LEMMA InitBooted == WInit => Booted
BY DEF WInit, Booted

LEMMA JobsInit == Booted => MJInv
<1> SUFFICES ASSUME Booted PROVE MJInv
  OBVIOUS
<1> USE RunsAssumption, BoundAssumption, NullAssumption DEF Booted, QuietInit
<1>1. MJTypeOK
  <2>1. retry \in [Runs -> 0..(Retry - 1)] /\ semaphore \in 0..Concurrent
    OBVIOUS
  <2>2. managerChan \in Seq(jobMessage) /\ Len(managerChan) <= MsgCap
    OBVIOUS
  <2>3. bypass \in [Runs -> BOOLEAN] /\ holds \in [Runs -> BOOLEAN] /\ panicked \in BOOLEAN
    OBVIOUS
  <2>4. state \in [Jobs -> JobState] /\ pc \in [Runs -> LoopPC]
    BY DEF JobState, LoopPC
  <2>5. /\ rpc \in [Runs -> RunnerPC] /\ outcome \in [Runs -> Outcome]
        /\ prov \in [Runs -> ProvState]
    BY DEF RunnerPC, Outcome, ProvState
  <2> QED
    BY <2>1, <2>2, <2>3, <2>4, <2>5 DEF MJTypeOK
<1>2. Holders = {}
  BY DEF Holders
<1>3. TokenCount
  BY <1>2, FS_EmptySet DEF TokenCount
<1>4. QuietRunner /\ Joined
  BY DEF QuietRunner, Joined
<1> QED
  BY <1>1, <1>3, <1>4 DEF MJInv

LEMMA JobsStep ==
    ASSUME MJInv, WTypeOK, LockInv, WNext
    PROVE  MJInv'
<1>1. ASSUME UNCHANGED mjVars PROVE MJInv'
  BY <1>1, InvStep
<1>2. ASSUME ~panicked, JobStep PROVE MJInv'
  <2>1. MJNext
    BY <1>2 DEF MJNext, JobStep
  <2> QED
    BY <2>1, InvStep
<1>3. ASSUME ~panicked, ReceiveMsg PROVE MJInv'
  <2>1. MJNext
    BY <1>3 DEF MJNext, Environment
  <2> QED
    BY <2>1, InvStep
<1>4. ASSUME ~panicked, HTTPBranch PROVE MJInv'
  <2>1. CASE UNCHANGED pc
    BY <1>1, <1>4, <2>1 DEF HTTPBranch, mjVars, loopVars
  <2>2. ASSUME NEW g \in Runs, Job(g) = hjob, GoRun(g), NeedsRun(hjob) PROVE MJInv'
    <3>1. Launch(g)
      BY <1>4, <2>2 DEF Launch, NeedsRun, HTTPBranch, jobVars
    <3>2. MJNext
      BY <1>4, <3>1 DEF MJNext, Environment
    <3> QED
      BY <3>2, InvStep
  <2> QED
    BY <1>4, <2>1, <2>2 DEF HTTPBranch
<1>5. ASSUME HTTPSend PROVE MJInv'
  <2>1. hjob \in Jobs /\ hcmd \in CmdVerb \ {"ping"}
    BY <1>5 DEF HTTPSend, LockInv, WTypeOK
  <2>2. Ctrl[hcmd] \in CtrlAction
    BY <2>1, CtrlTypes
  <2> QED
    BY <1>5, <2>1, <2>2, SendInv DEF HTTPSend
<1>6. ASSUME SchedPush PROVE MJInv'
  <2>1. sjob \in Jobs /\ "jobStart" \in CtrlAction
    BY <1>6 DEF SchedPush, LockInv, CtrlAction
  <2> QED
    BY <1>6, <2>1, SendInv DEF SchedPush
<1>7. ASSUME HaltSend PROVE MJInv'
  <2>1. hcur \in Jobs /\ "jobHalt" \in CtrlAction
    BY <1>7 DEF HaltSend, LockInv, CtrlAction
  <2> QED
    BY <1>7, <2>1, SendInv DEF HaltSend
<1>8. ASSUME NEW j \in Jobs, NEW cmd \in Cmds, Command(j, cmd) PROVE MJInv'
  BY <1>1, <1>8 DEF Command, HTTPCmd
<1>9. ASSUME HTTPEval \/ HTTPAwait PROVE MJInv'
  BY <1>1, <1>9 DEF HTTPEval, HTTPAwait
<1>10. ASSUME ~panicked, SchedStep PROVE MJInv'
  BY <1>1, <1>3, <1>6, <1>10 DEF SchedStep, SchedRecv, SchedLookup, SchedCheck,
     SchedUpdate, SchedExit, SchedLock, SchedFlush, SchedPop
<1>11. ASSUME Sigterm \/ HaltStep PROVE MJInv'
  BY <1>1, <1>7, <1>11 DEF Sigterm, HaltBegin, HaltStep, HaltWait, HaltPick
<1>12. ASSUME Rest PROVE MJInv'
  BY <1>1, <1>12 DEF Rest, wVars
<1> QED
  BY <1>2, <1>4, <1>5, <1>8, <1>9, <1>10, <1>11, <1>12
  DEF WNext, Alive, HTTPStep
-----------------------------------------------------------------------------
(***************************************************************************)
(* The control invariant.                                                  *)
(***************************************************************************)

\* The types of the variables that the control invariant reads.
ControlTypes ==
    /\ state \in [Jobs -> JobState]
    /\ ctrlChan \in [Jobs -> CtrlAction \cup {NoCtrl}]
    /\ disabled \in [Jobs -> Runs \cup {NoChan}]
    /\ pc \in [Runs -> LoopPC]

LEMMA HasControlTypes == MJInv => ControlTypes
BY DEF MJInv, MJTypeOK, ControlTypes

LEMMA ControlInit == Booted => WTypeOK /\ ControlInv
<1> SUFFICES ASSUME Booted PROVE WTypeOK /\ ControlInv
  OBVIOUS
<1>1. WTypeOK
  BY WorkerAssumption, NullAssumption DEF Booted, WTypeOK, CmdVerb
<1>2. LockInv
  BY DEF Booted, LockInv
<1>3. ASSUME NEW j \in Jobs, NEW g \in Runs, NEW h \in Runs,
             Live(g), Live(h), Job(g) = j, Job(h) = j
      PROVE  g = h /\ state[j] # "disabled"
  <2> DEFINE S == {r \in Runs : Job(r) = j /\ pc[r] = "launched"}
  <2>1. IsFiniteSet(S)
    BY FS_Subset, RunsAssumption
  <2>2. g \in S /\ h \in S
    BY <1>3 DEF Booted, Live
  <2>3. Cardinality(S) = IF state[j] = "disabled" THEN 0 ELSE 1
    BY DEF Booted
  <2>4. state[j] # "disabled"
    BY <2>1, <2>2, <2>3, FS_EmptySet
  <2>5. PICK x : S = {x}
    <3> HIDE DEF S
    <3> QED
      BY <2>1, <2>3, <2>4, FS_Singleton
  <2> QED
    BY <2>2, <2>4, <2>5
<1>4. Sole /\ DisabledInv
  BY <1>3, RunsAssumption DEF Sole, DisabledInv, Job
<1>5. OwnChan
  BY DEF Booted, OwnChan
<1>6. StateInv
  BY RunsAssumption, <1>3 DEF Booted, StateInv, StateOf, Job, Live
<1>7. PendingInv
  BY DEF Booted, QuietInit, PendingInv, NoCtrl
<1>8. HandlerInv /\ HaltInv
  BY DEF Booted, HandlerInv, HaltInv
<1>9. HasRun
  <2> SUFFICES ASSUME NEW j \in Jobs, state[j] # "disabled"
               PROVE  \E g \in Runs : Job(g) = j /\ Live(g)
    BY DEF HasRun, Booted
  <2> DEFINE S == {r \in Runs : Job(r) = j /\ pc[r] = "launched"}
  <2>1. Cardinality(S) = 1
    BY DEF Booted
  <2>2. S # {}
    BY <2>1, FS_EmptySet
  <2> QED
    BY <2>2 DEF Live
<1> QED
  BY <1>1, <1>2, <1>4, <1>5, <1>6, <1>7, <1>8, <1>9 DEF ControlInv

LEMMA WTypeStep ==
    ASSUME MJInv, WTypeOK, LockInv, WNext
    PROVE  WTypeOK'
<1> USE DEF WTypeOK, httpVars, schedVars, haltVars
<1>1. ASSUME UNCHANGED workerVars PROVE WTypeOK'
  BY <1>1 DEF workerVars
<1>2. ASSUME NEW j \in Jobs, NEW cmd \in Cmds, Command(j, cmd) PROVE WTypeOK'
  BY <1>2, WorkerAssumption DEF Command, HTTPCmd
<1>3. ASSUME HTTPBranch \/ HTTPSend PROVE WTypeOK'
  BY <1>3 DEF HTTPBranch, HTTPSend, HTTPReturn
<1>4. ASSUME HTTPEval \/ HTTPAwait PROVE WTypeOK'
  <2>1. disabled \in [Jobs -> Runs \cup {NoChan}]
    BY DEF MJInv, MJTypeOK
  <2> QED
    BY <1>4, <2>1 DEF HTTPEval, HTTPAwait, HTTPReturn, LockInv
<1>5. ASSUME SchedRecv PROVE WTypeOK'
  <2>1. managerChan \in Seq(jobMessage) /\ managerChan # <<>>
    BY <1>5 DEF MJInv, MJTypeOK, SchedRecv, ReceiveMsg
  <2>2. Head(managerChan) \in jobMessage
    BY <2>1
  <2> QED
    BY <1>5, <2>2 DEF SchedRecv
<1>6. ASSUME SchedLookup \/ SchedCheck \/ SchedPush \/ SchedExit \/ SchedLock \/ SchedFlush
      PROVE  WTypeOK'
  BY <1>6 DEF SchedLookup, SchedCheck, SchedPush, SchedExit, SchedLock, SchedFlush
<1>7. ASSUME SchedUpdate PROVE WTypeOK'
  <2>1. smsg.name \in Jobs
    BY <1>7 DEF SchedUpdate, LockInv, jobMessage
  <2> QED
    BY <1>7, <2>1 DEF SchedUpdate
<1>8. ASSUME NEW j \in Jobs, SchedPop(j) PROVE WTypeOK'
  BY <1>8 DEF SchedPop
<1>9. ASSUME Sigterm \/ HaltSend \/ HaltWait PROVE WTypeOK'
  BY <1>9 DEF Sigterm, HaltBegin, HaltSend, HaltWait
<1>10. ASSUME NEW j \in Jobs, HaltPick(j) PROVE WTypeOK'
  BY <1>10 DEF HaltPick
<1> QED
  BY <1>1, <1>2, <1>3, <1>4, <1>5, <1>6, <1>7, <1>8, <1>9, <1>10
  DEF WNext, JobStep, HTTPStep, SchedStep, HaltStep, Rest, wVars
\* Job(g) gets state s, and of all Runs only g moves, to place p.
Moves(g, s, p) ==
    /\ state' = [state EXCEPT ![Job(g)] = s]
    /\ pc' = [pc EXCEPT ![g] = p]

\* Run g takes the message in ctrlChan while a runner is busy ...
TakesBusy(g) ==
    /\ pc[g] = "wait"
    /\ ctrlChan' = [ctrlChan EXCEPT ![Job(g)] = NoCtrl]
    /\ UNCHANGED <<disabled, closed>>
    /\ \/ ctrlChan[Job(g)] = "jobStop" /\ Moves(g, "paused", "stopping")
       \/ ctrlChan[Job(g)] = "jobDisable" /\ Moves(g, "disabled", "leaving")
       \/ ctrlChan[Job(g)] = "jobHalt" /\ Moves(g, "halting", "leaving")
       \/ ctrlChan[Job(g)] = "jobRestart" /\ Moves(g, "ready", "restarting")
       \/ ctrlChan[Job(g)] \in {"jobStart", "jobForceStart"} /\ Moves(g, "ready", "wait")

\* ... and while the loop is idle.
TakesIdle(g) ==
    /\ pc[g] = "idle"
    /\ ctrlChan' = [ctrlChan EXCEPT ![Job(g)] = NoCtrl]
    /\ UNCHANGED disabled
    /\ \/ /\ \/ ctrlChan[Job(g)] = "jobStop" /\ Moves(g, "paused", "loop")
             \/ /\ ctrlChan[Job(g)] \in {"jobRestart", "jobStart", "jobForceStart"}
                /\ Moves(g, "ready", "loop")
          /\ UNCHANGED closed
       \/ /\ \/ ctrlChan[Job(g)] = "jobDisable" /\ Moves(g, "disabled", "off")
             \/ ctrlChan[Job(g)] = "jobHalt" /\ Moves(g, state[Job(g)], "off")
          /\ closed' = closed \cup {disabled[Job(g)]}

LEMMA TakesLemma ==
    ASSUME ControlTypes, NEW g \in Runs
    PROVE  (WaitCtrl(g) => TakesBusy(g)) /\ (IdleCtrl(g) => TakesIdle(g))
<1>1. ctrlChan[Job(g)] \in CtrlAction \cup {NoCtrl}
  BY RunsAssumption DEF ControlTypes, Job
<1>2. ASSUME NEW c \in CtrlAction
      PROVE  \/ c = "jobStop" /\ WaitState[c] = "paused" /\ WaitNext[c] = "stopping"
             \/ c = "jobDisable" /\ WaitState[c] = "disabled" /\ WaitNext[c] = "leaving"
             \/ c = "jobHalt" /\ WaitState[c] = "halting" /\ WaitNext[c] = "leaving"
             \/ c = "jobRestart" /\ WaitState[c] = "ready" /\ WaitNext[c] = "restarting"
             \/ /\ c \in {"jobStart", "jobForceStart"}
                /\ WaitState[c] = "ready" /\ WaitNext[c] = "wait"
  BY DEF CtrlAction, WaitState, WaitNext
<1>3. ASSUME WaitCtrl(g) PROVE TakesBusy(g)
  BY <1>1, <1>2, <1>3 DEF WaitCtrl, TakesBusy, Moves
<1>4. ASSUME IdleCtrl(g) PROVE TakesIdle(g)
  BY <1>1, <1>2, <1>4 DEF IdleCtrl, TakesIdle, Moves, Exit, Continue
<1> QED
  BY <1>3, <1>4

\* A step of the control loop of one Run.
LEMMA LoopControl ==
    ASSUME WInv, NEW g \in Runs, LoopStep(g), UNCHANGED workerVars
    PROVE  ControlInv'
<1> USE RunsAssumption DEF Job, Live, jobVars, loopVars
<1>1. ControlTypes /\ ControlInv
  BY HasControlTypes DEF WInv
<1>2. UNCHANGED <<L, schedule, hpc, hcmd, hjob, hchan, spc, smsg, sjob, mpc, hleft, hcur, exit>>
  BY DEF workerVars, httpVars, schedVars, haltVars
<1>3. LockInv'
  BY <1>1, <1>2 DEF ControlInv, LockInv
<1>4. CASE Begin(g)
  <2>1. Sole'
    BY <1>1, <1>2, <1>4 DEF ControlTypes, ControlInv, Sole, Begin
  <2>2. OwnChan'
    BY <1>1, <1>2, <1>4 DEF ControlTypes, ControlInv, OwnChan, Sole, Begin
  <2>3. StateInv'
    BY <1>1, <1>2, <1>4 DEF ControlTypes, ControlInv, StateInv, StateOf, Sole, Begin
  <2>4. DisabledInv'
    BY <1>1, <1>2, <1>4 DEF ControlTypes, ControlInv, DisabledInv, Reviving, Sole, PendingInv, StateInv, StateOf, Begin
  <2>5. PendingInv'
    BY <1>1, <1>2, <1>4 DEF ControlTypes, ControlInv, PendingInv, Sole, Begin
  <2>6. HandlerInv'
    BY <1>1, <1>2, <1>4 DEF ControlTypes, ControlInv, HandlerInv, LockInv, DisabledInv, Reviving, PendingInv, Sole, Begin
  <2>7. HaltInv'
    BY <1>1, <1>2, <1>4 DEF ControlTypes, ControlInv, HaltInv, LockInv, StateInv, StateOf, Sole, Begin
  <2>9. HasRun'
    BY <1>1, <1>2, <1>4 DEF ControlTypes, ControlInv, HasRun, PendingInv, StateInv, StateOf, Sole, Begin
  <2> QED
    BY <1>3, <2>1, <2>2, <2>3, <2>4, <2>5, <2>6, <2>7, <2>9 DEF ControlInv
<1>5. CASE LoopTop(g)
  <2>1. Sole'
    BY <1>1, <1>2, <1>5 DEF ControlTypes, ControlInv, Sole, LoopTop
  <2>2. OwnChan'
    BY <1>1, <1>2, <1>5 DEF ControlTypes, ControlInv, OwnChan, Sole, LoopTop
  <2>3. StateInv'
    BY <1>1, <1>2, <1>5 DEF ControlTypes, ControlInv, StateInv, StateOf, Sole, LoopTop
  <2>4. DisabledInv'
    BY <1>1, <1>2, <1>5 DEF ControlTypes, ControlInv, DisabledInv, Reviving, Sole, PendingInv, StateInv, StateOf, LoopTop
  <2>5. PendingInv'
    BY <1>1, <1>2, <1>5 DEF ControlTypes, ControlInv, PendingInv, Sole, LoopTop
  <2>6. HandlerInv'
    BY <1>1, <1>2, <1>5 DEF ControlTypes, ControlInv, HandlerInv, LockInv, DisabledInv, Reviving, PendingInv, Sole, LoopTop
  <2>7. HaltInv'
    BY <1>1, <1>2, <1>5 DEF ControlTypes, ControlInv, HaltInv, LockInv, StateInv, StateOf, Sole, LoopTop
  <2>9. HasRun'
    BY <1>1, <1>2, <1>5 DEF ControlTypes, ControlInv, HasRun, PendingInv, StateInv, StateOf, Sole, LoopTop
  <2> QED
    BY <1>3, <2>1, <2>2, <2>3, <2>4, <2>5, <2>6, <2>7, <2>9 DEF ControlInv
<1>6. CASE JobDone(g)
  <2>1. Sole'
    BY <1>1, <1>2, <1>6 DEF ControlTypes, ControlInv, Sole, JobDone, RunnerGone
  <2>2. OwnChan'
    BY <1>1, <1>2, <1>6 DEF ControlTypes, ControlInv, OwnChan, Sole, JobDone, RunnerGone
  <2>3. StateInv'
    BY <1>1, <1>2, <1>6 DEF ControlTypes, ControlInv, StateInv, StateOf, Sole, JobDone, RunnerGone
  <2>4. DisabledInv'
    BY <1>1, <1>2, <1>6 DEF ControlTypes, ControlInv, DisabledInv, Reviving, Sole, PendingInv, StateInv, StateOf, JobDone, RunnerGone
  <2>5. PendingInv'
    BY <1>1, <1>2, <1>6 DEF ControlTypes, ControlInv, PendingInv, Sole, JobDone, RunnerGone
  <2>6. HandlerInv'
    BY <1>1, <1>2, <1>6 DEF ControlTypes, ControlInv, HandlerInv, LockInv, DisabledInv, Reviving, PendingInv, Sole, JobDone, RunnerGone
  <2>7. HaltInv'
    BY <1>1, <1>2, <1>6 DEF ControlTypes, ControlInv, HaltInv, LockInv, StateInv, StateOf, Sole, JobDone, RunnerGone
  <2>9. HasRun'
    BY <1>1, <1>2, <1>6 DEF ControlTypes, ControlInv, HasRun, PendingInv, StateInv, StateOf, Sole, JobDone, RunnerGone
  <2> QED
    BY <1>3, <2>1, <2>2, <2>3, <2>4, <2>5, <2>6, <2>7, <2>9 DEF ControlInv
<1>7. CASE WaitCtrl(g)
  <2>0. TakesBusy(g)
    BY <1>1, <1>7, TakesLemma
  <2>1. Sole'
    BY <1>1, <1>2, <2>0 DEF ControlTypes, ControlInv, Sole, TakesBusy, Moves, NoCtrl
  <2>2. OwnChan'
    BY <1>1, <1>2, <2>0 DEF ControlTypes, ControlInv, OwnChan, Sole, TakesBusy, Moves, NoCtrl
  <2>3. StateInv'
    BY <1>1, <1>2, <2>0 DEF ControlTypes, ControlInv, StateInv, StateOf, Sole, TakesBusy, Moves, NoCtrl
  <2>4. DisabledInv'
    BY <1>1, <1>2, <2>0 DEF ControlTypes, ControlInv, DisabledInv, Reviving, Sole, PendingInv, StateInv, StateOf, TakesBusy, Moves, NoCtrl
  <2>5. PendingInv'
    BY <1>1, <1>2, <2>0 DEF ControlTypes, ControlInv, PendingInv, Sole, TakesBusy, Moves, NoCtrl
  <2>6. HandlerInv'
    BY <1>1, <1>2, <2>0 DEF ControlTypes, ControlInv, HandlerInv, LockInv, DisabledInv, Reviving, PendingInv, Sole, TakesBusy, Moves, NoCtrl
  <2>7. HaltInv'
    BY <1>1, <1>2, <2>0 DEF ControlTypes, ControlInv, HaltInv, LockInv, StateInv, StateOf, Sole, TakesBusy, Moves, NoCtrl
  <2>9. HasRun'
    BY <1>1, <1>2, <2>0 DEF ControlTypes, ControlInv, HasRun, PendingInv, StateInv, StateOf, Sole, TakesBusy, Moves, NoCtrl
  <2> QED
    BY <1>3, <2>1, <2>2, <2>3, <2>4, <2>5, <2>6, <2>7, <2>9 DEF ControlInv
<1>8. CASE Reap(g)
  <2>1. Sole'
    BY <1>1, <1>2, <1>8 DEF ControlTypes, ControlInv, Sole, Reap, RunnerGone, Killed, Continue, Exit
  <2>2. OwnChan'
    BY <1>1, <1>2, <1>8 DEF ControlTypes, ControlInv, OwnChan, Sole, Reap, RunnerGone, Killed, Continue, Exit
  <2>3. StateInv'
    BY <1>1, <1>2, <1>8 DEF ControlTypes, ControlInv, StateInv, StateOf, Sole, Reap, RunnerGone, Killed, Continue, Exit
  <2>4. DisabledInv'
    BY <1>1, <1>2, <1>8 DEF ControlTypes, ControlInv, DisabledInv, Reviving, Sole, PendingInv, StateInv, StateOf, Reap, RunnerGone, Killed, Continue, Exit
  <2>5. PendingInv'
    BY <1>1, <1>2, <1>8 DEF ControlTypes, ControlInv, PendingInv, Sole, Reap, RunnerGone, Killed, Continue, Exit
  <2>6. HandlerInv'
    BY <1>1, <1>2, <1>8 DEF ControlTypes, ControlInv, HandlerInv, LockInv, DisabledInv, Reviving, PendingInv, Sole, Reap, RunnerGone, Killed, Continue, Exit
  <2>7. HaltInv'
    BY <1>1, <1>2, <1>8 DEF ControlTypes, ControlInv, HaltInv, LockInv, StateInv, StateOf, Sole, Reap, RunnerGone, Killed, Continue, Exit
  <2>9. HasRun'
    BY <1>1, <1>2, <1>8 DEF ControlTypes, ControlInv, HasRun, PendingInv, StateInv, StateOf, Sole, Reap, RunnerGone, Killed, Continue, Exit
  <2> QED
    BY <1>3, <2>1, <2>2, <2>3, <2>4, <2>5, <2>6, <2>7, <2>9 DEF ControlInv
<1>9. CASE IdleCtrl(g)
  <2>0. TakesIdle(g)
    BY <1>1, <1>9, TakesLemma
  <2>1. Sole'
    BY <1>1, <1>2, <2>0 DEF ControlTypes, ControlInv, Sole, TakesIdle, Moves, NoCtrl
  <2>2. OwnChan'
    BY <1>1, <1>2, <2>0 DEF ControlTypes, ControlInv, OwnChan, Sole, TakesIdle, Moves, NoCtrl
  <2>3. StateInv'
    BY <1>1, <1>2, <2>0 DEF ControlTypes, ControlInv, StateInv, StateOf, Sole, TakesIdle, Moves, NoCtrl
  <2>4. DisabledInv'
    BY <1>1, <1>2, <2>0 DEF ControlTypes, ControlInv, DisabledInv, Reviving, Sole, PendingInv, StateInv, StateOf, TakesIdle, Moves, NoCtrl
  <2>5. PendingInv'
    BY <1>1, <1>2, <2>0 DEF ControlTypes, ControlInv, PendingInv, Sole, TakesIdle, Moves, NoCtrl
  <2>6. HandlerInv'
    BY <1>1, <1>2, <2>0 DEF ControlTypes, ControlInv, HandlerInv, LockInv, DisabledInv, Reviving, PendingInv, Sole, TakesIdle, Moves, NoCtrl
  <2>7. HaltInv'
    BY <1>1, <1>2, <2>0 DEF ControlTypes, ControlInv, HaltInv, LockInv, StateInv, StateOf, Sole, TakesIdle, Moves, NoCtrl
  <2>9. HasRun'
    BY <1>1, <1>2, <2>0 DEF ControlTypes, ControlInv, HasRun, PendingInv, StateInv, StateOf, Sole, TakesIdle, Moves, NoCtrl
  <2> QED
    BY <1>3, <2>1, <2>2, <2>3, <2>4, <2>5, <2>6, <2>7, <2>9 DEF ControlInv
<1> QED
  BY <1>4, <1>5, <1>6, <1>7, <1>8, <1>9 DEF LoopStep
\* A step of the HTTP handler, or the command that starts one.
LEMMA HandlerControl ==
    ASSUME WInv, Patient,
           \/ HTTPStep
           \/ \E j \in Jobs, cmd \in Cmds : Settled(j) /\ mpc = "idle" /\ HTTPCmd(j, cmd)
    PROVE  ControlInv'
<1> USE RunsAssumption, WorkerAssumption DEF Job, Live, jobVars, loopVars, httpVars, schedVars, haltVars
<1>1. ControlTypes /\ WTypeOK /\ ControlInv
  BY HasControlTypes DEF WInv
<1>2. ASSUME NEW j \in Jobs, NEW cmd \in Cmds, Settled(j), mpc = "idle",
             HTTPCmd(j, cmd)
      PROVE  ControlInv'
  <2>1. LockInv'
    BY <1>1, <1>2 DEF ControlTypes, ControlInv, LockInv, WTypeOK, CmdVerb, HTTPCmd, mjVars
  <2>2. Sole'
    BY <1>1, <1>2 DEF ControlTypes, ControlInv, Sole, HTTPCmd, mjVars
  <2>3. OwnChan'
    BY <1>1, <1>2 DEF ControlTypes, ControlInv, OwnChan, Sole, HTTPCmd, mjVars
  <2>4. StateInv'
    BY <1>1, <1>2 DEF ControlTypes, ControlInv, StateInv, StateOf, Sole, HTTPCmd, mjVars
  <2>5. DisabledInv'
    BY <1>1, <1>2 DEF ControlTypes, ControlInv, DisabledInv, Reviving, LockInv, HTTPCmd, mjVars
  <2>6. PendingInv'
    BY <1>1, <1>2 DEF ControlTypes, ControlInv, PendingInv, LockInv, HTTPCmd, mjVars
  <2>7. HandlerInv'
    BY <1>1, <1>2 DEF ControlTypes, ControlInv, HandlerInv, LockInv, DisabledInv, Reviving, Settled, NoCtrl, CmdVerb, HTTPCmd, mjVars
  <2>8. HaltInv'
    BY <1>1, <1>2 DEF ControlTypes, ControlInv, HaltInv, LockInv, HTTPCmd, mjVars
  <2>9. HasRun'
    BY <1>1, <1>2 DEF ControlTypes, ControlInv, HasRun, PendingInv, StateInv, StateOf, Sole, HTTPCmd, mjVars
  <2> QED
    BY <2>1, <2>2, <2>3, <2>4, <2>5, <2>6, <2>7, <2>8, <2>9 DEF ControlInv
<1>3. CASE HTTPBranch
  <2>1. LockInv'
    BY <1>1, <1>3 DEF ControlTypes, ControlInv, LockInv, WTypeOK, HTTPBranch, HTTPReturn, GoRun, NeedsRun, Listening, Starting
  <2>2. Sole'
    BY <1>1, <1>3 DEF ControlTypes, ControlInv, Sole, HandlerInv, HTTPBranch, HTTPReturn, GoRun, NeedsRun, Listening, Starting
  <2>3. OwnChan'
    BY <1>1, <1>3 DEF ControlTypes, ControlInv, OwnChan, HandlerInv, HTTPBranch, HTTPReturn, GoRun, NeedsRun, Listening, Starting
  <2>4. StateInv'
    BY <1>1, <1>3 DEF ControlTypes, ControlInv, StateInv, StateOf, HandlerInv, HTTPBranch, HTTPReturn, GoRun, NeedsRun, Listening, Starting
  <2>5. DisabledInv'
    BY <1>1, <1>3 DEF ControlTypes, ControlInv, DisabledInv, Reviving, LockInv, HandlerInv, HTTPBranch, HTTPReturn, GoRun, NeedsRun, Listening, Starting
  <2>6. PendingInv'
    BY <1>1, <1>3 DEF ControlTypes, ControlInv, PendingInv, LockInv, HTTPBranch, HTTPReturn, GoRun, NeedsRun, Listening, Starting
  <2>7. HandlerInv'
    BY <1>1, <1>3 DEF ControlTypes, ControlInv, HandlerInv, LockInv, HTTPBranch, HTTPReturn, GoRun, NeedsRun, Listening, Starting
  <2>8. HaltInv'
    BY <1>1, <1>3 DEF ControlTypes, ControlInv, HaltInv, LockInv, HTTPBranch, HTTPReturn, GoRun, NeedsRun, Listening, Starting
  <2>9. HasRun'
    BY <1>1, <1>3 DEF ControlTypes, ControlInv, HasRun, PendingInv, StateInv, StateOf, Sole, HTTPBranch, HTTPReturn, GoRun, NeedsRun, Listening, Starting
  <2> QED
    BY <2>1, <2>2, <2>3, <2>4, <2>5, <2>6, <2>7, <2>8, <2>9 DEF ControlInv
<1>4. CASE HTTPSend
  <2>1. LockInv'
    BY <1>1, <1>4 DEF ControlTypes, ControlInv, LockInv, WTypeOK, HTTPSend, HTTPReturn, SendCtrl, Ctrl, NoCtrl, CmdVerb
  <2>2. Sole'
    BY <1>1, <1>4 DEF ControlTypes, ControlInv, Sole, WTypeOK, Starting, HTTPSend, HTTPReturn, SendCtrl, Ctrl, NoCtrl, CmdVerb
  <2>3. OwnChan'
    BY <1>1, <1>4 DEF ControlTypes, ControlInv, OwnChan, Sole, WTypeOK, Starting, HTTPSend, HTTPReturn, SendCtrl, Ctrl, NoCtrl, CmdVerb
  <2>4. StateInv'
    BY <1>1, <1>4 DEF ControlTypes, ControlInv, StateInv, StateOf, Sole, WTypeOK, Starting, HTTPSend, HTTPReturn, SendCtrl, Ctrl, NoCtrl, CmdVerb
  <2>5. DisabledInv'
    BY <1>1, <1>4 DEF ControlTypes, ControlInv, DisabledInv, Reviving, LockInv, WTypeOK, Starting, HTTPSend, HTTPReturn, SendCtrl, Ctrl, NoCtrl, CmdVerb
  <2>6. PendingInv'
    BY <1>1, <1>4 DEF ControlTypes, ControlInv, PendingInv, LockInv, HandlerInv, WTypeOK, Starting, HTTPSend, HTTPReturn, SendCtrl, Ctrl, NoCtrl, CmdVerb
  <2>7. HandlerInv'
    BY <1>1, <1>4 DEF ControlTypes, ControlInv, HandlerInv, LockInv, WTypeOK, Starting, HTTPSend, HTTPReturn, SendCtrl, Ctrl, NoCtrl, CmdVerb
  <2>8. HaltInv'
    BY <1>1, <1>4 DEF ControlTypes, ControlInv, HaltInv, LockInv, WTypeOK, Starting, HTTPSend, HTTPReturn, SendCtrl, Ctrl, NoCtrl, CmdVerb
  <2>9. HasRun'
    BY <1>1, <1>4 DEF ControlTypes, ControlInv, HasRun, PendingInv, StateInv, StateOf, Sole, Starting, HTTPSend, HTTPReturn, SendCtrl, Ctrl, NoCtrl, CmdVerb
  <2> QED
    BY <2>1, <2>2, <2>3, <2>4, <2>5, <2>6, <2>7, <2>8, <2>9 DEF ControlInv
<1>5. CASE HTTPEval
  <2>1. LockInv'
    BY <1>1, <1>5 DEF ControlTypes, ControlInv, LockInv, WTypeOK, HTTPEval, mjVars
  <2>2. Sole'
    BY <1>1, <1>5 DEF ControlTypes, ControlInv, Sole, HTTPEval, mjVars
  <2>3. OwnChan'
    BY <1>1, <1>5 DEF ControlTypes, ControlInv, OwnChan, Sole, HTTPEval, mjVars
  <2>4. StateInv'
    BY <1>1, <1>5 DEF ControlTypes, ControlInv, StateInv, StateOf, Sole, HTTPEval, mjVars
  <2>5. DisabledInv'
    BY <1>1, <1>5 DEF ControlTypes, ControlInv, DisabledInv, Reviving, LockInv, HTTPEval, mjVars
  <2>6. PendingInv'
    BY <1>1, <1>5 DEF ControlTypes, ControlInv, PendingInv, LockInv, HTTPEval, mjVars
  <2>7. HandlerInv'
    BY <1>1, <1>5 DEF ControlTypes, ControlInv, HandlerInv, LockInv, HTTPEval, mjVars
  <2>8. HaltInv'
    BY <1>1, <1>5 DEF ControlTypes, ControlInv, HaltInv, LockInv, HTTPEval, mjVars
  <2>9. HasRun'
    BY <1>1, <1>5 DEF ControlTypes, ControlInv, HasRun, PendingInv, StateInv, StateOf, Sole, HTTPEval, mjVars
  <2> QED
    BY <2>1, <2>2, <2>3, <2>4, <2>5, <2>6, <2>7, <2>8, <2>9 DEF ControlInv
<1>6. CASE HTTPAwait
  <2>1. LockInv'
    BY <1>1, <1>6 DEF ControlTypes, ControlInv, LockInv, WTypeOK, HTTPAwait, HTTPReturn, mjVars
  <2>2. Sole'
    BY <1>1, <1>6 DEF ControlTypes, ControlInv, Sole, HTTPAwait, HTTPReturn, mjVars
  <2>3. OwnChan'
    BY <1>1, <1>6 DEF ControlTypes, ControlInv, OwnChan, Sole, HTTPAwait, HTTPReturn, mjVars
  <2>4. StateInv'
    BY <1>1, <1>6 DEF ControlTypes, ControlInv, StateInv, StateOf, Sole, HTTPAwait, HTTPReturn, mjVars
  <2>5. DisabledInv'
    BY <1>1, <1>6 DEF ControlTypes, ControlInv, DisabledInv, Reviving, LockInv, HandlerInv, OwnChan, HTTPAwait, HTTPReturn, mjVars
  <2>6. PendingInv'
    BY <1>1, <1>6 DEF ControlTypes, ControlInv, PendingInv, HasRun, LockInv, HandlerInv, OwnChan, HTTPAwait, HTTPReturn, mjVars
  <2>7. HandlerInv'
    BY <1>1, <1>6 DEF ControlTypes, ControlInv, HandlerInv, LockInv, HTTPAwait, HTTPReturn, mjVars
  <2>8. HaltInv'
    BY <1>1, <1>6 DEF ControlTypes, ControlInv, HaltInv, LockInv, HTTPAwait, HTTPReturn, mjVars
  <2>9. HasRun'
    BY <1>1, <1>6 DEF ControlTypes, ControlInv, HasRun, PendingInv, StateInv, StateOf, Sole, HTTPAwait, HTTPReturn, mjVars
  <2> QED
    BY <2>1, <2>2, <2>3, <2>4, <2>5, <2>6, <2>7, <2>8, <2>9 DEF ControlInv
<1> QED
  BY <1>2, <1>3, <1>4, <1>5, <1>6 DEF HTTPStep
\* What the control invariant reads besides the state of the scheduler.
controlVars == <<state, ctrlChan, disabled, closed, pc, httpVars, mpc, hleft, hcur>>

LEMMA ControlFrame ==
    ASSUME ControlInv, UNCHANGED controlVars, LockInv'
    PROVE  ControlInv'
<1> USE DEF controlVars, httpVars
<1>1. Sole' /\ OwnChan' /\ StateInv'
  BY DEF ControlInv, Sole, OwnChan, StateInv, StateOf, Live
<1>2. DisabledInv' /\ PendingInv' /\ HasRun'
  BY DEF ControlInv, DisabledInv, Reviving, PendingInv, HasRun, Live
<1>3. HandlerInv' /\ HaltInv'
  BY DEF ControlInv, HandlerInv, HaltInv, Live
<1> QED
  BY <1>1, <1>2, <1>3 DEF ControlInv

\* A step of the scheduler.
LEMMA SchedControl ==
    ASSUME WInv, SchedStep
    PROVE  ControlInv'
<1> USE RunsAssumption, WorkerAssumption DEF Job, Live, jobVars, loopVars, httpVars, schedVars, haltVars
<1>1. ControlTypes /\ WTypeOK /\ ControlInv
  BY HasControlTypes DEF WInv
<1>2. CASE SchedPush
  <2>1. LockInv'
    BY <1>1, <1>2 DEF ControlTypes, ControlInv, LockInv, WTypeOK, SchedPush, SendCtrl, NoCtrl
  <2>2. Sole'
    BY <1>1, <1>2 DEF ControlTypes, ControlInv, Sole, SchedPush, SendCtrl, NoCtrl
  <2>3. OwnChan'
    BY <1>1, <1>2 DEF ControlTypes, ControlInv, OwnChan, SchedPush, SendCtrl, NoCtrl
  <2>4. StateInv'
    BY <1>1, <1>2 DEF ControlTypes, ControlInv, StateInv, StateOf, SchedPush, SendCtrl, NoCtrl
  <2>5. DisabledInv'
    BY <1>1, <1>2 DEF ControlTypes, ControlInv, DisabledInv, Reviving, LockInv, SchedPush, SendCtrl, NoCtrl
  <2>6. PendingInv'
    BY <1>1, <1>2 DEF ControlTypes, ControlInv, PendingInv, LockInv, SchedPush, SendCtrl, NoCtrl
  <2>7. HasRun'
    BY <1>1, <1>2 DEF ControlTypes, ControlInv, HasRun, SchedPush, SendCtrl, NoCtrl
  <2>8. HandlerInv'
    BY <1>1, <1>2 DEF ControlTypes, ControlInv, HandlerInv, LockInv, SchedPush, SendCtrl, NoCtrl
  <2>9. HaltInv'
    BY <1>1, <1>2 DEF ControlTypes, ControlInv, HaltInv, LockInv, WTypeOK, SchedPush, SendCtrl, NoCtrl
  <2> QED
    BY <2>1, <2>2, <2>3, <2>4, <2>5, <2>6, <2>7, <2>8, <2>9 DEF ControlInv
<1>3. ASSUME SchedRecv PROVE ControlInv'
  <2>1. Head(managerChan) \in jobMessage
    BY <1>3 DEF WInv, MJInv, MJTypeOK, SchedRecv, ReceiveMsg
  <2>2. LockInv'
    BY <1>1, <1>3, <2>1 DEF SchedRecv, ControlInv, LockInv
  <2> QED
    BY <1>1, <1>3, <2>2, ControlFrame DEF SchedRecv, ReceiveMsg, controlVars
<1>4. ASSUME SchedLookup \/ SchedCheck \/ SchedUpdate \/ SchedExit \/ SchedLock \/ SchedFlush
      PROVE  ControlInv'
  <2> USE DEF SchedLookup, SchedCheck, SchedUpdate, SchedExit, SchedLock, SchedFlush
  <2>1. LockInv'
    BY <1>1, <1>4 DEF ControlInv, LockInv
  <2>2. UNCHANGED controlVars
    BY <1>4 DEF ReceiveMsg, controlVars, mjVars
  <2> QED
    BY <1>1, <2>1, <2>2, ControlFrame
<1>5. ASSUME NEW j \in Jobs, SchedPop(j) PROVE ControlInv'
  <2>1. LockInv'
    BY <1>1, <1>5 DEF SchedPop, ControlInv, LockInv
  <2> QED
    BY <1>1, <1>5, <2>1, ControlFrame DEF SchedPop, controlVars, mjVars
<1> QED
  BY <1>2, <1>3, <1>4, <1>5 DEF SchedStep

\* A step of Halt, or the SIGTERM that calls it.
LEMMA HaltControl ==
    ASSUME WInv, Patient, Sigterm \/ HaltStep
    PROVE  ControlInv'
<1> USE RunsAssumption, WorkerAssumption DEF Job, Live, jobVars, loopVars, httpVars, schedVars, haltVars
<1>1. ControlTypes /\ WTypeOK /\ ControlInv
  BY HasControlTypes DEF WInv
<1>2. CASE Sigterm
  <2>1. LockInv'
    BY <1>1, <1>2 DEF ControlTypes, ControlInv, LockInv, WTypeOK, Sigterm, HaltBegin, mjVars
  <2>2. Sole'
    BY <1>1, <1>2 DEF ControlTypes, ControlInv, Sole, Sigterm, HaltBegin, mjVars
  <2>3. OwnChan'
    BY <1>1, <1>2 DEF ControlTypes, ControlInv, OwnChan, Sigterm, HaltBegin, mjVars
  <2>4. StateInv'
    BY <1>1, <1>2 DEF ControlTypes, ControlInv, StateInv, StateOf, Sigterm, HaltBegin, mjVars
  <2>5. DisabledInv'
    BY <1>1, <1>2 DEF ControlTypes, ControlInv, DisabledInv, Reviving, LockInv, Settled, NoCtrl, Sigterm, HaltBegin, mjVars
  <2>6. PendingInv'
    BY <1>1, <1>2 DEF ControlTypes, ControlInv, PendingInv, LockInv, Sigterm, HaltBegin, mjVars
  <2>7. HasRun'
    BY <1>1, <1>2 DEF ControlTypes, ControlInv, HasRun, Sigterm, HaltBegin, mjVars
  <2>8. HandlerInv'
    BY <1>1, <1>2 DEF ControlTypes, ControlInv, HandlerInv, LockInv, Sigterm, HaltBegin, mjVars
  <2>9. HaltInv'
    BY <1>1, <1>2 DEF ControlTypes, ControlInv, HaltInv, LockInv, WTypeOK, Sigterm, HaltBegin, mjVars
  <2> QED
    BY <2>1, <2>2, <2>3, <2>4, <2>5, <2>6, <2>7, <2>8, <2>9 DEF ControlInv
<1>3. ASSUME NEW j \in Jobs, HaltPick(j) PROVE ControlInv'
  <2>1. LockInv'
    BY <1>1, <1>3 DEF ControlTypes, ControlInv, LockInv, WTypeOK, HaltPick, mjVars
  <2>2. Sole'
    BY <1>1, <1>3 DEF ControlTypes, ControlInv, Sole, HaltPick, mjVars
  <2>3. OwnChan'
    BY <1>1, <1>3 DEF ControlTypes, ControlInv, OwnChan, HaltPick, mjVars
  <2>4. StateInv'
    BY <1>1, <1>3 DEF ControlTypes, ControlInv, StateInv, StateOf, HaltPick, mjVars
  <2>5. DisabledInv'
    BY <1>1, <1>3 DEF ControlTypes, ControlInv, DisabledInv, Reviving, LockInv, HaltPick, mjVars
  <2>6. PendingInv'
    BY <1>1, <1>3 DEF ControlTypes, ControlInv, PendingInv, LockInv, HaltPick, mjVars
  <2>7. HasRun'
    BY <1>1, <1>3 DEF ControlTypes, ControlInv, HasRun, HaltPick, mjVars
  <2>8. HandlerInv'
    BY <1>1, <1>3 DEF ControlTypes, ControlInv, HandlerInv, LockInv, HaltPick, mjVars
  <2>9. HaltInv'
    BY <1>1, <1>3 DEF ControlTypes, ControlInv, HaltInv, LockInv, DisabledInv, Reviving, WTypeOK, HaltPick, mjVars
  <2> QED
    BY <2>1, <2>2, <2>3, <2>4, <2>5, <2>6, <2>7, <2>8, <2>9 DEF ControlInv
<1>4. CASE HaltSend
  <2>1. LockInv'
    BY <1>1, <1>4 DEF ControlTypes, ControlInv, LockInv, WTypeOK, HaltSend, SendCtrl, NoCtrl
  <2>2. Sole'
    BY <1>1, <1>4 DEF ControlTypes, ControlInv, Sole, HaltSend, SendCtrl, NoCtrl
  <2>3. OwnChan'
    BY <1>1, <1>4 DEF ControlTypes, ControlInv, OwnChan, HaltSend, SendCtrl, NoCtrl
  <2>4. StateInv'
    BY <1>1, <1>4 DEF ControlTypes, ControlInv, StateInv, StateOf, HaltSend, SendCtrl, NoCtrl
  <2>5. DisabledInv'
    BY <1>1, <1>4 DEF ControlTypes, ControlInv, DisabledInv, Reviving, LockInv, HaltSend, SendCtrl, NoCtrl
  <2>6. PendingInv'
    BY <1>1, <1>4 DEF ControlTypes, ControlInv, PendingInv, LockInv, HaltSend, SendCtrl, NoCtrl
  <2>7. HasRun'
    BY <1>1, <1>4 DEF ControlTypes, ControlInv, HasRun, HaltSend, SendCtrl, NoCtrl
  <2>8. HandlerInv'
    BY <1>1, <1>4 DEF ControlTypes, ControlInv, HandlerInv, LockInv, HaltSend, SendCtrl, NoCtrl
  <2>9. HaltInv'
    BY <1>1, <1>4 DEF ControlTypes, ControlInv, HaltInv, LockInv, WTypeOK, HaltSend, SendCtrl, NoCtrl
  <2> QED
    BY <2>1, <2>2, <2>3, <2>4, <2>5, <2>6, <2>7, <2>8, <2>9 DEF ControlInv
<1>5. CASE HaltWait
  <2>1. LockInv'
    BY <1>1, <1>5 DEF ControlTypes, ControlInv, LockInv, WTypeOK, HaltWait, mjVars
  <2>2. Sole'
    BY <1>1, <1>5 DEF ControlTypes, ControlInv, Sole, HaltWait, mjVars
  <2>3. OwnChan'
    BY <1>1, <1>5 DEF ControlTypes, ControlInv, OwnChan, HaltWait, mjVars
  <2>4. StateInv'
    BY <1>1, <1>5 DEF ControlTypes, ControlInv, StateInv, StateOf, HaltWait, mjVars
  <2>5. DisabledInv'
    BY <1>1, <1>5 DEF ControlTypes, ControlInv, DisabledInv, Reviving, LockInv, HaltWait, mjVars
  <2>6. PendingInv'
    BY <1>1, <1>5 DEF ControlTypes, ControlInv, PendingInv, LockInv, HaltWait, mjVars
  <2>7. HasRun'
    BY <1>1, <1>5 DEF ControlTypes, ControlInv, HasRun, HaltWait, mjVars
  <2>8. HandlerInv'
    BY <1>1, <1>5 DEF ControlTypes, ControlInv, HandlerInv, LockInv, HaltWait, mjVars
  <2>9. HaltInv'
    BY <1>1, <1>5 DEF ControlTypes, ControlInv, HaltInv, LockInv, StateInv, StateOf, DisabledInv, Reviving, WTypeOK, HaltWait, mjVars
  <2> QED
    BY <2>1, <2>2, <2>3, <2>4, <2>5, <2>6, <2>7, <2>8, <2>9 DEF ControlInv
<1> QED
  BY <1>2, <1>3, <1>4, <1>5 DEF HaltStep

LEMMA ControlStep ==
    ASSUME WInv, Patient, WNext
    PROVE  ControlInv'
<1>1. ControlInv
  BY DEF WInv
<1>2. ASSUME UNCHANGED <<state, ctrlChan, disabled, closed, pc>>, UNCHANGED workerVars
      PROVE  ControlInv'
  <2>1. LockInv'
    BY <1>1, <1>2 DEF ControlInv, LockInv, workerVars, httpVars, schedVars, haltVars
  <2> QED
    BY <1>1, <1>2, <2>1, ControlFrame DEF controlVars, workerVars, haltVars
<1>3. ASSUME NEW g \in Runs, RunnerStep(g) \/ ProviderStep(g)
      PROVE  UNCHANGED <<state, ctrlChan, disabled, closed, pc>>
  BY <1>3 DEF RunnerStep, ProviderStep, Acquire, BypassSemaphore, KilledWaiting, Send,
     PreJobHooks, PreExecHooks, AwaitStarted, AwaitSync, Terminate, PostHooks, Return,
     ProviderStart, ProviderEnd, Timeout, jobVars, loopVars
<1>4. ASSUME JobStep PROVE ControlInv'
  BY <1>2, <1>3, <1>4, LoopControl DEF JobStep, Release, jobVars, loopVars
<1>5. ASSUME Rest PROVE ControlInv'
  BY <1>2, <1>5 DEF Rest, wVars, mjVars, jobVars, loopVars
<1> QED
  BY <1>4, <1>5, HandlerControl, SchedControl, HaltControl DEF WNext, Command

LEMMA BootedInv == Booted => WInv
BY JobsInit, ControlInit DEF WInv

LEMMA WInvStep ==
    ASSUME WInv, Patient, WNext
    PROVE  WInv'
BY JobsStep, WTypeStep, ControlStep DEF WInv, ControlInv

LEMMA WInvariance == Patient => (WSpec => []WInv)
<1> SUFFICES ASSUME Patient PROVE WSpec => []WInv
  OBVIOUS
<1>1. WInit => WInv
  BY InitBooted, BootedInv
<1>2. WInv /\ [WNext]_wVars => WInv'
  <2>1. ASSUME WInv, WNext PROVE WInv'
    BY <2>1, WInvStep
  <2>2. ASSUME WInv, UNCHANGED wVars PROVE WInv'
    <3>1. MJInv'
      BY <2>2, InvStep DEF WInv, wVars
    <3>2. WTypeOK' /\ LockInv'
      BY <2>2 DEF WInv, WTypeOK, ControlInv, LockInv, wVars, workerVars, httpVars,
                  schedVars, haltVars
    <3> QED
      BY <2>2, <3>1, <3>2, ControlFrame
      DEF WInv, wVars, mjVars, jobVars, loopVars, workerVars, haltVars, controlVars
  <2> QED
    BY <2>1, <2>2
<1> QED
  BY <1>1, <1>2, PTL DEF WSpec
-----------------------------------------------------------------------------
(***************************************************************************)
(* The theorems about runs that come and go.                               *)
(***************************************************************************)

\* However commands, ticks and SIGTERM interleave, no job is driven by two
\* goroutines: the handler launches a Run only for a job whose last one has
\* returned (runSchedule's handler, worker.go).
THEOREM OneRun == Patient => (WSpec => []OneRunPerJob)
<1>1. ASSUME WInv PROVE OneRunPerJob
  <2> SUFFICES ASSUME NEW j \in Jobs PROVE Cardinality(RunsOf(j)) <= 1
    BY DEF OneRunPerJob
  <2>1. CASE RunsOf(j) = {}
    BY <2>1, FS_EmptySet
  <2>2. CASE RunsOf(j) # {}
    <3>1. PICK g \in Runs : g \in RunsOf(j)
      BY <2>2 DEF RunsOf
    <3>2. RunsOf(j) = {g}
      BY <1>1, <3>1 DEF WInv, ControlInv, Sole, RunsOf, Live
    <3>3. Cardinality({g}) = 1
      BY FS_Singleton
    <3> QED
      BY <3>2, <3>3
  <2> QED
    BY <2>1, <2>2
<1> QED
  BY <1>1, WInvariance, PTL

\* When the handler of a disable returns, the job's goroutine has returned and
\* its runner is gone, whatever the job was doing (disableJob, worker.go).
THEOREM DisableCompletes == Patient => (WSpec => DisableStops)
<1> DEFINE A == hcmd = "disable" /\ hcmd' = "none" =>
                    \A g \in Runs : Job(g) = hjob =>
                        pc'[g] = "off" /\ rpc'[g] = "none"
<1>1. ASSUME WInv, WNext, hcmd = "disable", hcmd' = "none",
             NEW g \in Runs, Job(g) = hjob
      PROVE  pc'[g] = "off" /\ rpc'[g] = "none"
  <2>1. CASE HTTPBranch
    <3>1. pc[g] = "off" /\ UNCHANGED <<pc, rpc>>
      BY <1>1, <2>1 DEF HTTPBranch, HTTPReturn, Listening, Starting, WInv, ControlInv,
                        HandlerInv, Live, runnerVars
    <3> QED
      BY <1>1, <3>1 DEF WInv, MJInv, Joined
  <2>2. CASE HTTPAwait
    <3>1. pc[g] = "off" /\ UNCHANGED <<pc, rpc>>
      BY <1>1, <2>2 DEF HTTPAwait, WInv, ControlInv, HandlerInv, OwnChan, Live,
                        mjVars, loopVars, runnerVars
    <3> QED
      BY <1>1, <3>1 DEF WInv, MJInv, Joined
  <2>3. HTTPBranch \/ HTTPAwait
    <3>1. ~UNCHANGED hcmd
      BY <1>1
    <3>2. ~HTTPEval /\ ~HTTPSend
      BY <1>1 DEF HTTPEval, HTTPSend
    <3>3. ~SchedStep
      BY <3>1 DEF SchedStep, SchedRecv, SchedLookup, SchedCheck, SchedUpdate,
         SchedPush, SchedExit, SchedLock, SchedFlush, SchedPop, httpVars
    <3>4. ~Sigterm /\ ~HaltStep
      BY <3>1 DEF Sigterm, HaltBegin, HaltStep, HaltSend, HaltWait, HaltPick, httpVars
    <3>5. ~JobStep /\ ~Rest
      BY <3>1 DEF JobStep, Rest, wVars, workerVars, httpVars
    <3>6. ASSUME NEW j \in Jobs, NEW cmd \in Cmds PROVE ~Command(j, cmd)
      BY <1>1, WorkerAssumption DEF Command, HTTPCmd, CmdVerb
    <3> QED
      BY <1>1, <3>2, <3>3, <3>4, <3>5, <3>6 DEF WNext, HTTPStep
  <2> QED
    BY <2>1, <2>2, <2>3
<1>2. WInv /\ [WNext]_wVars => [A]_wVars
  BY <1>1
<1> QED
  BY <1>2, WInvariance, PTL DEF WSpec, DisableStops

\* When the process exits after Halt, no run is in progress; a Run that Halt
\* did not wait for because it had not begun never starts one (Halt and
\* jobsDone, worker.go).
THEOREM HaltComplete == Patient => (WSpec => []HaltStopsAll)
<1>1. ASSUME WInv PROVE HaltStopsAll
  <2> SUFFICES ASSUME spc = "done", NEW g \in Runs PROVE rpc[g] = "none"
    BY DEF HaltStopsAll
  <2>1. mpc = "done"
    BY <1>1 DEF WInv, ControlInv, LockInv
  <2>2. pc[g] \in {"off", "launched", "loop", "idle"}
    BY <1>1, <2>1 DEF WInv, ControlInv, HaltInv, Live
  <2> QED
    BY <1>1, <2>2 DEF WInv, MJInv, Joined
<1> QED
  BY <1>1, WInvariance, PTL

\* In a worker too every control loop joins its runner before it goes on or
\* returns (the joins on jobDone in Run, job.go).
THEOREM WorkerRunnersJoined == Patient => (WSpec => []NoOrphanRunner)
<1>1. WInv => NoOrphanRunner
  BY DEF WInv, MJInv, QuietRunner, Joined, NoOrphanRunner
<1> QED
  BY <1>1, WInvariance, PTL
-----------------------------------------------------------------------------
(***************************************************************************)
(* No job is forgotten.                                                    *)
(***************************************************************************)

\* A run that nobody killed does not end as killed, and what it reports last
\* asks for scheduling.
ReportInv ==
    \A g \in Runs :
        /\ ~Killed(g) => outcome[g] # "killed"
        /\ out[g] # NoMsg => out[g].name = Job(g)
        /\ pc[g] = "wait" /\ rpc[g] = "return" /\ out[g] # NoMsg => out[g].schedule

\* The jobs that a message in managerChan asks to schedule ...
Queued ==
    {j \in Jobs : \E i \in 1..Len(managerChan) :
                      managerChan[i].name = j /\ managerChan[i].schedule}

\* ... and the one that the scheduler is about to schedule.
Handled ==
    {j \in Jobs : spc \in {"lookup", "check", "update"} /\ smsg.name = j /\ smsg.schedule}

\* The run of g has not sent its last report.
AboutToReport(g) == pc[g] = "wait" /\ (rpc[g] \notin {"return", "done"} \/ out[g] # NoMsg)

\* Run g has a run in progress that will report, is about to start one, or will
\* be woken.
Driven(g) ==
    \/ AboutToReport(g)
    \/ pc[g] = "wait" /\ ctrlChan[Job(g)] \in {"jobRestart", "jobStop", "jobDisable"}
    \/ pc[g] = "restarting"
    \/ pc[g] = "loop" /\ state[Job(g)] = "ready"
    \/ /\ pc[g] \in {"launched", "loop", "idle"}
       /\ ctrlChan[Job(g)] # NoCtrl \/ (spc = "push" /\ sjob = Job(g))

\* Something will run job j again, or an operator's command is under way.
Covered(j) ==
    \/ j \in schedule
    \/ hpc # "idle" /\ hjob = j
    \/ state[j] = "ready" /\ j \in Queued \cup Handled
    \/ \E g \in Runs : Job(g) = j /\ Driven(g)

Wanted(j) == ~panicked /\ mpc = "idle" /\ state[j] \in {"none", "ready"}

Remembered ==
    /\ hcmd \in Cmds \cup {"none"}
    /\ \A j \in Jobs : Wanted(j) => Covered(j)

\* Commands that only flush the schedule, or whose jobStart a run may swallow
\* at its end, are left out; and so are runs that end without a report.
Thoughtful ==
    Patient /\ ~TermErrors /\ Cmds \subseteq {"restart", "stop", "disable"}

LEMMA ReportInit == WInit => ReportInv
BY DEF WInit, QuietInit, ReportInv

LEMMA ReportStep ==
    ASSUME WInv, ReportInv, ~TermErrors, NEW g \in Runs,
           LoopStep(g) \/ RunnerStep(g) \/ ProviderStep(g)
    PROVE  ReportInv'
<1> DEFINE Good(h) ==
        /\ ~Killed(h) => outcome[h] # "killed"
        /\ out[h] # NoMsg => out[h].name = Job(h)
        /\ pc[h] = "wait" /\ rpc[h] = "return" /\ out[h] # NoMsg => out[h].schedule
      Same(h) == UNCHANGED <<pc[h], outcome[h], rpc[h], out[h]>>
<1>1. /\ rpc \in [Runs -> RunnerPC] /\ pc \in [Runs -> LoopPC]
      /\ outcome \in [Runs -> Outcome]
      /\ out \in [Runs -> jobMessage \cup {NoMsg}]
  BY DEF WInv, MJInv, MJTypeOK
<1>2. QuietRunner /\ Joined
  BY DEF WInv, MJInv
<1>3. ASSUME NEW h \in Runs PROVE Good(h)
  BY DEF ReportInv
<1>4. ASSUME NEW h \in Runs, Same(h) PROVE Good(h)'
  BY <1>3, <1>4 DEF Killed
<1>5. ASSUME Good(g)', \A h \in Runs \ {g} : Same(h) PROVE ReportInv'
  BY <1>4, <1>5 DEF ReportInv
<1>6. ASSUME NEW sched \in BOOLEAN,
             NEW status \in {"PreSyncing", "Syncing", "Success", "Failed"}
      PROVE  /\ Message(g, status, sched) # NoMsg
             /\ Message(g, status, sched).name = Job(g)
             /\ Message(g, status, sched).schedule = sched
  BY MessageType, NullAssumption DEF Message
<1>7. pc[g] = "wait" => Ready(g)
  BY DEF WInv, ControlInv, StateInv, StateOf, Ready
<1> USE DEF jobVars, loopVars, runnerVars, Killed
<1>8. ASSUME LoopStep(g) PROVE ReportInv'
  <2>1. ASSUME NEW h \in Runs \ {g} PROVE Same(h)
    <3>1. CASE IdleCtrl(g) \/ WaitCtrl(g)
      BY <1>1, <2>1, <3>1 DEF IdleCtrl, WaitCtrl, Exit, Continue
    <3> QED
      BY <1>1, <1>8, <2>1, <3>1 DEF LoopStep, Begin, LoopTop, JobDone, Reap, RunnerGone,
         Exit, Continue
  <2>2. ASSUME Begin(g) PROVE Good(g)'
    BY <1>1, <1>3, <2>2 DEF Begin
  <2>3. ASSUME LoopTop(g) PROVE Good(g)'
    BY <1>1, <1>3, <2>3 DEF LoopTop
  <2>4. ASSUME JobDone(g) PROVE Good(g)'
    BY <1>1, <1>3, <2>4 DEF JobDone, RunnerGone
  <2>5. ASSUME WaitCtrl(g) PROVE Good(g)'
    <3>1. TakesBusy(g) /\ UNCHANGED <<outcome, rpc, out>>
      BY <2>5, TakesLemma, HasControlTypes DEF WInv, WaitCtrl
    <3> QED
      BY <1>1, <1>3, <3>1 DEF TakesBusy, Moves
  <2>6. ASSUME Reap(g) PROVE Good(g)'
    BY <1>1, <1>3, <2>6 DEF Reap, RunnerGone, Exit, Continue
  <2>7. ASSUME IdleCtrl(g) PROVE Good(g)'
    BY <1>1, <1>3, <2>7 DEF IdleCtrl, Exit, Continue
  <2>8. Good(g)'
    BY <1>8, <2>2, <2>3, <2>4, <2>5, <2>6, <2>7 DEF LoopStep
  <2> QED
    BY <1>5, <2>1, <2>8
<1>9. ASSUME ProviderStep(g) PROVE ReportInv'
  <2>1. ASSUME NEW h \in Runs \ {g} PROVE Same(h)
    BY <1>1, <1>9, <2>1 DEF ProviderStep, ProviderStart, ProviderEnd, Timeout
  <2>2. Good(g)'
    BY <1>1, <1>3, <1>9 DEF ProviderStep, ProviderStart, ProviderEnd, Timeout, At
  <2> QED
    BY <1>5, <2>1, <2>2
<1>10. ASSUME RunnerStep(g) PROVE ReportInv'
  <2>1. ASSUME NEW h \in Runs \ {g} PROVE Same(h)
    BY <1>1, <1>10, <2>1 DEF RunnerStep, Acquire, BypassSemaphore, KilledWaiting, Send,
       PreJobHooks, PreExecHooks, HookFails, AwaitStarted, AwaitSync, Terminate, PostHooks, Return
  <2>2. ASSUME Acquire(g) \/ BypassSemaphore(g) PROVE Good(g)'
    BY <1>1, <1>3, <1>6, <2>2 DEF Acquire, BypassSemaphore
  <2>3. ASSUME KilledWaiting(g) \/ Send(g) \/ Return(g) PROVE Good(g)'
    BY <1>1, <1>3, <2>3 DEF KilledWaiting, Send, Return, At
  <2>4. ASSUME PreJobHooks(g) \/ PreExecHooks(g) PROVE Good(g)'
    BY <1>1, <1>3, <1>6, <2>4 DEF PreJobHooks, PreExecHooks, HookFails, At
  <2>5. ASSUME AwaitStarted(g) \/ AwaitSync(g) PROVE Good(g)'
    BY <1>1, <1>3, <2>5 DEF AwaitStarted, AwaitSync, At
  <2>6. ASSUME Terminate(g) PROVE Good(g)'
    BY <1>1, <1>3, <2>6 DEF Terminate, At
  <2>7. ASSUME PostHooks(g) PROVE Good(g)'
    <3>1. UNCHANGED <<pc, outcome>> /\ out[g] = NoMsg
      BY <2>7 DEF PostHooks, At
    <3>2. CASE HookFails(g)
      BY <1>1, <1>3, <1>6, <3>1, <3>2 DEF HookFails
    <3>3. CASE outcome[g] = "ok" /\ out' = [out EXCEPT ![g] = Message(g, "Success", Ready(g))]
      <4>1. Ready(g) \in BOOLEAN
        BY DEF Ready
      <4> QED
        BY <1>1, <1>3, <1>6, <1>7, <3>1, <3>3, <4>1
    <3>4. CASE /\ out' = [out EXCEPT ![g] = Message(g, "Failed", LastTry(g) /\ Ready(g))]
               /\ \/ outcome[g] = "killed" \/ LastTry(g)
                  \/ rpc' = [rpc EXCEPT ![g] = "exec"]
      <4>1. (LastTry(g) /\ Ready(g)) \in BOOLEAN
        BY DEF Ready, LastTry
      <4>2. out'[g].name = Job(g) /\ out'[g].schedule = (LastTry(g) /\ Ready(g))
        BY <1>1, <1>6, <3>4, <4>1
      <4>3. pc'[g] = "wait" => Ready(g) /\ outcome[g] # "killed"
        BY <1>3, <1>7, <3>1
      <4>4. rpc'[g] = "return" => outcome[g] = "killed" \/ LastTry(g)
        BY <1>1, <3>4
      <4> QED
        BY <1>3, <3>1, <4>2, <4>3, <4>4
    <3> QED
      BY <2>7, <3>2, <3>3, <3>4 DEF PostHooks
  <2>8. Good(g)'
    BY <1>10, <2>2, <2>3, <2>4, <2>5, <2>6, <2>7 DEF RunnerStep
  <2> QED
    BY <1>5, <2>1, <2>8
<1> QED
  BY <1>8, <1>9, <1>10
\* Steps that are not a job's own leave its runners alone.
LEMMA ReportKept ==
    ASSUME WInv, ReportInv, ~TermErrors, WNext
    PROVE  ReportInv'
<1>1. ASSUME UNCHANGED <<pc, outcome, rpc, out>> PROVE ReportInv'
  BY <1>1 DEF ReportInv, Killed
<1> USE DEF mjVars, loopVars, runnerVars
<1>2. ASSUME JobStep PROVE ReportInv'
  BY <1>1, <1>2, ReportStep DEF JobStep, Release
<1>3. ASSUME HTTPBranch PROVE ReportInv'
  <2>1. pc \in [Runs -> LoopPC]
    BY DEF WInv, MJInv, MJTypeOK
  <2>2. UNCHANGED <<outcome, rpc, out>>
    BY <1>3 DEF HTTPBranch
  <2>3. ASSUME NEW g \in Runs, GoRun(g) PROVE ReportInv'
    BY <2>1, <2>2, <2>3 DEF GoRun, ReportInv, Killed
  <2> QED
    BY <1>1, <1>3, <2>2, <2>3 DEF HTTPBranch
<1>4. ASSUME HTTPSend \/ HTTPEval \/ HTTPAwait PROVE ReportInv'
  BY <1>1, <1>4 DEF HTTPSend, HTTPEval, HTTPAwait, SendCtrl
<1>5. ASSUME SchedStep PROVE ReportInv'
  BY <1>1, <1>5 DEF SchedStep, SchedRecv, SchedLookup, SchedCheck, SchedUpdate, SchedPush,
     SchedExit, SchedLock, SchedFlush, SchedPop, SendCtrl, ReceiveMsg
<1>6. ASSUME Sigterm \/ HaltStep PROVE ReportInv'
  BY <1>1, <1>6 DEF Sigterm, HaltBegin, HaltStep, HaltSend, HaltWait, HaltPick, SendCtrl
<1>7. ASSUME NEW j \in Jobs, NEW cmd \in Cmds, Command(j, cmd) PROVE ReportInv'
  BY <1>1, <1>7 DEF Command, HTTPCmd
<1>8. ASSUME Rest PROVE ReportInv'
  BY <1>1, <1>8 DEF Rest, wVars
<1> QED
  BY <1>2, <1>3, <1>4, <1>5, <1>6, <1>7, <1>8 DEF WNext, HTTPStep

\* What is put in managerChan stays there until the scheduler takes it.
LEMMA QueuedSend ==
    ASSUME WInv, ReportInv, NEW g \in Runs, Send(g)
    PROVE  Queued \subseteq Queued' /\ (out[g].schedule => Job(g) \in Queued')
<1>1. managerChan \in Seq(jobMessage) /\ out[g] \in jobMessage
  BY DEF WInv, MJInv, MJTypeOK, Send
<1>2. managerChan' = Append(managerChan, out[g])
  BY DEF Send
<1>3. /\ Len(managerChan') = Len(managerChan) + 1 /\ Len(managerChan) \in Nat
      /\ managerChan'[Len(managerChan) + 1] = out[g]
      /\ \A i \in 1..Len(managerChan) : managerChan'[i] = managerChan[i]
  BY <1>1, <1>2
<1>4. Queued \subseteq Queued'
  BY <1>3 DEF Queued
<1>5. out[g].name = Job(g) /\ Job(g) \in Jobs
  BY RunsAssumption DEF Send, ReportInv, Job
<1>6. ASSUME out[g].schedule PROVE Job(g) \in Queued'
  <2>1. Len(managerChan) + 1 \in 1..Len(managerChan')
    BY <1>3
  <2> QED
    BY <1>3, <1>5, <1>6, <2>1 DEF Queued
<1> QED
  BY <1>4, <1>6

LEMMA QueuedReceive ==
    ASSUME WInv, ReceiveMsg, NEW j \in Queued
    PROVE  \/ j \in Queued'
           \/ Head(managerChan).name = j /\ Head(managerChan).schedule
<1>1. managerChan \in Seq(jobMessage) /\ managerChan # <<>>
  BY DEF WInv, MJInv, MJTypeOK, ReceiveMsg
<1>2. managerChan' = Tail(managerChan)
  BY DEF ReceiveMsg
<1>3. /\ Len(managerChan') = Len(managerChan) - 1 /\ Len(managerChan) \in Nat \ {0}
      /\ Head(managerChan) = managerChan[1]
      /\ \A i \in 1..(Len(managerChan) - 1) : managerChan'[i] = managerChan[i + 1]
  BY <1>1, <1>2
<1>4. PICK i \in 1..Len(managerChan) : managerChan[i].name = j /\ managerChan[i].schedule
  BY DEF Queued
<1>5. CASE i = 1
  BY <1>3, <1>4, <1>5
<1>6. CASE i # 1
  <2>1. i - 1 \in 1..(Len(managerChan) - 1) /\ (i - 1) + 1 = i
    BY <1>3, <1>4, <1>6
  <2>2. managerChan'[i - 1] = managerChan[i]
    BY <1>3, <2>1
  <2>3. i - 1 \in 1..Len(managerChan')
    BY <1>3, <2>1
  <2> QED
    BY <1>4, <2>2, <2>3 DEF Queued
<1> QED
  BY <1>5, <1>6
\* A job stays covered by a step of its control loop ...
LEMMA RememberLoop ==
    ASSUME WInv, Remembered, ~panicked, NEW g \in Runs, LoopStep(g),
           UNCHANGED workerVars, NEW j \in Jobs, Wanted(j)'
    PROVE  Covered(j)'
<1> USE RunsAssumption DEF Job
<1>1. ControlTypes /\ rpc \in [Runs -> RunnerPC]
  BY HasControlTypes DEF WInv, MJInv, MJTypeOK
<1>2. /\ UNCHANGED <<schedule, hpc, hjob, spc, smsg, sjob, mpc>>
      /\ Handled' = Handled
  BY DEF workerVars, httpVars, schedVars, haltVars, Handled
<1>3. UNCHANGED <<managerChan, out>> /\ Queued' = Queued
  BY DEF LoopStep, Begin, LoopTop, JobDone, WaitCtrl, Reap, IdleCtrl, RunnerGone,
     runnerVars, chanVars, Queued
<1>4. mpc = "idle" /\ state'[j] \in {"none", "ready"}
  BY <1>2 DEF Wanted
<1>5. ASSUME Driven(g)', Job(g) = j PROVE Covered(j)'
  BY <1>5 DEF Covered
<1>6. CASE Job(g) # j
  <2>1. state'[j] = state[j] /\ ctrlChan'[j] = ctrlChan[j]
    BY <1>1, <1>6, TakesLemma DEF ControlTypes, LoopStep, Begin, LoopTop, JobDone, Reap,
       TakesBusy, TakesIdle, Moves, jobVars
  <2>2. ASSUME NEW h \in Runs, Job(h) = j
        PROVE  UNCHANGED <<pc[h], rpc[h], out[h], state[Job(h)], ctrlChan[Job(h)]>>
    <3>1. h # g
      BY <1>6, <2>2
    <3>2. pc'[h] = pc[h] /\ rpc'[h] = rpc[h]
      BY <1>1, <3>1, TakesLemma DEF ControlTypes, LoopStep, Begin, LoopTop, JobDone, Reap,
         Continue, Exit, RunnerGone, TakesBusy, TakesIdle, Moves, WaitCtrl, IdleCtrl, runnerVars
    <3> QED
      BY <1>3, <2>1, <2>2, <3>2
  <2>3. Covered(j)
    BY <1>4, <2>1 DEF Remembered, Wanted
  <2> QED
    BY <1>2, <1>3, <2>1, <2>2, <2>3 DEF Covered, Driven, AboutToReport
<1>7. CASE Job(g) = j
  <2> USE <1>7
  <2>1. ASSUME NEW h \in Runs, Job(h) = j, Driven(h), pc[g] # "off" PROVE h = g
    BY <2>1 DEF WInv, ControlInv, Sole, Live, Driven, AboutToReport
  <2>2. ASSUME UNCHANGED state, pc[g] # "off", Driven(g) => Driven(g)' PROVE Covered(j)'
    <3>1. Covered(j)
      BY <1>4, <2>2 DEF Remembered, Wanted
    <3>2. CASE \E h \in Runs : Job(h) = j /\ Driven(h)
      BY <1>5, <2>1, <2>2, <3>2
    <3> QED
      BY <1>2, <1>3, <2>2, <3>1, <3>2 DEF Covered
  <2>3. CASE Begin(g)
    BY <1>1, <1>2, <2>2, <2>3 DEF ControlTypes, Begin, Driven, AboutToReport
  <2>4. CASE LoopTop(g)
    BY <1>1, <1>2, <1>3, <2>2, <2>4 DEF ControlTypes, LoopTop, Driven, AboutToReport, jobVars
  <2>5. CASE JobDone(g)
    <3>1. out[g] = NoMsg
      BY <2>5 DEF WInv, MJInv, QuietRunner, JobDone, RunnerGone
    <3> QED
      BY <1>1, <1>2, <1>3, <2>2, <2>5, <3>1
      DEF ControlTypes, JobDone, RunnerGone, Driven, AboutToReport, jobVars, NoCtrl
  <2>6. CASE WaitCtrl(g)
    <3>1. TakesBusy(g) /\ UNCHANGED rpc /\ state[j] = "ready"
      BY <1>1, <2>6, TakesLemma DEF WaitCtrl, runnerVars, WInv, ControlInv, StateInv, StateOf
    <3>2. CASE ctrlChan[j] = "jobRestart"
      BY <1>1, <1>5, <3>1, <3>2 DEF ControlTypes, TakesBusy, Moves, Driven
    <3>3. CASE ctrlChan[j] \in {"jobStart", "jobForceStart"}
      <4>1. state' = state /\ pc' = pc
        BY <1>1, <3>1, <3>3 DEF ControlTypes, TakesBusy, Moves
      <4> QED
        BY <1>2, <1>3, <2>2, <3>1, <3>3, <4>1 DEF TakesBusy, Driven, AboutToReport
    <3> QED
      BY <1>1, <1>4, <3>1, <3>2, <3>3 DEF ControlTypes, TakesBusy, Moves
  <2>7. CASE Reap(g)
    <3>1. UNCHANGED state /\ pc[g] = "restarting"
      BY <1>4, <2>7 DEF Reap, Killed, WInv, ControlInv, StateInv, StateOf
    <3>2. pc'[g] = "loop" /\ state[j] = "ready"
      BY <1>1, <2>7, <3>1 DEF ControlTypes, Reap, Continue, WInv, ControlInv, StateInv, StateOf
    <3> QED
      BY <1>5, <3>1, <3>2 DEF Driven
  <2>8. CASE IdleCtrl(g)
    <3>1. TakesIdle(g)
      BY <1>1, <2>8, TakesLemma
    <3>2. ctrlChan[j] # "jobHalt"
      BY <1>4 DEF WInv, ControlInv, PendingInv
    <3>3. pc'[g] = "loop" /\ state'[j] = "ready"
      BY <1>1, <1>4, <3>1, <3>2 DEF ControlTypes, TakesIdle, Moves
    <3> QED
      BY <1>5, <3>3 DEF Driven
  <2> QED
    BY <2>3, <2>4, <2>5, <2>6, <2>7, <2>8 DEF LoopStep
<1> QED
  BY <1>6, <1>7

\* ... and by one of its runner: a run that sends its last report has put the
\* request in managerChan.
LEMMA RememberRunner ==
    ASSUME WInv, ReportInv, Remembered, Thoughtful, ~panicked, NEW g \in Runs,
           RunnerStep(g) \/ ProviderStep(g),
           UNCHANGED workerVars, NEW j \in Jobs, Wanted(j)'
    PROVE  Covered(j)'
<1> USE RunsAssumption DEF Job
<1>1. /\ rpc \in [Runs -> RunnerPC] /\ out \in [Runs -> jobMessage \cup {NoMsg}]
  BY DEF WInv, MJInv, MJTypeOK
<1>2. /\ UNCHANGED <<schedule, hpc, hjob, spc, smsg, sjob, mpc>>
      /\ Handled' = Handled
  BY DEF workerVars, httpVars, schedVars, haltVars, Handled
<1>3. UNCHANGED <<state, ctrlChan, pc>>
  BY DEF RunnerStep, ProviderStep, Acquire, BypassSemaphore, KilledWaiting, Send,
     PreJobHooks, PreExecHooks, AwaitStarted, AwaitSync, Terminate, PostHooks, Return,
     ProviderStart, ProviderEnd, Timeout, jobVars, loopVars
<1>4. Queued \subseteq Queued'
  <2>1. CASE Send(g)
    BY <2>1, QueuedSend
  <2>2. CASE UNCHANGED managerChan
    BY <2>2 DEF Queued
  <2> QED
    BY <2>1, <2>2 DEF RunnerStep, ProviderStep, Acquire, BypassSemaphore, KilledWaiting,
       PreJobHooks, PreExecHooks, AwaitStarted, AwaitSync, Terminate, PostHooks, Return,
       ProviderStart, ProviderEnd, Timeout, chanVars
<1>5. ASSUME NEW h \in Runs, h # g PROVE UNCHANGED <<rpc[h], out[h]>>
  BY <1>1, <1>5 DEF RunnerStep, ProviderStep, Acquire, BypassSemaphore, KilledWaiting,
     Send, PreJobHooks, PreExecHooks, HookFails, AwaitStarted, AwaitSync, Terminate,
     PostHooks, Return, ProviderStart, ProviderEnd, Timeout
<1>6. ASSUME AboutToReport(g) PROVE AboutToReport(g)' \/ Job(g) \in Queued'
  <2>1. ASSUME NEW status \in {"PreSyncing", "Syncing", "Success", "Failed"},
               NEW sched \in BOOLEAN
        PROVE  Message(g, status, sched) # NoMsg
    BY MessageType, NullAssumption
  <2>2. pc[g] = "wait" /\ pc'[g] = "wait"
    BY <1>3, <1>6 DEF AboutToReport
  <2>3. ASSUME rpc'[g] \notin {"return", "done"} \/ out'[g] # NoMsg PROVE AboutToReport(g)'
    BY <2>2, <2>3 DEF AboutToReport
  <2>4. CASE Send(g)
    <3>1. CASE rpc[g] = "return"
      BY <2>2, <2>4, <3>1, QueuedSend DEF Send, ReportInv
    <3>2. CASE rpc[g] # "return"
      BY <1>1, <2>3, <2>4, <3>2 DEF Send, WInv, MJInv, QuietRunner
    <3> QED
      BY <3>1, <3>2
  <2>5. CASE Acquire(g) \/ BypassSemaphore(g) \/ PreJobHooks(g) \/ PreExecHooks(g)
    BY <1>1, <2>1, <2>3, <2>5 DEF Acquire, BypassSemaphore, PreJobHooks, PreExecHooks, HookFails
  <2>6. CASE AwaitStarted(g) \/ AwaitSync(g) \/ ProviderStep(g)
    BY <1>1, <1>6, <2>3, <2>6 DEF AwaitStarted, AwaitSync, ProviderStep, ProviderStart,
       ProviderEnd, Timeout, AboutToReport
  <2>7. CASE Terminate(g)
    BY <1>1, <2>3, <2>7 DEF Terminate, Thoughtful
  <2>8. CASE PostHooks(g)
    <3>1. (LastTry(g) /\ Ready(g)) \in BOOLEAN /\ Ready(g) \in BOOLEAN
      BY DEF LastTry, Ready
    <3>2. out'[g] # NoMsg
      <4>1. ASSUME NEW m \in jobMessage, out' = [out EXCEPT ![g] = m] PROVE out'[g] # NoMsg
        BY <1>1, <4>1, NullAssumption
      <4>2. CASE HookFails(g)
        BY <4>1, <4>2, MessageType DEF HookFails
      <4>3. CASE out' = [out EXCEPT ![g] = Message(g, "Success", Ready(g))]
        BY <3>1, <4>1, <4>3, MessageType
      <4>4. CASE out' = [out EXCEPT ![g] = Message(g, "Failed", LastTry(g) /\ Ready(g))]
        BY <3>1, <4>1, <4>4, MessageType
      <4> QED
        BY <2>8, <4>2, <4>3, <4>4 DEF PostHooks
    <3> QED
      BY <2>3, <3>2
  <2>9. CASE KilledWaiting(g) \/ Return(g)
    BY <1>6, <2>2, <2>9 DEF KilledWaiting, Killed, Return, At, AboutToReport
  <2> QED
    BY <2>4, <2>5, <2>6, <2>7, <2>8, <2>9 DEF RunnerStep
<1>7. Covered(j)
  BY <1>2, <1>3 DEF Remembered, Wanted
<1>8. CASE \E h \in Runs : Job(h) = j /\ Driven(h)
  <2>1. PICK h \in Runs : Job(h) = j /\ Driven(h)
    BY <1>8
  <2>2. CASE h = g /\ AboutToReport(g)
    <3>1. state'[j] = "ready"
      BY <1>3, <2>1, <2>2 DEF AboutToReport, WInv, ControlInv, StateInv, StateOf
    <3> QED
      BY <1>6, <2>1, <2>2, <3>1 DEF Covered, Driven
  <2>3. CASE ~AboutToReport(h) \/ h # g
    BY <1>2, <1>3, <1>5, <2>1, <2>3 DEF Covered, Driven, AboutToReport
  <2> QED
    BY <2>2, <2>3
<1> QED
  BY <1>2, <1>3, <1>4, <1>7, <1>8 DEF Covered

\* A command covers its job until its message is in ctrlChan.
LEMMA RememberHandler ==
    ASSUME WInv, Remembered, Thoughtful, ~panicked, HTTPStep, NEW j \in Jobs, Wanted(j)'
    PROVE  Covered(j)'
<1> USE RunsAssumption DEF Job, jobVars, loopVars, runnerVars, chanVars, mjVars, schedVars, haltVars
<1>1. ControlTypes
  BY HasControlTypes DEF WInv
<1>2. /\ UNCHANGED <<state, rpc, out, schedule, spc, smsg, sjob, mpc, managerChan>>
      /\ Queued' = Queued /\ Handled' = Handled
  BY DEF HTTPStep, HTTPBranch, HTTPSend, HTTPEval, HTTPAwait, SendCtrl, Queued, Handled
<1>3. mpc = "idle" /\ state[j] \in {"none", "ready"} /\ Covered(j)
  BY <1>2 DEF Remembered, Wanted
<1>4. hpc # "idle"
  BY DEF HTTPStep, HTTPBranch, HTTPSend, HTTPEval, HTTPAwait
<1>5. ASSUME NEW h \in Runs, Job(h) = j, Driven(h) PROVE Covered(j)'
  <2>1. /\ pc'[h] = pc[h]
        /\ \/ ctrlChan'[j] = ctrlChan[j]
           \/ ctrlChan[j] = NoCtrl /\ ctrlChan'[j] # NoCtrl
    <3>1. CASE HTTPBranch
      BY <1>1, <1>5, <3>1 DEF HTTPBranch, GoRun, Driven, AboutToReport, ControlTypes
    <3>2. CASE HTTPSend
      <4>1. Ctrl[hcmd] # NoCtrl
        BY <3>2, CtrlTypes DEF HTTPSend, WInv, ControlInv, LockInv, WTypeOK, CtrlAction, NoCtrl
      <4> QED
        BY <1>1, <3>2, <4>1 DEF HTTPSend, SendCtrl, ControlTypes
    <3>3. CASE HTTPEval \/ HTTPAwait
      BY <3>3 DEF HTTPEval, HTTPAwait
    <3> QED
      BY <3>1, <3>2, <3>3 DEF HTTPStep
  <2> QED
    BY <1>2, <1>5, <2>1 DEF Driven, AboutToReport, Covered, NoCtrl
<1>6. ASSUME hpc' # "idle" /\ UNCHANGED hjob PROVE Covered(j)'
  BY <1>2, <1>3, <1>5, <1>6 DEF Covered
<1>7. ASSUME hjob # j PROVE Covered(j)'
  BY <1>2, <1>3, <1>5, <1>7 DEF Covered
<1>8. ASSUME hjob = j, HTTPReturn, HTTPBranch PROVE Covered(j)'
  <2>1. hcmd \in {"restart", "stop", "disable"}
    BY <1>4 DEF Remembered, Thoughtful, WInv, ControlInv, LockInv
  <2> QED
    BY <1>3, <1>6, <1>8, <2>1 DEF HTTPBranch, Listening, Starting
<1>9. ASSUME hjob = j, HTTPSend, hcmd # "disable" PROVE Covered(j)'
  <2>1. hcmd \in {"restart", "stop"}
    BY <1>4, <1>9 DEF Remembered, Thoughtful, WInv, ControlInv, LockInv
  <2>2. ctrlChan'[j] \in {"jobRestart", "jobStop"} /\ UNCHANGED pc
    BY <1>1, <1>9, <2>1 DEF HTTPSend, SendCtrl, Ctrl, ControlTypes
  <2>3. PICK g \in Runs : Job(g) = j /\ Live(g)
    BY <1>3 DEF WInv, ControlInv, HasRun
  <2>4. pc[g] \in {"launched", "loop", "idle", "wait", "restarting"}
    BY <1>1, <1>3, <2>3 DEF ControlTypes, LoopPC, Live, WInv, ControlInv, StateInv, StateOf
  <2>5. Driven(g)'
    BY <2>2, <2>3, <2>4 DEF Driven, NoCtrl
  <2> QED
    BY <2>3, <2>5 DEF Covered
<1>10. ASSUME hjob = j, HTTPAwait PROVE Covered(j)'
  <2>1. PICK g \in Runs : Job(g) = j /\ Live(g)
    BY <1>3 DEF WInv, ControlInv, HasRun
  <2> QED
    BY <1>10, <2>1 DEF HTTPAwait, WInv, ControlInv, LockInv, HandlerInv, OwnChan, Live
<1> QED
  BY <1>6, <1>7, <1>8, <1>9, <1>10 DEF HTTPStep, HTTPBranch, HTTPSend, HTTPEval

\* The scheduler hands a request on: from managerChan to the schedule, and from
\* there to ctrlChan.
LEMMA RememberSched ==
    ASSUME WInv, Remembered, ~panicked, SchedStep, NEW j \in Jobs, Wanted(j)'
    PROVE  Covered(j)'
<1> USE RunsAssumption DEF Job, jobVars, loopVars, runnerVars, chanVars, mjVars, httpVars, haltVars
<1>1. ControlTypes
  BY HasControlTypes DEF WInv
<1>2. UNCHANGED <<state, rpc, out, pc, hpc, hjob, mpc>>
  BY DEF SchedStep, SchedRecv, SchedLookup, SchedCheck, SchedUpdate, SchedPush,
     SchedExit, SchedLock, SchedFlush, SchedPop, SendCtrl, ReceiveMsg
<1>3. mpc = "idle" /\ state[j] \in {"none", "ready"} /\ Covered(j)
  BY <1>2 DEF Remembered, Wanted, SchedStep, SchedRecv, SchedLookup, SchedCheck,
     SchedUpdate, SchedPush, SchedExit, SchedLock, SchedFlush, SchedPop, SendCtrl, ReceiveMsg
<1>4. CASE SchedRecv
  <2>1. ASSUME j \in Queued PROVE j \in Queued' \cup Handled'
    BY <1>4, <2>1, QueuedReceive DEF SchedRecv, Handled
  <2>2. Handled = {}
    BY <1>4 DEF SchedRecv, Handled
  <2>3. UNCHANGED <<ctrlChan, schedule>> /\ spc # "push"
    BY <1>4 DEF SchedRecv, ReceiveMsg
  <2> QED
    BY <1>2, <1>3, <2>1, <2>2, <2>3 DEF Covered, Driven, AboutToReport
<1>5. CASE SchedLookup \/ SchedCheck \/ SchedUpdate
  <2>1. UNCHANGED <<ctrlChan, managerChan, sjob>> /\ schedule \subseteq schedule'
        /\ spc # "push" /\ Queued' = Queued
    BY <1>5 DEF SchedLookup, SchedCheck, SchedUpdate, Queued
  <2>2. ASSUME state[j] = "ready", j \in Handled PROVE j \in Handled' \cup schedule'
    BY <1>5, <2>2 DEF SchedLookup, SchedCheck, SchedUpdate, Handled
  <2> QED
    BY <1>2, <1>3, <2>1, <2>2 DEF Covered, Driven, AboutToReport
<1>6. CASE SchedPush
  <2>1. UNCHANGED <<schedule, managerChan>> /\ Handled = {} /\ Queued' = Queued
    BY <1>6 DEF SchedPush, SendCtrl, Handled, Queued
  <2>2. /\ \A i \in Jobs : ctrlChan'[i] = ctrlChan[i] \/ ctrlChan[i] = NoCtrl
        /\ sjob \in Jobs /\ ctrlChan'[sjob] # NoCtrl /\ spc = "push"
    BY <1>1, <1>6 DEF SchedPush, SendCtrl, ControlTypes, WInv, ControlInv, LockInv, NoCtrl
  <2> QED
    BY <1>2, <1>3, <2>1, <2>2 DEF Covered, Driven, AboutToReport, NoCtrl
<1>7. ASSUME NEW i \in Jobs, SchedPop(i) PROVE Covered(j)'
  <2>1. /\ UNCHANGED <<ctrlChan, managerChan, smsg>> /\ spc = "select" /\ Handled = {}
        /\ Queued' = Queued /\ schedule' = schedule \ {i}
    BY <1>7 DEF SchedPop, Handled, Queued
  <2>2. CASE i = j
    <3>1. PICK g \in Runs : Job(g) = j /\ Live(g)
      BY <1>3 DEF WInv, ControlInv, HasRun
    <3>2. pc[g] \in {"launched", "loop", "idle", "wait", "restarting"}
      BY <1>1, <1>3, <3>1 DEF ControlTypes, LoopPC, Live, WInv, ControlInv, StateInv, StateOf
    <3>3. pc[g] = "wait" => AboutToReport(g)
      BY <1>7, <2>2, <3>1 DEF SchedPop, MayBeDue, AboutToReport
    <3>4. spc' = "push" /\ sjob' = j
      BY <1>7, <2>2 DEF SchedPop
    <3>5. Driven(g)'
      BY <1>2, <3>1, <3>2, <3>3, <3>4 DEF Driven, AboutToReport
    <3> QED
      BY <3>1, <3>5 DEF Covered
  <2>3. CASE i # j
    BY <1>2, <1>3, <2>1, <2>3 DEF Covered, Driven, AboutToReport
  <2> QED
    BY <2>2, <2>3
<1>8. ~(SchedExit \/ SchedLock \/ SchedFlush)
  BY <1>3 DEF SchedExit, SchedLock, SchedFlush, WInv, ControlInv, LockInv
<1> QED
  BY <1>4, <1>5, <1>6, <1>7, <1>8 DEF SchedStep
LEMMA RememberInit == WInit => Remembered
<1> SUFFICES ASSUME WInit PROVE Remembered
  OBVIOUS
<1>1. ASSUME NEW j \in Jobs, Wanted(j) PROVE j \in schedule
  BY <1>1 DEF WInit, Wanted
<1> QED
  BY <1>1 DEF WInit, Remembered, Covered

LEMMA RememberStep ==
    ASSUME WInv, ReportInv, Remembered, Thoughtful, WNext
    PROVE  Remembered'
<1> USE DEF mjVars, jobVars, loopVars, runnerVars, chanVars, httpVars, schedVars, haltVars
<1>1. hcmd' \in Cmds \cup {"none"}
  BY DEF Remembered, WNext, JobStep, workerVars, Command, HTTPCmd, HTTPStep, HTTPBranch,
     HTTPSend, HTTPEval, HTTPAwait, HTTPReturn, SchedStep, SchedRecv, SchedLookup, SchedCheck,
     SchedUpdate, SchedPush, SchedExit, SchedLock, SchedFlush, SchedPop, Sigterm, HaltBegin,
     HaltStep, HaltSend, HaltWait, HaltPick, Rest, wVars
<1>2. SUFFICES ASSUME NEW j \in Jobs, Wanted(j)' PROVE Covered(j)'
  BY <1>1 DEF Remembered
<1>3. ASSUME Rest \/ UNCHANGED wVars PROVE Covered(j)'
  BY <1>2, <1>3 DEF Rest, wVars, workerVars, Remembered, Wanted, Covered, Driven, AboutToReport,
     Queued, Handled
<1>4. CASE ~panicked /\ JobStep
  <2>1. CASE Release
    <3>1. /\ UNCHANGED <<state, ctrlChan, pc, rpc, out, managerChan, panicked>>
          /\ UNCHANGED workerVars
      BY <1>4, <2>1 DEF Release, JobStep
    <3> QED
      BY <1>2, <3>1 DEF workerVars, Remembered, Wanted, Covered, Driven, AboutToReport,
         Queued, Handled
  <2> QED
    BY <1>2, <1>4, <2>1, RememberLoop, RememberRunner DEF JobStep
<1>5. CASE ~panicked /\ HTTPStep
  BY <1>2, <1>5, RememberHandler
<1>6. CASE ~panicked /\ SchedStep
  BY <1>2, <1>6, RememberSched
<1>7. ASSUME NEW i \in Jobs, NEW cmd \in Cmds, Command(i, cmd) PROVE Covered(j)'
  <2>1. CASE i = j
    BY <1>7, <2>1 DEF Command, HTTPCmd, Covered
  <2>2. CASE i # j
    BY <1>2, <1>7, <2>2 DEF Command, HTTPCmd, Remembered, Wanted, Covered, Driven, AboutToReport,
       Queued, Handled
  <2> QED
    BY <2>1, <2>2
<1>8. ~(Sigterm \/ HaltStep)
  BY <1>2 DEF Wanted, Sigterm, HaltBegin, HaltStep, HaltSend, HaltWait, HaltPick
<1> QED
  BY <1>3, <1>4, <1>5, <1>6, <1>7, <1>8 DEF WNext, Alive

\* However runs end and whatever commands and ticks meet them, an active job
\* that is at rest has an entry in the schedule (runSchedule, worker.go; the
\* schedule flag of the reports, job.go).  It rests on the patience of the
\* operator, on Terminate not failing, and on commands that do not flush the
\* schedule of a job whose run is already ending.
THEOREM NotForgotten ==
    Patient /\ ~TermErrors /\ Cmds \subseteq {"restart", "stop", "disable"}
        => (WSpec => []JobNotForgotten)
<1> SUFFICES ASSUME Thoughtful PROVE WSpec => []JobNotForgotten
  BY DEF Thoughtful
<1>1. WSpec => []WInv
  BY WInvariance DEF Thoughtful
<1>2. WInit => ReportInv /\ Remembered
  BY ReportInit, RememberInit
<1>3. WInv /\ ReportInv /\ Remembered /\ [WNext]_wVars => ReportInv' /\ Remembered'
  <2>1. ASSUME WInv, ReportInv, Remembered, WNext PROVE ReportInv' /\ Remembered'
    BY <2>1, ReportKept, RememberStep DEF Thoughtful
  <2>2. ASSUME ReportInv, Remembered, UNCHANGED wVars PROVE ReportInv' /\ Remembered'
    BY <2>2 DEF ReportInv, Killed, Remembered, Wanted, Covered, Driven, AboutToReport, Queued,
       Handled, wVars, mjVars, jobVars, loopVars, runnerVars, chanVars, workerVars, httpVars,
       schedVars, haltVars
  <2> QED
    BY <2>1, <2>2
<1>4. ASSUME WInv, Remembered PROVE JobNotForgotten
  <2> SUFFICES ASSUME NEW j \in Jobs, Alive, QuietFor(j), state[j] \in {"none", "ready"},
                      j \notin schedule
               PROVE  FALSE
    BY DEF JobNotForgotten
  <2>1. Covered(j)
    BY <1>4 DEF Remembered, Wanted, Alive, QuietFor
  <2>2. Queued = {} /\ Handled = {}
    BY DEF QuietFor, Queued, Handled
  <2>3. PICK g \in Runs : Job(g) = j /\ Driven(g)
    BY <2>1, <2>2 DEF Covered, QuietFor
  <2>4. pc[g] # "off"
    BY <2>3 DEF Driven, AboutToReport
  <2>5. pc[g] = "idle" /\ ctrlChan[j] = NoCtrl /\ spc = "select"
    BY <2>3, <2>4 DEF QuietFor, RunsOf
  <2> QED
    BY <2>3, <2>5 DEF Driven, AboutToReport
<1> QED
  BY <1>1, <1>2, <1>3, <1>4, PTL DEF WSpec
=============================================================================
