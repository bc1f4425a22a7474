------------------------------- MODULE Cgroup -------------------------------
(***************************************************************************)
(* A provider whose commands run in a control group (worker/cgroup.go and  *)
(* the cgroup half of cmdJob.Start in worker/runner.go), on top of module  *)
(* Provider.                                                               *)
(*                                                                         *)
(* The hook creates the group of the job before a try and kills and        *)
(* deletes it afterwards.  The worker cannot start a process inside a      *)
(* group, so it starts itself again ("tunasync-exec"): the child waits on  *)
(* a pipe, the parent puts it into the group and writes "cont", and only   *)
(* then does the child exec the command.  What the command starts is in    *)
(* the group from birth and need not end with it.                          *)
(*                                                                         *)
(* initCgroup, which empties the base group when the worker starts, is the *)
(* first part.  The v1 hierarchy has one base group per subsystem, the     *)
(* unified one (v2) a single group.                                        *)
(***************************************************************************)
EXTENDS Provider, Sequences

CONSTANTS
    Subsystems,  \* the subsystems of the v1 hierarchy, in the library's order
    BaseProcs,   \* identities for the processes of the base group
    Kids,        \* identities for what the commands start
    MaxCrashes   \* how often the worker may die

ASSUME CgroupAssumption ==
    /\ Kids \cap CmdJobs = {} /\ MaxCrashes \in Nat
    /\ Len(Subsystems) \in Nat \ {0} /\ DOMAIN Subsystems = 1..Len(Subsystems)

VARIABLES
    \* initCgroup
    ipc,         \* where it is
    base,        \* base[s]: the processes in the base group of subsystem s, or
                 \* base[0] those in the one of the unified hierarchy
    sub,         \* the subsystem it is at
    procs,       \* what it has read and not moved yet
    adding,      \* the process and the subsystem Add is at, or <<>>
    left,        \* history: it returned nil with processes in the base group ...
    unread,      \* ... whose list it could not read
    \* the hook of the provider
    group,       \* the group of the job exists
    cgMgr,       \* c.cgMgrV1 or c.cgMgrV2 is not nil
    hook,        \* what the runner is doing with the hook
    round,       \* the loop variable of killAll
    taskList,    \* the pids it has read and not killed yet
    \* cmdJob.Start and the processes
    start,       \* start[t]: where the Start of try t is
    image,       \* image[c]: what the process of cmdJob c is executing
    pipe,        \* pipe[c]: what the child can read from its pipe
    kid,         \* kid[k]: what a command has started
    member,      \* the processes in the group of the job
    panicked,    \* a goroutine dereferenced nil and took the worker down
    crashes

initVars == <<ipc, base, sub, procs, adding, left, unread>>
hookVars == <<group, cgMgr, hook, round, taskList>>
procVars == <<image, pipe, kid, member>>
cgVars == <<initVars, hookVars, start, procVars, panicked, crashes>>
cVars == <<provVars, cgVars>>

isUnified == DOMAIN base = {0}

\* The first base group and the last.
FirstGroup == IF isUnified THEN 0 ELSE 1
LastGroup == IF isUnified THEN 0 ELSE Len(Subsystems)

CgInit ==
    /\ ProviderInit
    /\ \E G \in {{0}, DOMAIN Subsystems}, B \in SUBSET BaseProcs : base = [s \in G |-> B]
    /\ ipc = "load" /\ sub = FirstGroup /\ procs = {} /\ adding = <<>>
    /\ left = FALSE /\ unread = FALSE
    /\ group = FALSE /\ cgMgr = FALSE
    /\ hook = "idle" /\ round = 0 /\ taskList = {}
    /\ start = [t \in Tries |-> "idle"]
    /\ image = [c \in CmdJobs |-> "none"]
    /\ pipe = [c \in CmdJobs |-> "none"]
    /\ kid = [k \in Kids |-> "none"]
    /\ member = {}
    /\ panicked = FALSE
    /\ crashes = 0

-----------------------------------------------------------------------------
(***************************************************************************)
(* initCgroup.  With no group configured the worker moves every process of *)
(* its own group, itself included, to the sub group "__worker"; a group    *)
(* that is configured has to be empty.                                     *)
(***************************************************************************)

InBase == UNION {base[s] : s \in DOMAIN base}

\* initCgroup returns nil, or an error that ends the worker.  Nothing looks at
\* the base group any more, so only whether processes are left in it is kept.
InitReturns(nil) ==
    /\ ipc' = IF nil THEN "done" ELSE "failed"
    /\ left' = (nil /\ InBase # {})
    /\ base' = <<>> /\ sub' = 1 /\ procs' = {} /\ adding' = <<>>

\* A list of processes cannot be read.  The unified branch returns the error;
\* the other one declares a new err for the path of the group and returns that,
\* which is nil unless the path cannot be found either.
ListUnreadable ==
    /\ \E found \in BOOLEAN : InitReturns(~isUnified /\ found)
    /\ unread' = left'

\* Load the hierarchy.  With a configured group try to make a sub group and see
\* that nothing is in it; otherwise go on.  Any other error ends the worker.
Load ==
    /\ ipc = "load"
    /\ \/ ipc' = "read" /\ UNCHANGED <<base, sub, procs, adding, left, unread>>
       \/ InitReturns(InBase = {}) /\ UNCHANGED unread
       \/ InitReturns(FALSE) /\ UNCHANGED unread
       \/ ListUnreadable

\* Mutant: the processes of a subsystem are read once.
ReadProcs_Once ==
    /\ ipc = "read"
    /\ \/ /\ sub <= LastGroup
          /\ procs' = base[sub] /\ sub' = sub + 1 /\ ipc' = "move"
          /\ UNCHANGED <<base, adding, left, unread>>
       \/ /\ sub > LastGroup
          /\ InitReturns(TRUE) /\ UNCHANGED unread

\* Procs or Processes, subsystem by subsystem, until a group is found empty.
ReadProcs ==
    /\ ipc = "read"
    /\ \/ /\ base[sub] # {}
          /\ procs' = base[sub] /\ ipc' = "move"
          /\ UNCHANGED <<base, sub, adding, left, unread>>
       \/ /\ base[sub] = {} /\ sub < LastGroup
          /\ sub' = sub + 1
          /\ UNCHANGED <<ipc, base, procs, adding, left, unread>>
       \/ /\ base[sub] = {} /\ sub = LastGroup
          /\ InitReturns(TRUE) /\ UNCHANGED unread
       \/ ListUnreadable

\* wkrMgr.Add, for one process after the other.
MoveProc(p) ==
    /\ ipc = "move" /\ adding = <<>> /\ p \in procs
    /\ procs' = procs \ {p}
    /\ adding' = <<p, FirstGroup>>
    /\ UNCHANGED <<ipc, base, sub, left, unread>>

\* Add writes the pid to the group of one subsystem after the other.  A process
\* that is gone (ESRCH) is skipped, any other error ends the worker.
AddStep ==
    /\ ipc = "move" /\ adding # <<>>
    /\ \/ /\ adding[1] \in InBase
          /\ base' = [base EXCEPT ![adding[2]] = @ \ {adding[1]}]
          /\ adding' = IF adding[2] < LastGroup
                       THEN <<adding[1], adding[2] + 1>> ELSE <<>>
          /\ UNCHANGED <<ipc, sub, procs, left>>
       \/ /\ adding[1] \notin InBase
          /\ adding' = <<>>
          /\ UNCHANGED <<ipc, base, sub, procs, left>>
       \/ InitReturns(FALSE)
    /\ UNCHANGED unread

MoveDone ==
    /\ ipc = "move" /\ adding = <<>> /\ procs = {}
    /\ ipc' = "read"
    /\ UNCHANGED <<base, sub, procs, adding, left, unread>>

\* Meanwhile the processes of the base group start others in their own groups,
\* and end.
BaseFork(p, q) ==
    /\ p \in InBase /\ q \notin InBase
    /\ base' = [s \in DOMAIN base |->
                    IF p \in base[s] THEN base[s] \cup {q} ELSE base[s]]
    /\ UNCHANGED <<ipc, sub, procs, adding, left, unread>>

BaseExit(p) ==
    /\ p \in InBase
    /\ base' = [s \in DOMAIN base |-> base[s] \ {p}]
    /\ UNCHANGED <<ipc, sub, procs, adding, left, unread>>

InitCgroup ==
    \/ Load \/ ReadProcs \/ AddStep \/ MoveDone
    \/ \E p \in BaseProcs : MoveProc(p) \/ BaseExit(p)
    \/ \E p, q \in BaseProcs : BaseFork(p, q)

-----------------------------------------------------------------------------
(***************************************************************************)
(* The hook, called by the runner around every try.                        *)
(***************************************************************************)

\* preExec.  NewChild and New take a group that is already there as it is.  On
\* an error nothing changes, and the run ends.
PreExec ==
    /\ hook = "idle" /\ rpc = "idle" /\ try < MaxTries
    /\ group' = TRUE /\ cgMgr' = TRUE
    /\ hook' = "ready"
    /\ UNCHANGED <<round, taskList>>

\* postExec begins with killAll when the try is over.
PostExec ==
    /\ hook = "run" /\ rpc = "idle"
    /\ hook' = "list" /\ round' = 0
    /\ UNCHANGED <<group, cgMgr, taskList>>

\* Live processes: the child of a cmdJob, or what a command started.
LiveKids == {k \in Kids : kid[k] \in {"alive", "killed"}}
Live == Running \cup LiveKids

\* Mutant: killAll is content with one round.
ListTasks_OneRound ==
    /\ hook = "list"
    /\ \/ /\ round = 1 \/ member = {}
          /\ hook' = "delete" /\ UNCHANGED taskList
       \/ /\ round < 1 /\ member # {}
          /\ taskList' = member /\ hook' = "kill"
    /\ UNCHANGED <<group, cgMgr, round>>

\* One pass of the loop of killAll.  Its error, after three rounds or when
\* readTaskList fails, is only logged.
ListTasks ==
    /\ hook = "list"
    /\ \/ /\ round = 3 \/ member = {}
          /\ hook' = "delete" /\ UNCHANGED taskList
       \/ /\ round < 3 /\ member # {}
          /\ taskList' = member /\ hook' = "kill"
       \/ /\ round < 3
          /\ hook' = "unread" /\ UNCHANGED taskList
    /\ UNCHANGED <<group, cgMgr, round>>

\* SIGKILL to each of the list; one that is gone takes no notice.
KillTask(p) ==
    /\ hook = "kill" /\ p \in taskList
    /\ taskList' = taskList \ {p}
    /\ proc' = [c \in CmdJobs |-> IF c = p /\ proc[c] = "alive" THEN "killed" ELSE proc[c]]
    /\ kid' = [k \in Kids |-> IF k = p /\ kid[k] = "alive" THEN "killed" ELSE kid[k]]
    /\ UNCHANGED <<group, cgMgr, hook, round>>

\* The sleep between the rounds.
NextRound ==
    /\ hook = "kill" /\ taskList = {}
    /\ hook' = "list" /\ round' = round + 1
    /\ UNCHANGED <<group, cgMgr, taskList>>

\* Delete fails if the group is not empty, or for other reasons; then the hook
\* keeps its manager and the run ends.
DeleteGroup ==
    /\ hook \in {"delete", "unread"}
    /\ \/ member = {} /\ group' = FALSE /\ cgMgr' = FALSE
       \/ UNCHANGED <<group, cgMgr>>
    /\ hook' = "idle" /\ round' = 0
    /\ UNCHANGED taskList

HookStep ==
    \/ /\ PreExec \/ PostExec \/ ListTasks \/ NextRound \/ DeleteGroup
       /\ UNCHANGED <<proc, kid>>
    \/ \E p \in member \cup taskList : KillTask(p)

-----------------------------------------------------------------------------
(***************************************************************************)
(* cmdJob.Start, called under the provider's lock.                         *)
(***************************************************************************)

Cmd(t) == <<t, stage[t]>>

\* Mutant: an error of Start leaves the pipe open.
StartFails_KeepPipe(t) ==
    /\ Finish(t, "err")
    /\ lock' = "free"
    /\ start' = [start EXCEPT ![t] = "idle"]
    /\ pipe' = [pipe EXCEPT ![Cmd(t)] = "open"]
    /\ UNCHANGED <<isRunning, started>>

\* Start returns an error, and its deferred Close closes the pipe.
StartFails(t) ==
    /\ Finish(t, "err")
    /\ lock' = "free"
    /\ start' = [start EXCEPT ![t] = "idle"]
    /\ pipe' = [pipe EXCEPT ![Cmd(t)] = "eof"]
    /\ UNCHANGED <<isRunning, started>>

\* Make the pipe and start the child with its read end, or fail.
Fork(t) ==
    /\ gpc[t] = "exec" /\ start[t] = "idle"
    /\ cmd' = Cmd(t)
    /\ \/ StartFails(t) /\ UNCHANGED <<proc, image>>
       \/ /\ proc' = [proc EXCEPT ![Cmd(t)] = "alive"]
          /\ image' = [image EXCEPT ![Cmd(t)] = "tunasync-exec"]
          /\ pipe' = [pipe EXCEPT ![Cmd(t)] = "open"]
          /\ start' = [start EXCEPT ![t] = "add"]
          /\ UNCHANGED <<lock, isRunning, started, gpc, syncDone>>
    /\ UNCHANGED <<member, panicked>>

\* AddProc or Add: that the process has vanished is ignored, another error is
\* returned.  The method of a nil manager panics.
AddProc(t) ==
    /\ start[t] = "add"
    /\ \/ /\ cgMgr
          /\ member' = member \cup ({Cmd(t)} \cap Running)
          /\ start' = [start EXCEPT ![t] = "cont"]
          /\ UNCHANGED <<lock, isRunning, started, gpc, syncDone, pipe, panicked>>
       \/ /\ cgMgr
          /\ StartFails(t)
          /\ UNCHANGED <<member, panicked>>
       \/ /\ ~cgMgr
          /\ panicked' = TRUE
          /\ UNCHANGED <<lock, isRunning, started, gpc, syncDone, start, pipe, member>>
    /\ UNCHANGED <<cmd, proc, image>>

\* Mutant: the error of the write is not looked at.
Cont_AnyError(t) ==
    /\ start[t] = "cont"
    /\ pipe' = [pipe EXCEPT ![Cmd(t)] = "cont"]
    /\ isRunning' = TRUE
    /\ started' = started \cup {t}
    /\ lock' = "free"
    /\ gpc' = [gpc EXCEPT ![t] = "unlocked"]
    /\ start' = [start EXCEPT ![t] = "idle"]
    /\ UNCHANGED <<syncDone, cmd, proc, image, member, panicked>>

\* Write "cont" and close the pipe.  Nobody has the read end of a child that
\* is gone: the write fails.
Cont(t) ==
    /\ start[t] = "cont"
    /\ \/ Dead(Cmd(t)) /\ StartFails(t)
       \/ /\ ~Dead(Cmd(t))
          /\ pipe' = [pipe EXCEPT ![Cmd(t)] = "cont"]
          /\ isRunning' = TRUE
          /\ started' = started \cup {t}
          /\ lock' = "free"
          /\ gpc' = [gpc EXCEPT ![t] = "unlocked"]
          /\ start' = [start EXCEPT ![t] = "idle"]
          /\ UNCHANGED syncDone
    /\ UNCHANGED <<cmd, proc, image, member, panicked>>

StartStep(t) ==
    /\ Fork(t) \/ AddProc(t) \/ Cont(t)
    /\ UNCHANGED <<stages, finished, stage, target, rpc, try, initVars,
                   hookVars, kid, crashes>>

-----------------------------------------------------------------------------
(***************************************************************************)
(* The processes.  waitExec reads the pipe to its end before it execs.     *)
(***************************************************************************)

\* Mutant: the child does not wait for the end of the pipe.
WaitExec_NoWait(c) ==
    /\ proc[c] = "alive" /\ image[c] = "tunasync-exec"
    /\ image' = [image EXCEPT ![c] = "command"]
    /\ UNCHANGED <<proc, member>>

\* "cont": exec the command.  Anything else: "Exited on request".
WaitExec(c) ==
    /\ proc[c] = "alive" /\ image[c] = "tunasync-exec"
    /\ \/ /\ pipe[c] = "cont"
          /\ image' = [image EXCEPT ![c] = "command"]
          /\ UNCHANGED <<proc, member>>
       \/ /\ pipe[c] = "eof"
          /\ proc' = [proc EXCEPT ![c] = "err"]
          /\ member' = member \ {c}
          /\ UNCHANGED image

\* The command of a cmdJob exits; the child panics if it is not found or execs
\* in vain.
Exits(c) ==
    /\ proc[c] = "alive"
    /\ \E e \in {"ok", "err"} :
          /\ image[c] = "tunasync-exec" => e = "err"
          /\ proc' = [proc EXCEPT ![c] = e]
    /\ member' = member \ {c}
    /\ UNCHANGED image

Killed(c) ==
    /\ proc[c] = "killed"
    /\ proc' = [proc EXCEPT ![c] = "err"]
    /\ member' = member \ {c}
    /\ UNCHANGED image

ChildStep(c) ==
    /\ WaitExec(c) \/ Exits(c) \/ Killed(c)
    /\ UNCHANGED <<stages, lock, isRunning, cmd, finished, gpc, stage, target,
                   started, syncDone, rpc, try, initVars, hookVars, start,
                   pipe, kid, panicked, crashes>>

\* A command, or what it started, that is executing and not yet killed.
Executing ==
    {c \in CmdJobs : proc[c] = "alive" /\ image[c] = "command"}
      \cup {k \in Kids : kid[k] = "alive"}

\* p starts a process that inherits its group.  (The identities are used in a
\* fixed order, which no property can tell.)
KidFork(p, k) ==
    /\ p \in Executing
    /\ kid[k] = "none" /\ k = CHOOSE x \in Kids : kid[x] = "none"
    /\ kid' = [kid EXCEPT ![k] = "alive"]
    /\ member' = IF p \in member THEN member \cup {k} ELSE member
    /\ UNCHANGED <<provVars, initVars, hookVars, start, image, pipe, panicked, crashes>>

KidEnds(k) ==
    /\ kid[k] \in {"alive", "killed"}
    /\ kid' = [kid EXCEPT ![k] = "dead"]
    /\ member' = member \ {k}
    /\ UNCHANGED <<provVars, initVars, hookVars, start, image, pipe, panicked, crashes>>

-----------------------------------------------------------------------------
(***************************************************************************)
(* The rest of the provider, and the worker.                               *)
(***************************************************************************)

\* Run and the runner as in module Provider, around the hook: a try begins
\* after preExec, and an error of Terminate ends the run without postExec.
ProviderRest ==
    \/ /\ \/ \E t \in Tries : Enter(t) \/ Wait(t) \/ Reap(t) \/ NotRunning(t) \/ Relock(t)
          \/ AwaitStarted \/ SyncDone \/ GiveUp \/ Terminate \/ Grace
       /\ UNCHANGED cgVars
    \/ /\ hook = "ready" /\ NewTry
       /\ hook' = "run"
       /\ UNCHANGED <<initVars, group, cgMgr, round, taskList, start, procVars,
                      panicked, crashes>>
    \/ /\ Signal
       /\ hook' = IF rpc' = "idle" THEN "idle" ELSE hook
       /\ UNCHANGED <<initVars, group, cgMgr, round, taskList, start, procVars,
                      panicked, crashes>>

\* The worker dies and is started again: its goroutines and its ends of the
\* pipes are gone, processes and groups are not.
Crash ==
    /\ crashes < MaxCrashes /\ crashes' = crashes + 1
    /\ panicked' = FALSE
    /\ lock' = "free" /\ isRunning' = FALSE /\ cmd' = NoCmd
    /\ gpc' = [t \in Tries |-> IF gpc[t] = "off" THEN "off" ELSE "done"]
    /\ started' = {} /\ syncDone' = [t \in Tries |-> "none"]
    /\ rpc' = "idle"
    /\ cgMgr' = FALSE /\ hook' = "idle" /\ round' = 0 /\ taskList' = {}
    /\ start' = [t \in Tries |-> "idle"]
    /\ pipe' = [c \in CmdJobs |-> IF pipe[c] = "open" THEN "eof" ELSE pipe[c]]
    /\ UNCHANGED <<stages, proc, finished, stage, target, try, initVars, group,
                   image, kid, member>>

\* No process is left and no try.
Settled ==
    /\ \/ ipc = "failed" \/ panicked
       \/ Live = {} /\ (rpc = "start" \/ (rpc = "idle" /\ hook \in {"idle", "ready"}))
    /\ UNCHANGED cVars

HookRun ==
    /\ ipc = "done" /\ ~panicked /\ HookStep
    /\ UNCHANGED <<stages, lock, isRunning, cmd, finished, gpc, stage, target,
                   started, syncDone, rpc, try, initVars, start, image, pipe,
                   member, panicked, crashes>>

StartRun == ipc = "done" /\ ~panicked /\ \E t \in Tries : StartStep(t)

CgNext ==
    \/ InitCgroup /\ UNCHANGED <<provVars, hookVars, start, procVars, panicked, crashes>>
    \/ HookRun
    \/ StartRun
    \/ ipc = "done" /\ ~panicked /\ ProviderRest
    \/ \E c \in CmdJobs : ChildStep(c)
    \/ \E k \in Kids : KidEnds(k) \/ \E p \in Executing : KidFork(p, k)
    \/ ipc = "done" /\ Crash
    \/ Settled

CgSpec == CgInit /\ [][CgNext]_cVars

-----------------------------------------------------------------------------
(***************************************************************************)
(* Fairness: goroutines are scheduled, the child reads what is in its pipe *)
(* or its end, and the kernel delivers SIGKILL.  No command has to exit of *)
(* itself, and initCgroup may be kept busy by forking processes.           *)
(***************************************************************************)

KernelStep ==
    \/ \E c \in CmdJobs : ChildStep(c) /\ (proc[c] = "killed" \/ pipe[c] = "eof")
    \/ \E k \in Kids : kid[k] = "killed" /\ KidEnds(k)

CgFairSpec ==
    /\ CgSpec
    /\ WF_cVars(HookRun)
    /\ WF_cVars(StartRun)
    /\ WF_cVars(KernelStep)

-----------------------------------------------------------------------------
(***************************************************************************)
(* Properties.                                                             *)
(***************************************************************************)

\* What the handshake is for: whatever a command is or has started is in the
\* group of the job as long as it lives, also when the worker dies between two
\* steps of Start, so the limits of the group hold for it and killAll finds it.
\* A group with processes in it is never deleted.
Contained ==
    /\ {c \in Running : image[c] = "command"} \cup LiveKids \subseteq member
    /\ member # {} => group

\* What the loop of initCgroup is for: when it returns nil no process is left in
\* the base group of any subsystem (a v2 group with processes of its own cannot
\* have controllers for its children), although the processes it moves go on
\* starting others while their pids are written one by one.  The one exception
\* is a list of the v1 hierarchy that it could not read.
BaseLeftEmpty ==
    [][ipc # "done" /\ ipc' = "done" => ~left' \/ (unread' /\ ~isUnified)]_cVars

\* Start of a one-stage provider finds the manager of its group: postExec of a
\* try that was given up has not set it to nil under a Start still going on.
StartHasGroup == stages = 1 => ~panicked

\* A child that waits on its pipe is released or sent away, whether Start
\* succeeds, fails, or dies with the worker.
HandshakeEnds ==
    \A t \in Tries :
        (image[Cmd(t)] = "tunasync-exec" /\ proc[Cmd(t)] = "alive")
            ~> (pipe[Cmd(t)] = "cont" \/ Dead(Cmd(t)) \/ panicked)

\* killAll, if the worker lives and the list can be read, leaves no descendant
\* of the command alive, the ones that are started while it kills included:
\* three rounds are enough for two of them.
KidsDie ==
    \A k \in Kids :
        (hook = "list" /\ kid[k] = "alive" /\ crashes = MaxCrashes)
            ~> (kid[k] = "dead" \/ hook = "unread")

\* What Run and Terminate know of: the processes that were let go, and the
\* cmdJob of the last Start that is over.
AbsProc == [c \in CmdJobs |-> IF pipe[c] = "cont" THEN proc[c] ELSE "none"]

LastOf(T) ==
    IF T = {} THEN NoCmd ELSE <<CHOOSE t \in T : \A u \in T : u <= t, 1>>

AbsCmd ==
    IF \A t \in Tries : start[t] = "idle" THEN cmd
    ELSE LastOf({t \in Tries : start[t] = "idle" /\ pipe[<<t, 1>>] # "none"})

\* To the rest of the provider the handshake is the one step Exec of module
\* Provider: before "cont" is written the child does not count as started, and
\* an error of Start leaves nothing behind that Run or Terminate would see.
Abs == INSTANCE Provider WITH proc <- AbsProc, cmd <- AbsCmd

ImplementsProvider ==
    [][stages = 1 /\ crashes' = 0 => [Abs!ProviderNext]_(Abs!provVars)]_cVars
=============================================================================
