------------------------------- MODULE System -------------------------------
(***************************************************************************)
(* A worker (module Worker) and its manager (module Manager) together.     *)
(*                                                                         *)
(* The goroutine of runSchedule registers the worker, fetches what the     *)
(* manager stores and then posts reports, one request after the other;     *)
(* the handlers of the manager post the commands of clients to the         *)
(* worker's HTTP server.  Each side goes on with its other goroutines      *)
(* while it waits for the other.  The worker may die at any point and is   *)
(* started again; the manager's database is what it finds then.            *)
(***************************************************************************)
EXTENDS Worker

CONSTANTS
    WorkerID,
    Reporters,   \* the manager's goroutines for requests of the worker
    Clients,     \* the manager's goroutines for requests of clients
    Timeouts,    \* whether a report may take longer than the worker waits
    ServerRace,  \* whether the HTTP server may come up before or after boot
    None

ASSUME SystemAssumption ==
    /\ Reporters \cap Clients = {} /\ None \notin Reporters \cup Clients
    /\ IsFiniteSet(Jobs) /\ Cmds \subseteq {"start", "stop", "disable"}
    /\ Timeouts \in BOOLEAN /\ ServerRace \in BOOLEAN

Threads == Reporters \cup Clients

VARIABLES
    \* the manager
    workers, status, mgrpc, req, cur, worker, readers,
    \* between the two
    via,         \* the goroutine that serves the worker's request, or None
    wcmd,        \* wcmd[c]: where the command that c posts to the worker is
    server,      \* the HTTP server of the worker is up
    told         \* told[c]: what tunasynctl says of the command that c serves

mVars == <<workers, status, mgrpc, req, cur, worker, readers>>
netVars == <<via, wcmd, server, told>>
sysVars == <<wVars, mVars, netVars>>

\* The messages of the worker.
Registration == [kind |-> "register", worker |-> WorkerID]

ReportedStatus == [PreSyncing |-> "pre-syncing", Syncing |-> "syncing",
                   Success |-> "success", Failed |-> "failed"]

StatusReport(m) ==
    [kind |-> "job", worker |-> WorkerID, mirror |-> m.name,
     status |-> ReportedStatus[m.status], size |-> "unknown"]

Schedules(S) ==
    [kind |-> "sched", worker |-> WorkerID,
     schedules |-> CHOOSE s \in [1..Cardinality(S) -> [mirror : S, time : {1}]] :
                       S = {s[i].mirror : i \in DOMAIN s}]

Request(cmd, j) == [kind |-> cmd, worker |-> WorkerID, mirror |-> j]

\* Time stands still, so that only the next schedule of a record has two
\* values: unknown and known.
Mgr == INSTANCE Manager WITH
    Workers <- {WorkerID}, Mirrors <- Jobs,
    Requests <- {Request(cmd, j) : cmd \in Cmds, j \in Jobs}, MaxTime <- 1,
    clock <- 0, pc <- mgrpc

ASSUME NoneAssumption == None \notin Mgr!MirrorStatus \cup Mgr!WorkerStatus

Idle(h) == mgrpc[h] = "idle"

\* The worker process has just been started.
WorkerStarts ==
    /\ QuietInit
    /\ state = [j \in Jobs |-> "none"]
    /\ disabled = [j \in Jobs |-> NoChan]
    /\ pc = [g \in Runs |-> "off"]
    /\ L = "free" /\ schedule = {}
    /\ hpc = "idle" /\ hcmd = "none" /\ hjob = NoJob /\ hchan = NoChan
    /\ spc = "register" /\ smsg = NoMsg /\ sjob = NoJob
    /\ mpc = "idle" /\ hleft = {} /\ hcur = NoJob /\ exit = FALSE
    /\ server = FALSE
    /\ via = None

\* What an earlier life of the worker has left in the database.
OldStatus(j, s) ==
    IF s = "none" THEN None
    ELSE [Mgr!Zero EXCEPT !.Name = j, !.Status = s, !.Size = "unknown"]

SysInit ==
    /\ WorkerStarts
    /\ workers = [w \in {WorkerID} |-> None]
    /\ \E s \in [Jobs -> {"none", "success", "paused", "disabled"}] :
          status = [k \in Jobs \X {WorkerID} |-> OldStatus(k[1], s[k[1]])]
    /\ mgrpc = [h \in Threads |-> "idle"]
    /\ req = [h \in Threads |-> None]
    /\ cur = [h \in Threads |-> None]
    /\ worker = [h \in Threads |-> None]
    /\ readers = {}
    /\ wcmd = [c \in Clients |-> "none"]
    /\ told = [c \in Clients |-> "nothing"]
    /\ ncmds = 0

-----------------------------------------------------------------------------
(***************************************************************************)
(* The requests of the worker, all made by the goroutine of runSchedule.   *)
(***************************************************************************)

\* PostJSON ...
PostRequest(r) ==
    /\ via = None
    /\ \E p \in Reporters : Mgr!Accept(p, r) /\ via' = p
    /\ UNCHANGED <<wVars, wcmd, server, told>>

\* ... returns, with the manager's answer or without.
Answered ==
    /\ via # None
    /\ Idle(via) \/ Timeouts
    /\ via' = None

RegisterWorker == spc = "register" /\ PostRequest(Registration)

Registered ==
    /\ spc = "register" /\ Answered
    /\ spc' = "boot"
    /\ UNCHANGED <<mjVars, L, schedule, smsg, sjob, httpVars, haltVars, ncmds,
                   mVars, wcmd, server, told>>

\* go w.runHTTPServer() is called between registration and boot.
ServerUp ==
    /\ ~server /\ spc # "register"
    /\ ServerRace \/ spc = "fetch"
    /\ server' = TRUE
    /\ UNCHANGED <<wVars, mVars, via, wcmd, told>>

BootLock ==
    /\ spc = "boot" /\ L = "free"
    /\ L' = "sched" /\ spc' = "fetch"
    /\ UNCHANGED <<mjVars, schedule, smsg, sjob, httpVars, haltVars, ncmds, mVars,
                   netVars>>

\* Mutant: what the manager stores is not asked for.
Known_Nothing(j) == "none"

\* The status of job j that the manager stores; the record that a command for
\* an unreported job has left has no name and is nobody's.
Stored(j) ==
    LET m == status[<<j, WorkerID>>] IN
    IF m # None /\ m.Name = j THEN m.Status ELSE "none"

\* What fetchJobStatus gets for job j; a worker that is not registered gets an
\* error.
Known(j) == IF workers[WorkerID] = None THEN "none" ELSE Stored(j)

\* The boot part of runSchedule, under w.L.
Boot ==
    /\ spc = "fetch"
    /\ ServerRace \/ server
    /\ state' = [j \in Jobs |-> IF Known(j) \in {"disabled", "paused"}
                                THEN Known(j) ELSE "none"]
    /\ \E G \in SUBSET Runs :
          /\ \A j \in Jobs : Cardinality({g \in G : Job(g) = j})
                                 = IF state'[j] = "disabled" THEN 0 ELSE 1
          /\ pc' = [g \in Runs |-> IF g \in G THEN "launched" ELSE "off"]
    /\ schedule' = {j \in Jobs : state'[j] = "none"}
    /\ L' = "free" /\ spc' = "report"
    /\ UNCHANGED <<ctrlChan, disabled, closed, bypass, runnerVars, chanVars,
                   panicked, smsg, sjob, httpVars, haltVars, ncmds, mVars, netVars>>

\* updateStatus ...
UpdateStatus == spc = "update" /\ PostRequest(StatusReport(smsg))

\* ... and, whether it succeeded or not, AddJob.
StatusUpdated ==
    /\ spc = "update" /\ Answered
    /\ schedule' = IF smsg.schedule THEN schedule \cup {smsg.name} ELSE schedule
    /\ spc' = "report" /\ smsg' = NoMsg
    /\ UNCHANGED <<mjVars, L, sjob, httpVars, haltVars, ncmds, mVars, wcmd, server, told>>

\* updateSchedInfo.  For an empty list the manager has nothing to do.
UpdateSchedInfo == spc = "report" /\ schedule # {} /\ PostRequest(Schedules(schedule))

SchedInfoUpdated ==
    /\ spc = "report"
    /\ Answered \/ (via = None /\ schedule = {} /\ UNCHANGED via)
    /\ spc' = "select"
    /\ UNCHANGED <<mjVars, L, schedule, smsg, sjob, httpVars, haltVars, ncmds, mVars,
                   wcmd, server, told>>

Reporting ==
    \/ RegisterWorker \/ Registered \/ ServerUp \/ BootLock \/ Boot
    \/ UpdateStatus \/ StatusUpdated \/ UpdateSchedInfo \/ SchedInfoUpdated

-----------------------------------------------------------------------------
(***************************************************************************)
(* The commands of clients.                                                *)
(***************************************************************************)

\* tunasynctl posts a command to the manager ...
ClientCmd(c, cmd, j) ==
    /\ ncmds < MaxCmds /\ ncmds' = ncmds + 1
    /\ workers[WorkerID] # None
    /\ Mgr!Accept(c, Request(cmd, j))
    /\ told' = [told EXCEPT ![c] = "nothing"]
    /\ UNCHANGED <<mjVars, L, schedule, httpVars, schedVars, haltVars, via, wcmd,
                   server>>

\* The post of handleClientCmd: refused if nobody listens.
Deliver(c) ==
    /\ mgrpc[c] = "post" /\ wcmd[c] = "none"
    /\ wcmd' = [wcmd EXCEPT ![c] = IF server THEN "sent" ELSE "failed"]
    /\ UNCHANGED <<wVars, mVars, via, server, told>>

\* The worker's handler gets the lock.  (Patient is that of module Worker.)
Take(c) ==
    /\ wcmd[c] = "sent"
    /\ Patient => Settled(req[c].mirror)
    /\ wcmd' = [wcmd EXCEPT ![c] = "taken"]
    /\ HTTPCmd(req[c].mirror, req[c].kind)
    /\ UNCHANGED <<ncmds, mVars, via, server, told>>

Handle ==
    /\ HTTPStep
    /\ wcmd' = [c \in Clients |-> IF wcmd[c] = "taken" /\ hpc' = "idle"
                                  THEN "done" ELSE wcmd[c]]
    /\ UNCHANGED <<ncmds, mVars, via, server, told>>

\* The answer, or the error, gets back to the manager's handler, and ends the
\* request of tunasynctl, which prints one or the other.  An answer is a success
\* whatever it says.
Delivered(c) ==
    /\ wcmd[c] \in {"done", "failed"}
    /\ told' = [told EXCEPT ![c] = IF wcmd[c] = "done" THEN "success" ELSE "failure"]
    /\ wcmd' = [wcmd EXCEPT ![c] = "none"]
    /\ Mgr!Post(c)
    /\ UNCHANGED <<wVars, via, server>>

Commands ==
    \/ \E c \in Clients :
          \/ \E cmd \in Cmds, j \in Jobs : ClientCmd(c, cmd, j)
          \/ Deliver(c) \/ Take(c) \/ Delivered(c)
    \/ Handle

-----------------------------------------------------------------------------
\* The steps of a handler of the manager that concern nobody else.
ManagerStep(h) ==
    /\ \/ Mgr!Validate(h) \/ Mgr!Register(h) \/ Mgr!RefreshGet(h) \/ Mgr!RefreshPut(h)
       \/ Mgr!Read(h) \/ Mgr!Compute(h) \/ Mgr!Write(h)
       \/ Mgr!Lookup(h) \/ Mgr!CmdRead(h)
    /\ UNCHANGED <<wVars, netVars>>

\* The steps of the worker that concern nobody else.
WorkerStep ==
    /\ \/ JobStep
       \/ (SchedRecv \/ SchedLookup \/ SchedCheck \/ SchedPush) /\ UNCHANGED ncmds
       \/ \E j \in Jobs : SchedPop(j) /\ UNCHANGED ncmds
    /\ UNCHANGED <<mVars, netVars>>

\* The worker dies, of a panic or otherwise, and is started again: its state
\* is that of WorkerStarts.
Crash ==
    /\ state' = [j \in Jobs |-> "none"] /\ ctrlChan' = [j \in Jobs |-> NoCtrl]
    /\ disabled' = [j \in Jobs |-> NoChan] /\ closed' = {}
    /\ pc' = [g \in Runs |-> "off"] /\ bypass' = [g \in Runs |-> FALSE]
    /\ rpc' = [g \in Runs |-> "none"] /\ retry' = [g \in Runs |-> 0]
    /\ outcome' = [g \in Runs |-> "none"] /\ out' = [g \in Runs |-> NoMsg]
    /\ holds' = [g \in Runs |-> FALSE] /\ prov' = [g \in Runs |-> "starting"]
    /\ sent' = [g \in Runs |-> NoMsg]
    /\ semaphore' = 0 /\ releasing' = 0 /\ managerChan' = <<>> /\ panicked' = FALSE
    /\ L' = "free" /\ schedule' = {}
    /\ hpc' = "idle" /\ hcmd' = "none" /\ hjob' = NoJob /\ hchan' = NoChan
    /\ spc' = "register" /\ smsg' = NoMsg /\ sjob' = NoJob
    /\ server' = FALSE /\ via' = None
    /\ wcmd' = [c \in Clients |-> IF wcmd[c] \in {"sent", "taken"} THEN "failed"
                                  ELSE wcmd[c]]
    /\ UNCHANGED <<haltVars, ncmds, mVars, told>>

\* No request is being served and the scheduler is at its select.
AtRest ==
    /\ \A h \in Threads : Idle(h)
    /\ L = "free" /\ spc = "select"

SysRest == (AtRest \/ panicked) /\ UNCHANGED sysVars

SysNext ==
    \/ ~panicked /\ (WorkerStep \/ Reporting \/ Commands)
    \/ \E h \in Threads : ManagerStep(h)
    \/ Crash
    \/ SysRest

SysSpec == SysInit /\ [][SysNext]_sysVars

-----------------------------------------------------------------------------
\* What the manager stores and what the worker does agree once nothing is
\* under way: a job that is stored as disabled has no goroutine, and one that
\* is stored as paused will not run by itself, wherever the worker died between
\* the manager's write and the end of the command.
QuietAgreement ==
    \A j \in Jobs : AtRest /\ QuietFor(j) /\ ~panicked =>
        /\ Stored(j) = "disabled" => state[j] = "disabled"
        /\ Stored(j) = "paused" => state[j] \in {"paused", "disabled"}

\* What is stored as stopped is stopped: however many commands and reports
\* overlap, a job that is stored as paused or disabled will not run by itself
\* once nothing is under way.  (Which of the two it is may differ.)
StoppedAgreement ==
    \A j \in Jobs : AtRest /\ QuietFor(j) /\ ~panicked =>
        (Stored(j) \in {"paused", "disabled"} => state[j] \in {"paused", "disabled"})

\* The manager shows the sync that is in progress: once the scheduler has
\* delivered what it got, a job whose provider is at work is stored as syncing,
\* whatever was stored when the worker died or when a command started the job.
RunningShown ==
    \A g \in Runs :
        (/\ AtRest /\ managerChan = <<>> /\ ctrlChan[Job(g)] = NoCtrl
         /\ pc[g] = "wait" /\ At(g, "sync"))
            => Stored(Job(g)) = "syncing"

\* "even if the job did not disable successfully, this status should be set as
\* disabled": when tunasynctl has reported that it sent a disable and no other
\* command came in, the job is stored as disabled.
DisableRecorded ==
    \A c \in Clients :
        AtRest /\ Cmds = {"disable"} /\ told[c] = "success"
            => \A j \in Jobs : status[<<j, WorkerID>>].Status = "disabled"
=============================================================================
