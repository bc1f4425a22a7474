---------------------------- MODULE SystemProofs ----------------------------
(***************************************************************************)
(* Proofs about a worker and its manager together (module System), for any *)
(* number of jobs, Runs, clients and commands, and for a worker that may   *)
(* die at any point.                                                       *)
(***************************************************************************)
EXTENDS System, WorkerProofs

\* What the theorems assume: the HTTP server is up when the boot reads what the
\* manager stores, no request of the worker is given up, and the handler of one
\* of them is over before the next one is served, also after a restart.
Serial ==
    /\ Patient /\ ~ServerRace /\ ~Timeouts
    /\ \A p, q \in Reporters : p = q

-----------------------------------------------------------------------------
(***************************************************************************)
(* The invariant.                                                          *)
(***************************************************************************)

Booting == spc \in {"register", "boot", "fetch"}

\* The process is there and has no goroutine of a job yet.
Unborn ==
    /\ QuietInit
    /\ disabled = [j \in Jobs |-> NoChan]
    /\ pc = [g \in Runs |-> "off"]
    /\ schedule = {}
    /\ hpc = "idle" /\ hcmd = "none" /\ hjob = NoJob /\ hchan = NoChan
    /\ smsg = NoMsg /\ sjob = NoJob
    /\ L = IF spc = "fetch" THEN "sched" ELSE "free"

WorkerInv ==
    /\ IF Booting THEN Unborn ELSE WInv
    /\ mpc = "idle" /\ hleft = {} /\ hcur = NoJob /\ exit = FALSE

\* Runs report on their own job, and a run that starts its provider has
\* reported Syncing.
OutInv ==
    \A g \in Runs : out[g] # NoMsg =>
        /\ out[g].name = Job(g)
        /\ rpc[g] \in {"start", "sync"} => out[g].status = "Syncing"

\* The requests of the worker and of clients.
JobReports ==
    [kind : {"job"}, worker : {WorkerID}, mirror : Jobs,
     status : {"pre-syncing", "syncing", "success", "failed"}, size : {"unknown"}]
ScheduleLists ==
    [kind : {"sched"}, worker : {WorkerID},
     schedules : Seq([mirror : Jobs, time : {1}]) \ {<<>>}]
ClientRequests == [kind : Cmds, worker : {WorkerID}, mirror : Jobs]
Messages == {Registration} \cup JobReports \cup ScheduleLists \cup ClientRequests

MgrTypes ==
    /\ workers \in [{WorkerID} -> Mgr!WorkerStatus \cup {None}]
    /\ status \in [Jobs \X {WorkerID} -> Mgr!MirrorStatus \cup {None}]
    /\ mgrpc \in [Threads -> Mgr!PC]
    /\ req \in [Threads -> Messages \cup {None}]
    /\ cur \in [Threads -> Mgr!MirrorStatus \cup {None}]
    /\ worker \in [Threads -> Mgr!WorkerStatus \cup {None}]

\* Where the handler of a request r of the worker may be, with copy m of a
\* record, and what it has computed.
ReporterOK(x, r, m) ==
    x # "idle" =>
        \/ r = Registration /\ x = "change"
        \/ /\ r \in JobReports \cup ScheduleLists
           /\ x \in {"validate", "get", "put", "read", "compute", "write"}
           /\ x \in {"compute", "write"} => m \in Mgr!MirrorStatus
           /\ x = "write" /\ r.kind = "job" => m.Name = r.mirror /\ m.Status = r.status

ReporterInv == \A p \in Reporters : ReporterOK(mgrpc[p], req[p], cur[p])

\* Where the handler of a command may be.
ClientOK(x, r, m) ==
    x # "idle" =>
        /\ r \in ClientRequests
        /\ x \in {"lookup", "cmdread", "write", "post"}
        /\ x = "write" => /\ r.kind \in {"stop", "disable"} /\ m \in Mgr!MirrorStatus
                          /\ m.Status = Mgr!NewStatus[r.kind]

ClientInv == \A c \in Clients : ClientOK(mgrpc[c], req[c], cur[c])

\* Where the command is that the handler has posted.
PostInv ==
    /\ wcmd \in [Clients -> {"none", "sent", "taken", "done", "failed"}]
    /\ \A c \in Clients : /\ wcmd[c] # "none" => mgrpc[c] = "post"
                          /\ wcmd[c] \in {"sent", "taken"} => server

\* What the worker knows of its own request.
LinkInv ==
    /\ via \in Reporters \cup {None}
    /\ via # None => spc \in {"register", "update", "report"}
    /\ spc \in {"register", "boot"} => ~server
    /\ ~Booting => server
    /\ spc # "register" => workers[WorkerID] # None
    /\ spc # "register" /\ via = None => \A p \in Reporters : Idle(p)
    /\ via # None /\ Idle(via) => workers[WorkerID] # None
    /\ via # None /\ ~Idle(via) =>
          /\ spc = "register" => req[via] = Registration
          /\ spc = "update" => req[via] = StatusReport(smsg)
          /\ spc = "report" => req[via].kind = "sched"

BaseInv ==
    /\ WorkerInv /\ OutInv /\ MgrTypes /\ ReporterInv /\ ClientInv /\ PostInv
    /\ LinkInv

\* What record m says of job j.
Shown(m, j) == IF m # None /\ m.Name = j THEN m.Status ELSE "none"

\* The handlers of a schedule report that have read the record of j and are
\* about to write it back.
Holding(j) ==
    {p \in Reporters : /\ mgrpc[p] \in {"compute", "write"} /\ req[p].kind = "sched"
                       /\ Mgr!Key(p) = <<j, WorkerID>>}

\* The record of j that is stored, and the one that may be written back.
Copies(j) == {status[<<j, WorkerID>>]} \cup {cur[p] : p \in Holding(j)}

\* A command in K that has been stored, if it is one to store, and has still to
\* reach the control loop of job j: the manager posts it, the handler of the
\* worker has it, or it is in ctrlChan.
DuePost(j, K) ==
    \E c \in Clients : /\ mgrpc[c] = "post" /\ wcmd[c] \in {"none", "sent"}
                       /\ req[c].mirror = j /\ req[c].kind \in K
DueCmd(j, K) == hpc \in {"branch", "send"} /\ hjob = j /\ hcmd \in K
DueCtrl(j, K) == \E k \in K : ctrlChan[j] = Ctrl[k]

Due(j, K) == DuePost(j, K) \/ DueCmd(j, K) \/ DueCtrl(j, K)

\* The scheduler has got a message whose status is not yet stored.
Unwritten ==
    \/ spc \in {"lookup", "check"}
    \/ spc = "update" /\ (via # None => ~Idle(via))

\* A run of job j will report, or has reported, what is not yet stored.
Tells(g) ==
    \/ pc[g] \in {"loop", "restarting"}
    \/ pc[g] = "wait" /\ (rpc[g] = "sem" \/ out[g] # NoMsg)

ReportDue(j) ==
    \/ \E g \in Runs : Job(g) = j /\ Tells(g)
    \/ \E i \in 1..Len(managerChan) : managerChan[i].name = j
    \/ Unwritten /\ smsg.name = j

Stops == {"stop", "disable"}

\* A job that is stored as stopped is, or is about to be, or is running again
\* and about to say so.
StopOK(j) ==
    \/ state[j] \in {"paused", "disabled"}
    \/ Due(j, Stops)
    \/ state[j] = "ready" /\ ReportDue(j)

StopInv ==
    ~Booting =>
        \A j \in Jobs : \A m \in Copies(j) :
            Shown(m, j) \in {"paused", "disabled"} => StopOK(j)

\* The last message for job j in managerChan says Syncing.
LastSyncing(j) ==
    \E i \in 1..Len(managerChan) :
        /\ managerChan[i].name = j /\ managerChan[i].status = "Syncing"
        /\ \A k \in (i + 1)..Len(managerChan) : managerChan[k].name # j

NoneQueued(j) == \A i \in 1..Len(managerChan) : managerChan[i].name # j

\* A run whose provider is at work is shown, or a report says so, or it is
\* about to be stopped.
ShownOrTold(j) ==
    \/ Due(j, Stops)
    \/ LastSyncing(j)
    \/ /\ NoneQueued(j)
       /\ \/ Unwritten /\ smsg.name = j /\ smsg.status = "Syncing"
          \/ /\ Unwritten => smsg.name # j
             /\ \A m \in Copies(j) : Shown(m, j) = "syncing"

\* Run g is at work and has reported Syncing.
Working(g) == pc[g] = "wait" /\ rpc[g] \in {"start", "sync"} /\ out[g] = NoMsg

ShowInv == ~Booting => \A g \in Runs : Working(g) => ShownOrTold(Job(g))

-----------------------------------------------------------------------------
\* No stop is on its way, and none will be.
StopsOver ==
    /\ "stop" \notin Cmds \/ ncmds >= MaxCmds
    /\ \A c \in Clients : ~Idle(c) => req[c].kind # "stop"
    /\ hcmd # "stop"
    /\ \A j \in Jobs : ctrlChan[j] # "jobStop"

\* A disabled job is left alone.
DisabledIdle == \A g \in Runs : state[Job(g)] = "disabled" => pc[g] \in {"off", "leaving"}

\* No start is on its way, and none will be.
StartsOver ==
    /\ "start" \notin Cmds \/ ncmds >= MaxCmds
    /\ \A c \in Clients : ~Idle(c) => req[c].kind # "start"
    /\ hcmd \notin Starting
    /\ DisabledIdle

\* No command has been given, and at most one will be.
NoneGiven ==
    /\ ncmds = 0 /\ MaxCmds <= 1
    /\ \A c \in Clients : Idle(c)
    /\ hpc = "idle" /\ hcmd = "none"
    /\ \A j \in Jobs : ctrlChan[j] # "jobStop"
    /\ DisabledIdle

\* The clients do not both start and stop jobs.
Unmixed == MaxCmds <= 1 \/ "start" \notin Cmds \/ "stop" \notin Cmds

VerbInv == ncmds \in Nat /\ (StopsOver \/ StartsOver \/ NoneGiven)

\* A job that is stored as disabled is, or is about to be, or has been started
\* and is about to say so; in that case nothing will pause it.
DisableOK(j) ==
    \/ state[j] = "disabled"
    \/ Due(j, {"disable"})
    \/ StopsOver /\ state[j] = "ready" /\ ReportDue(j)

DisableInv ==
    ~Booting =>
        \A j \in Jobs : \A m \in Copies(j) :
            Shown(m, j) = "disabled" => DisableOK(j)

-----------------------------------------------------------------------------
(***************************************************************************)
(* The messages of the worker.                                             *)
(***************************************************************************)

\* A list of schedules names every scheduled job, and nothing else.
LEMMA SchedulesType ==
    ASSUME NEW S \in SUBSET Jobs, S # {}
    PROVE  Schedules(S) \in ScheduleLists
<1> DEFINE n == Cardinality(S)
           T == [mirror : S, time : {1}]
           good(s) == S = {s[i].mirror : i \in DOMAIN s}
<1>1. IsFiniteSet(S)
  BY FS_Subset, SystemAssumption
<1>2. n \in Nat /\ ExistsBijection(1..n, S)
  BY <1>1, FS_CardinalityType
<1>3. n # 0
  BY <1>1, FS_EmptySet
<1>4. PICK f : f \in Surjection(1..n, S)
  BY <1>2 DEF ExistsBijection, Bijection
<1> DEFINE w == [i \in 1..n |-> [mirror |-> f[i], time |-> 1]]
<1>5. f \in [1..n -> S] /\ \A x \in S : \E i \in 1..n : f[i] = x
  BY <1>4 DEF Surjection
<1>6. w \in [1..n -> T]
  BY <1>5
<1>7. good(w)
  <2>1. \A i \in 1..n : w[i].mirror = f[i]
    OBVIOUS
  <2>2. DOMAIN w = 1..n
    OBVIOUS
  <2> HIDE DEF w, n
  <2> QED
    BY <1>5, <2>1, <2>2
<1> DEFINE c == CHOOSE s \in [1..n -> T] : good(s)
<1>8. c \in [1..n -> T]
  <2> HIDE DEF good, w, T, n
  <2> QED
    BY <1>6, <1>7
<1>9. c \in Seq([mirror : Jobs, time : {1}]) /\ c # <<>>
  <2> DEFINE U == [mirror : Jobs, time : {1}]
  <2>1. T \subseteq U
    OBVIOUS
  <2> HIDE DEF c, T, U
  <2>2. c \in [1..n -> U]
    BY <1>8, <2>1
  <2> HIDE DEF n
  <2>3. c \in Seq(U) /\ Len(c) = n
    BY <1>2, <2>2
  <2>4. c # <<>>
    BY <1>3, <2>3
  <2> QED
    BY <2>3, <2>4 DEF U
<1>10. Schedules(S) = [kind |-> "sched", worker |-> WorkerID, schedules |-> c]
  BY DEF Schedules
<1> HIDE DEF c
<1> QED
  BY <1>9, <1>10 DEF ScheduleLists

\* A status report carries the status of the message and the name of its job.
LEMMA ReportType ==
    ASSUME NEW m \in jobMessage
    PROVE  /\ StatusReport(m) \in JobReports
           /\ StatusReport(m).mirror = m.name
           /\ m.status = "Syncing" => StatusReport(m).status = "syncing"
<1>1. m.name \in Jobs /\ m.status \in {"PreSyncing", "Syncing", "Success", "Failed"}
  BY DEF jobMessage
<1>2. /\ ReportedStatus[m.status] \in {"pre-syncing", "syncing", "success", "failed"}
      /\ m.status = "Syncing" => ReportedStatus[m.status] = "syncing"
  BY <1>1 DEF ReportedStatus
<1> QED
  BY <1>1, <1>2 DEF StatusReport, JobReports

LEMMA LongTail ==
    ASSUME NEW U, NEW q \in Seq(U), Len(q) > 1
    PROVE  Tail(q) \in Seq(U) /\ Tail(q) # <<>>
<1>1. Len(q) \in Nat /\ q # <<>>
  OBVIOUS
<1>2. Tail(q) \in Seq(U) /\ Len(Tail(q)) = Len(q) - 1
  BY <1>1
<1>3. Len(Tail(q)) # 0
  BY <1>1, <1>2
<1>4. Len(<<>>) = 0
  OBVIOUS
<1>5. Tail(q) # <<>>
  BY <1>3, <1>4, Zenon
<1> QED
  BY <1>2, <1>5

LEMMA ListTail ==
    ASSUME NEW r \in ScheduleLists, Len(r.schedules) > 1
    PROVE  [r EXCEPT !.schedules = Tail(@)] \in ScheduleLists
<1> DEFINE U == [mirror : Jobs, time : {1}]
<1>1. r.schedules \in Seq(U)
  BY DEF ScheduleLists
<1>2. Tail(r.schedules) \in Seq(U) /\ Tail(r.schedules) # <<>>
  <2> HIDE DEF U
  <2> QED
    BY <1>1, LongTail
<1> QED
  BY <1>2 DEF ScheduleLists

LEMMA ListHead ==
    ASSUME NEW r \in ScheduleLists
    PROVE  Head(r.schedules).mirror \in Jobs /\ Head(r.schedules).time = 1
<1> DEFINE U == [mirror : Jobs, time : {1}]
<1>1. r.schedules \in Seq(U) /\ r.schedules # <<>>
  BY DEF ScheduleLists
<1>2. Head(r.schedules) \in U
  <2> HIDE DEF U
  <2> QED
    BY <1>1
<1> QED
  BY <1>2
-----------------------------------------------------------------------------
(***************************************************************************)
(* The handlers of the manager.                                            *)
(***************************************************************************)

\* Handler h goes to place x, with request r and copy m of a record.
Moved(h, x, r, m) ==
    /\ mgrpc' = [mgrpc EXCEPT ![h] = x]
    /\ req' = [req EXCEPT ![h] = r]
    /\ cur' = [cur EXCEPT ![h] = m]

\* The database and the copies of the worker record keep their types, and a
\* worker that is registered stays so.
DbStep ==
    /\ workers' \in [{WorkerID} -> Mgr!WorkerStatus \cup {None}]
    /\ status' \in [Jobs \X {WorkerID} -> Mgr!MirrorStatus \cup {None}]
    /\ worker' \in [Threads -> Mgr!WorkerStatus \cup {None}]
    /\ workers[WorkerID] # None => workers'[WorkerID] # None

MgrInv == MgrTypes /\ ReporterInv /\ ClientInv /\ PostInv /\ LinkInv

\* What a move must respect for the invariant to hold after it.
LEMMA MoveKeeps ==
    ASSUME MgrInv, NEW h \in Threads, NEW x \in Mgr!PC, NEW r \in Messages \cup {None},
           NEW m \in Mgr!MirrorStatus \cup {None}, Moved(h, x, r, m), DbStep,
           mgrpc[h] \notin {"idle", "post"}, UNCHANGED <<wVars, netVars>>,
           h \in Reporters => ReporterOK(x, r, m),
           h \in Clients => ClientOK(x, r, m),
           x = "idle" => workers'[WorkerID] # None \/ (workers[WorkerID] = None /\ h # via),
           x # "idle" => r = req[h] \/ (r \in ScheduleLists /\ req[h] \in ScheduleLists)
    PROVE  MgrInv'
<1> USE DEF MgrInv
<1>1. MgrTypes'
  BY DEF MgrTypes, Moved, DbStep
<1>2. ASSUME NEW t \in Threads
      PROVE  /\ t = h => mgrpc'[t] = x /\ req'[t] = r /\ cur'[t] = m
             /\ t # h => mgrpc'[t] = mgrpc[t] /\ req'[t] = req[t] /\ cur'[t] = cur[t]
  BY DEF MgrTypes, Moved
<1>3. Reporters \subseteq Threads /\ Clients \subseteq Threads /\ Reporters \cap Clients = {}
  BY SystemAssumption DEF Threads
<1>4. ReporterInv'
  <2> SUFFICES ASSUME NEW p \in Reporters PROVE ReporterOK(mgrpc'[p], req'[p], cur'[p])
    BY DEF ReporterInv, ReporterOK
  <2>1. CASE p = h
    BY <1>2, <1>3, <2>1
  <2>2. CASE p # h
    BY <1>2, <1>3, <2>2 DEF ReporterInv
  <2> QED
    BY <2>1, <2>2
<1>5. ClientInv'
  <2> SUFFICES ASSUME NEW c \in Clients PROVE ClientOK(mgrpc'[c], req'[c], cur'[c])
    BY DEF ClientInv, ClientOK
  <2>1. CASE c = h
    BY <1>2, <1>3, <2>1
  <2>2. CASE c # h
    BY <1>2, <1>3, <2>2 DEF ClientInv
  <2> QED
    BY <2>1, <2>2
<1>6. PostInv'
  <2> SUFFICES ASSUME NEW c \in Clients, wcmd[c] # "none" PROVE mgrpc'[c] = "post"
    BY DEF PostInv, netVars
  <2>1. mgrpc[c] = "post" /\ c # h
    BY DEF PostInv
  <2> QED
    BY <1>2, <1>3, <2>1
<1>7. LinkInv'
  <2>1. UNCHANGED <<spc, smsg, via, server>>
    BY DEF wVars, workerVars, schedVars, netVars
  <2>2. ASSUME NEW p \in Reporters, Idle(p) PROVE Idle(p)'
    BY <1>2, <1>3, <2>2 DEF Idle
  <2>3. ASSUME via # None PROVE via \in Reporters
    BY <2>3 DEF LinkInv
  <2>4. ASSUME via # None, Idle(via)' PROVE workers'[WorkerID] # None
    <3>1. CASE via = h
      BY <1>2, <1>3, <2>1, <2>3, <2>4, <3>1 DEF Idle
    <3>2. CASE via # h
      BY <1>2, <1>3, <2>1, <2>3, <2>4, <3>2 DEF Idle, LinkInv, DbStep
    <3> QED
      BY <3>1, <3>2
  <2>5. ASSUME via # None, ~Idle(via)'
        PROVE  /\ ~Idle(via)
               /\ \/ req'[via] = req[via]
                  \/ req'[via] \in ScheduleLists /\ req[via] \in ScheduleLists
    <3>1. CASE via = h
      BY <1>2, <1>3, <2>1, <2>3, <2>5, <3>1 DEF Idle
    <3>2. CASE via # h
      BY <1>2, <1>3, <2>1, <2>3, <2>5, <3>2 DEF Idle
    <3> QED
      BY <3>1, <3>2
  <2>6. ASSUME NEW q \in ScheduleLists
        PROVE  q.kind = "sched" /\ q # Registration /\ q # StatusReport(smsg)
    BY <2>6 DEF ScheduleLists, Registration, StatusReport
  <2>7. Booting' = Booting /\ StatusReport(smsg)' = StatusReport(smsg)
    BY <2>1 DEF Booting, StatusReport
  <2>8. /\ spc # "register" => workers'[WorkerID] # None
        /\ spc # "register" /\ via = None => \A p \in Reporters : Idle(p)'
    BY <2>2 DEF LinkInv, DbStep
  <2>9. via # None /\ ~Idle(via)' =>
          /\ spc = "register" => req'[via] = Registration
          /\ spc = "update" => req'[via] = StatusReport(smsg)
          /\ spc = "report" => req'[via].kind = "sched"
    BY <2>5, <2>6 DEF LinkInv
  <2> QED
    BY <2>1, <2>4, <2>7, <2>8, <2>9 DEF LinkInv, Idle
<1> QED
  BY <1>1, <1>4, <1>5, <1>6, <1>7
\* The key of the record that request r is about.
KeyOf(r) ==
    <<IF r.kind = "sched" THEN Head(r.schedules).mirror ELSE r.mirror, r.worker>>

LEMMA KeyType ==
    ASSUME NEW r \in JobReports \cup ScheduleLists \cup ClientRequests
    PROVE  /\ KeyOf(r) \in Jobs \X {WorkerID}
           /\ r \notin ScheduleLists => KeyOf(r) = <<r.mirror, WorkerID>>
<1>1. CASE r \in ScheduleLists
  <2>1. r.kind = "sched" /\ r.worker = WorkerID
    BY <1>1 DEF ScheduleLists
  <2> QED
    BY <1>1, <2>1, ListHead DEF KeyOf
<1>2. CASE r \in JobReports \cup ClientRequests
  <2>1. r.kind # "sched" /\ r.worker = WorkerID /\ r.mirror \in Jobs
    BY <1>2, SystemAssumption DEF JobReports, ClientRequests
  <2> QED
    BY <2>1 DEF KeyOf
<1> QED
  BY <1>1, <1>2

\* After a move of h the copies of j are what is stored and what a handler has
\* in hand, its own or, for the handler of a command, the one it was.
LEMMA MoveCopies ==
    ASSUME MgrTypes, Serial, NEW h \in Threads, NEW x, NEW r, NEW m, Moved(h, x, r, m),
           NEW j \in Jobs, NEW n, n \in Copies(j)'
    PROVE  \/ n = status'[<<j, WorkerID>>]
           \/ h \in Clients /\ n \in Copies(j)
           \/ /\ h \in Reporters /\ n = m /\ x \in {"compute", "write"}
              /\ r.kind = "sched" /\ KeyOf(r) = <<j, WorkerID>>
<1> SUFFICES ASSUME NEW p \in Reporters, n = cur'[p], p \in Holding(j)'
             PROVE  \/ h \in Clients /\ n \in Copies(j)
                    \/ /\ h \in Reporters /\ n = m /\ x \in {"compute", "write"}
                       /\ r.kind = "sched" /\ KeyOf(r) = <<j, WorkerID>>
  BY DEF Copies, Holding
<1>1. /\ mgrpc'[p] \in {"compute", "write"} /\ req'[p].kind = "sched"
      /\ KeyOf(req'[p]) = <<j, WorkerID>>
  BY DEF Holding, Mgr!Key, KeyOf
<1>2. p \in Threads
  BY DEF Threads
<1>3. CASE p = h
  <2>1. mgrpc'[p] = x /\ req'[p] = r /\ cur'[p] = m
    BY <1>2, <1>3 DEF MgrTypes, Moved
  <2> QED
    BY <1>1, <1>3, <2>1
<1>4. CASE p # h
  <2>1. mgrpc'[p] = mgrpc[p] /\ req'[p] = req[p] /\ cur'[p] = cur[p]
    BY <1>2, <1>4 DEF MgrTypes, Moved
  <2>2. p \in Holding(j)
    BY <1>1, <2>1 DEF Holding, Mgr!Key, KeyOf
  <2>3. h \in Clients
    BY <1>4 DEF Serial, Threads
  <2> QED
    BY <2>1, <2>2, <2>3 DEF Copies
<1> QED
  BY <1>3, <1>4

\* The handlers' common endings.
LEMMA EndMoves ==
    ASSUME MgrTypes, NEW h \in Threads
    PROVE  /\ Mgr!Respond(h) =>
                  Moved(h, "idle", None, None) /\ worker' = [worker EXCEPT ![h] = None]
           /\ \A x : Mgr!Goto(h, x) /\ UNCHANGED cur => Moved(h, x, req[h], cur[h])
<1>1. /\ req = [req EXCEPT ![h] = req[h]]
      /\ cur = [cur EXCEPT ![h] = cur[h]]
  BY DEF MgrTypes
<1> QED
  BY <1>1 DEF Mgr!Respond, Mgr!Goto, Moved

LEMMA FinishMoves ==
    ASSUME MgrTypes, NEW h \in Threads, Mgr!Finish(h),
           req[h] \in JobReports \cup ScheduleLists
    PROVE  /\ worker' = [worker EXCEPT ![h] = None]
           /\ \/ Moved(h, "idle", None, None)
              \/ /\ req[h] \in ScheduleLists
                 /\ \E r \in ScheduleLists : Moved(h, "get", r, None)
<1>1. CASE Mgr!Respond(h)
  BY <1>1, EndMoves
<1>2. CASE ~Mgr!Respond(h)
  <2> DEFINE r == [req[h] EXCEPT !.schedules = Tail(@)]
  <2>1. /\ req[h].kind = "sched" /\ Len(req[h].schedules) > 1
        /\ req' = [req EXCEPT ![h].schedules = Tail(@)]
        /\ mgrpc' = [mgrpc EXCEPT ![h] = "get"]
        /\ cur' = [cur EXCEPT ![h] = None]
        /\ worker' = [worker EXCEPT ![h] = None]
    BY <1>2 DEF Mgr!Finish
  <2>2. req[h] \in ScheduleLists
    BY <2>1 DEF JobReports
  <2>3. r \in ScheduleLists
    BY <2>1, <2>2, ListTail
  <2>4. req' = [req EXCEPT ![h] = r]
    BY <2>1
  <2> HIDE DEF r
  <2>5. Moved(h, "get", r, None)
    BY <2>1, <2>4 DEF Moved
  <2> QED
    BY <2>1, <2>2, <2>3, <2>5
<1> QED
  BY <1>1, <1>2

\* What a step of handler h may make of the copies of a record: nothing new, or
\* what a command or a status report stores.
CopyStep(h) ==
    \A j \in Jobs : \A m \in Copies(j)' :
        \/ \E n \in Copies(j) : Shown(m, j) = Shown(n, j)
        \/ /\ h \in Clients /\ mgrpc[h] = "write" /\ mgrpc'[h] = "post"
           /\ req[h].mirror = j /\ req'[h] = req[h]
           /\ Shown(m, j) \in {"none", Mgr!NewStatus[req[h].kind]}
        \/ /\ h \in Reporters /\ mgrpc[h] = "write" /\ mgrpc'[h] = "idle"
           /\ req[h] \in JobReports /\ req[h].mirror = j
           /\ Shown(m, j) = req[h].status
LEMMA NewStatuses ==
    /\ Mgr!NewStatus["stop"] = "paused" /\ Mgr!NewStatus["disable"] = "disabled"
    /\ \A k \in {"stop", "disable"} : Mgr!NewStatus[k] \in {"paused", "disabled"}
BY DEF Mgr!NewStatus

\* The records that the handlers make are records, and this is what they say.
LEMMA RecordTypes ==
    /\ Mgr!Zero \in Mgr!MirrorStatus /\ Mgr!Zero.Name = "" /\ Mgr!Zero.Status = "none"
    /\ \A old \in Mgr!MirrorStatus, r \in JobReports :
          /\ Mgr!JobStatus(old, r) \in Mgr!MirrorStatus
          /\ Mgr!JobStatus(old, r).Name = r.mirror
          /\ Mgr!JobStatus(old, r).Status = r.status
    /\ \A old \in Mgr!MirrorStatus :
          /\ [old EXCEPT !.Scheduled = 1] \in Mgr!MirrorStatus
          /\ [old EXCEPT !.Scheduled = 1].Name = old.Name
          /\ [old EXCEPT !.Scheduled = 1].Status = old.Status
    /\ \A old \in Mgr!MirrorStatus, k \in {"stop", "disable"} :
          /\ [old EXCEPT !.Status = Mgr!NewStatus[k]] \in Mgr!MirrorStatus
          /\ [old EXCEPT !.Status = Mgr!NewStatus[k]].Status = Mgr!NewStatus[k]
          /\ Mgr!NewStatus[k] \in {"paused", "disabled"}
<1>0. /\ 0 \in Mgr!Time /\ 1 \in Mgr!Time
      /\ {"none", "pre-syncing", "syncing", "success", "failed", "paused", "disabled"}
             \subseteq Mgr!Sync
      /\ "" \in Mgr!Sizes /\ "unknown" \in Mgr!Sizes
  BY DEF Mgr!Time, Mgr!Sync, Mgr!Sizes
<1> USE <1>0 DEF Mgr!MirrorStatus
<1>1. Mgr!Zero \in Mgr!MirrorStatus /\ Mgr!Zero.Name = "" /\ Mgr!Zero.Status = "none"
  BY DEF Mgr!Zero
<1>2. ASSUME NEW old \in Mgr!MirrorStatus, NEW r \in JobReports
      PROVE  /\ Mgr!JobStatus(old, r) \in Mgr!MirrorStatus
             /\ Mgr!JobStatus(old, r).Name = r.mirror
             /\ Mgr!JobStatus(old, r).Status = r.status
  <2>1. r.mirror \in Jobs /\ r.status \in Mgr!Sync /\ r.size \in Mgr!Sizes
    BY DEF JobReports
  <2> QED
    BY <2>1 DEF Mgr!JobStatus, Mgr!KeptSize
<1>3. ASSUME NEW old \in Mgr!MirrorStatus
      PROVE  /\ [old EXCEPT !.Scheduled = 1] \in Mgr!MirrorStatus
             /\ [old EXCEPT !.Scheduled = 1].Name = old.Name
             /\ [old EXCEPT !.Scheduled = 1].Status = old.Status
  OBVIOUS
<1>4. ASSUME NEW old \in Mgr!MirrorStatus, NEW k \in {"stop", "disable"}
      PROVE  /\ [old EXCEPT !.Status = Mgr!NewStatus[k]] \in Mgr!MirrorStatus
             /\ [old EXCEPT !.Status = Mgr!NewStatus[k]].Status = Mgr!NewStatus[k]
             /\ Mgr!NewStatus[k] \in {"paused", "disabled"}
  <2>1. Mgr!NewStatus[k] \in {"paused", "disabled"}
    BY NewStatuses
  <2>2. ASSUME NEW s \in Mgr!Sync
        PROVE  /\ [old EXCEPT !.Status = s] \in Mgr!MirrorStatus
               /\ [old EXCEPT !.Status = s].Status = s
    OBVIOUS
  <2>3. Mgr!NewStatus[k] \in Mgr!Sync
    BY <2>1
  <2> HIDE DEF Mgr!MirrorStatus
  <2> QED
    BY <2>1, <2>2, <2>3
<1> QED
  BY <1>1, <1>2, <1>3, <1>4

\* A handler that stores nothing.
DbQuiet == UNCHANGED <<workers, status>>

LEMMA QuietDb ==
    ASSUME MgrTypes, DbQuiet, NEW h \in Threads,
           \/ UNCHANGED worker
           \/ worker' = [worker EXCEPT ![h] = None]
           \/ worker' = [worker EXCEPT ![h] = workers[WorkerID]]
    PROVE  DbStep
<1>1. workers[WorkerID] \in Mgr!WorkerStatus \cup {None}
  BY DEF MgrTypes
<1>2. worker' \in [Threads -> Mgr!WorkerStatus \cup {None}]
  BY <1>1 DEF MgrTypes
<1> QED
  BY <1>2 DEF MgrTypes, DbStep, DbQuiet
\* A move that stores nothing makes no new copy, but for the record that the
\* handler of a schedule report takes in hand.
LEMMA QuietCopies ==
    ASSUME MgrTypes, Serial, NEW h \in Threads, NEW x, NEW r, NEW m, Moved(h, x, r, m),
           UNCHANGED status,
           \A j \in Jobs : (/\ h \in Reporters /\ x \in {"compute", "write"}
                           /\ r.kind = "sched" /\ KeyOf(r) = <<j, WorkerID>>) =>
               \E n \in Copies(j) : Shown(m, j) = Shown(n, j)
    PROVE  CopyStep(h)
<1> SUFFICES ASSUME NEW j \in Jobs, NEW n \in Copies(j)'
             PROVE  \E o \in Copies(j) : Shown(n, j) = Shown(o, j)
  BY DEF CopyStep
<1>1. status[<<j, WorkerID>>] \in Copies(j)
  BY DEF Copies
<1> QED
  BY <1>1, MoveCopies

LEMMA NoCopies ==
    ASSUME MgrTypes, Serial, NEW h \in Threads, NEW x, NEW r, NEW m, Moved(h, x, r, m),
           UNCHANGED status, h \notin Reporters \/ x \notin {"compute", "write"}
    PROVE  CopyStep(h)
BY QuietCopies

\* A handler that answers lets the worker go on only if that is registered.
LEMMA NotVia ==
    ASSUME MgrInv, NEW h \in Reporters, ~Idle(h), req[h] \in JobReports \cup ScheduleLists,
           DbStep
    PROVE  workers'[WorkerID] # None \/ (workers[WorkerID] = None /\ h # via)
<1>1. req[h] # Registration
  BY DEF JobReports, ScheduleLists, Registration
<1>2. h # None
  BY SystemAssumption
<1>3. ASSUME workers[WorkerID] = None PROVE h # via
  <2>1. spc = "register"
    BY <1>3 DEF MgrInv, LinkInv
  <2> QED
    BY <1>1, <1>2, <2>1 DEF MgrInv, LinkInv, Idle
<1>4. workers[WorkerID] # None => workers'[WorkerID] # None
  BY DEF DbStep
<1> QED
  BY <1>3, <1>4

LEMMA FinishKeeps ==
    ASSUME MgrInv, NEW h \in Reporters, mgrpc[h] \notin {"idle", "post"},
           req[h] \in JobReports \cup ScheduleLists, Mgr!Finish(h), DbStep,
           UNCHANGED <<wVars, netVars>>
    PROVE  /\ MgrInv'
           /\ req[h] \in JobReports => mgrpc'[h] = "idle"
           /\ \E x \in {"idle", "get"} : \E r, m : Moved(h, x, r, m)
<1>1. h \in Threads /\ h \notin Clients /\ MgrTypes /\ ~Idle(h)
  BY SystemAssumption DEF Threads, MgrInv, Idle
<1>2. {"idle", "get"} \subseteq Mgr!PC
  BY DEF Mgr!PC
<1>3. CASE Moved(h, "idle", None, None)
  <2>1. ReporterOK("idle", None, None)
    BY DEF ReporterOK
  <2>2. MgrInv'
    BY <1>1, <1>2, <1>3, <2>1, NotVia, MoveKeeps
  <2>3. mgrpc'[h] = "idle"
    BY <1>1, <1>3 DEF Moved, MgrTypes
  <2> QED
    BY <1>3, <2>2, <2>3
<1>4. ASSUME req[h] \in ScheduleLists, NEW r \in ScheduleLists, Moved(h, "get", r, None)
      PROVE  MgrInv' /\ req[h] \notin JobReports
  <2>1. ReporterOK("get", r, None)
    BY <1>4 DEF ReporterOK, ScheduleLists
  <2>2. r \in Messages
    BY <1>4 DEF Messages
  <2>3. MgrInv'
    BY <1>1, <1>2, <1>4, <2>1, <2>2, MoveKeeps
  <2> QED
    BY <1>4, <2>3 DEF ScheduleLists, JobReports
<1> QED
  BY <1>1, <1>3, <1>4, FinishMoves
\* A step of the handler of a request of the worker.
LEMMA ReporterSteps ==
    ASSUME MgrInv, Serial, NEW h \in Reporters, ManagerStep(h)
    PROVE  MgrInv' /\ CopyStep(h)
<1>1. h \in Threads /\ h \notin Clients /\ MgrTypes /\ UNCHANGED <<wVars, netVars>>
  BY SystemAssumption DEF Threads, MgrInv, ManagerStep
<1>2. mgrpc[h] \notin {"idle", "post"} /\ ~Idle(h)
  <2>1. mgrpc[h] # "idle"
    BY DEF ManagerStep, Mgr!Validate, Mgr!Register, Mgr!RefreshGet, Mgr!RefreshPut,
       Mgr!Read, Mgr!Compute, Mgr!Write, Mgr!Lookup, Mgr!CmdRead
  <2> QED
    BY <2>1 DEF MgrInv, ReporterInv, ReporterOK, Idle
<1>3. ReporterOK(mgrpc[h], req[h], cur[h])
  BY DEF MgrInv, ReporterInv
<1>4. /\ workers[WorkerID] \in Mgr!WorkerStatus \cup {None}
      /\ worker[h] \in Mgr!WorkerStatus \cup {None}
      /\ req[h] \in Messages \cup {None}
      /\ cur[h] \in Mgr!MirrorStatus \cup {None}
  BY <1>1 DEF MgrTypes
<1>5. CASE req[h] = Registration
  <2>1. mgrpc[h] = "change" /\ req[h].worker = WorkerID
    BY <1>2, <1>3, <1>5 DEF ReporterOK, Registration, JobReports, ScheduleLists
  <2>2. Mgr!Register(h)
    BY <2>1 DEF ManagerStep, Mgr!Validate, Mgr!RefreshGet, Mgr!RefreshPut,
       Mgr!Read, Mgr!Compute, Mgr!Write, Mgr!Lookup, Mgr!CmdRead
  <2>3. /\ workers' = [workers EXCEPT ![WorkerID] = [LastOnline |-> 0, LastRegister |-> 0]]
        /\ UNCHANGED status /\ Mgr!Respond(h)
    BY <2>1, <2>2 DEF Mgr!Register
  <2>4. Moved(h, "idle", None, None) /\ worker' = [worker EXCEPT ![h] = None]
    BY <1>1, <2>3, EndMoves
  <2>5. [LastOnline |-> 0, LastRegister |-> 0] \in Mgr!WorkerStatus
    BY DEF Mgr!WorkerStatus, Mgr!Time
  <2>6. DbStep /\ workers'[WorkerID] # None
    BY <1>1, <2>3, <2>4, <2>5, NoneAssumption DEF DbStep, MgrTypes
  <2>7. "idle" \in Mgr!PC /\ ReporterOK("idle", None, None)
    BY DEF Mgr!PC, ReporterOK
  <2>8. MgrInv'
    BY <1>1, <1>2, <2>4, <2>6, <2>7, MoveKeeps
  <2>9. CopyStep(h)
    BY <1>1, <2>3, <2>4, NoCopies
  <2> QED
    BY <2>8, <2>9
<1>6. CASE req[h] # Registration
  <2> DEFINE r == req[h]
  <2>1. /\ r \in JobReports \cup ScheduleLists
        /\ mgrpc[h] \in {"validate", "get", "put", "read", "compute", "write"}
        /\ mgrpc[h] \in {"compute", "write"} => cur[h] \in Mgr!MirrorStatus
        /\ mgrpc[h] = "write" /\ r.kind = "job" =>
               cur[h].Name = r.mirror /\ cur[h].Status = r.status
    BY <1>2, <1>3, <1>6 DEF ReporterOK
  <2>2. /\ r.worker = WorkerID /\ r.kind \in {"job", "sched"}
        /\ r.kind = "job" <=> r \in JobReports
        /\ r.kind = "sched" <=> r \in ScheduleLists
    BY <2>1 DEF JobReports, ScheduleLists
  <2>3. Mgr!Key(h) = KeyOf(r) /\ KeyOf(r) \in Jobs \X {WorkerID}
    BY <2>1, KeyType DEF Mgr!Key, KeyOf
  <2>4. /\ status[KeyOf(r)] \in Mgr!MirrorStatus \cup {None}
        /\ \A j \in Jobs : KeyOf(r) = <<j, WorkerID>> => status[KeyOf(r)] \in Copies(j)
    BY <1>1, <2>3 DEF MgrTypes, Copies
  <2>5. ASSUME r.kind = "sched", mgrpc[h] \in {"compute", "write"}, NEW j \in Jobs,
               KeyOf(r) = <<j, WorkerID>>
        PROVE  cur[h] \in Copies(j)
    BY <2>3, <2>5 DEF Copies, Holding
  <2>6. ASSUME NEW x \in {"get", "put", "read"}, Mgr!Goto(h, x), UNCHANGED <<cur, status>>,
               DbStep
        PROVE  MgrInv' /\ CopyStep(h)
    <3>1. Moved(h, x, r, cur[h])
      BY <1>1, <2>6, EndMoves
    <3>2. x \in Mgr!PC /\ ReporterOK(x, r, cur[h])
      BY <2>1, <2>6 DEF Mgr!PC, ReporterOK
    <3>3. MgrInv'
      BY <1>1, <1>2, <1>4, <2>6, <3>1, <3>2, MoveKeeps
    <3>4. CopyStep(h)
      BY <1>1, <2>6, <3>1, NoCopies
    <3> QED
      BY <3>3, <3>4
  <2>7. ASSUME Mgr!Finish(h), DbQuiet PROVE MgrInv' /\ CopyStep(h)
    <3>1. DbStep
      BY <1>1, <2>1, <2>7, FinishMoves, QuietDb
    <3>2. MgrInv' /\ \E x \in {"idle", "get"} : \E q, m : Moved(h, x, q, m)
      BY <1>1, <1>2, <2>1, <2>7, <3>1, FinishKeeps
    <3>3. CopyStep(h)
      BY <1>1, <2>7, <3>2, NoCopies DEF DbQuiet
    <3> QED
      BY <3>2, <3>3
  <2>8. ASSUME NEW m \in Mgr!MirrorStatus, NEW x \in {"compute", "write"},
               mgrpc' = [mgrpc EXCEPT ![h] = x], UNCHANGED req,
               cur' = [cur EXCEPT ![h] = m], UNCHANGED worker, DbQuiet,
               x = "write" /\ r.kind = "job" => m.Name = r.mirror /\ m.Status = r.status,
               \A j \in Jobs : r.kind = "sched" /\ KeyOf(r) = <<j, WorkerID>> =>
                   \E n \in Copies(j) : Shown(m, j) = Shown(n, j)
        PROVE  MgrInv' /\ CopyStep(h)
    <3>1. Moved(h, x, r, m)
      <4>1. req = [req EXCEPT ![h] = r]
        BY <1>1 DEF MgrTypes
      <4> QED
        BY <2>8, <4>1 DEF Moved
    <3>2. x \in Mgr!PC /\ ReporterOK(x, r, m) /\ x # "idle"
      BY <2>1, <2>8 DEF Mgr!PC, ReporterOK
    <3>3. DbStep
      BY <1>1, <2>8, QuietDb
    <3>4. MgrInv'
      BY <1>1, <1>2, <1>4, <2>8, <3>1, <3>2, <3>3, MoveKeeps
    <3>5. CopyStep(h)
      BY <1>1, <2>8, <3>1, QuietCopies DEF DbQuiet
    <3> QED
      BY <3>4, <3>5
  <2>9. CASE Mgr!Validate(h)
    <3>1. CASE Mgr!Respond(h)
      <4>1. Moved(h, "idle", None, None) /\ worker' = [worker EXCEPT ![h] = None]
        BY <1>1, <3>1, EndMoves
      <4>2. DbQuiet /\ DbStep
        BY <1>1, <2>9, <4>1, QuietDb DEF Mgr!Validate, DbQuiet, Mgr!dbVars
      <4>3. "idle" \in Mgr!PC /\ ReporterOK("idle", None, None)
        BY DEF Mgr!PC, ReporterOK
      <4>4. MgrInv'
        BY <1>1, <1>2, <2>1, <4>1, <4>2, <4>3, NotVia, MoveKeeps
      <4>5. CopyStep(h)
        BY <1>1, <4>1, <4>2, NoCopies DEF DbQuiet
      <4> QED
        BY <4>4, <4>5
    <3>2. CASE ~Mgr!Respond(h)
      <4>1. Mgr!Goto(h, "get") /\ UNCHANGED <<cur, worker>> /\ DbQuiet
        BY <2>2, <2>9, <3>2 DEF Mgr!Validate, DbQuiet, Mgr!dbVars
      <4>2. DbStep
        BY <1>1, <4>1, QuietDb
      <4> QED
        BY <2>6, <4>1, <4>2 DEF DbQuiet
    <3> QED
      BY <3>1, <3>2
  <2>10. CASE Mgr!RefreshGet(h)
    <3>1. /\ Mgr!Goto(h, "put") /\ UNCHANGED cur /\ DbQuiet
          /\ worker' = [worker EXCEPT ![h] = workers[WorkerID]]
      BY <2>2, <2>10 DEF Mgr!RefreshGet, DbQuiet, Mgr!dbVars
    <3>2. DbStep
      BY <1>1, <3>1, QuietDb
    <3> QED
      BY <2>6, <3>1, <3>2 DEF DbQuiet
  <2>11. CASE Mgr!RefreshPut(h)
    <3>1. /\ Mgr!Goto(h, "read") /\ UNCHANGED <<cur, status, worker>>
          /\ \/ UNCHANGED workers
             \/ /\ worker[h] # None
                /\ workers' = [workers EXCEPT ![WorkerID] = [worker[h] EXCEPT !.LastOnline = 0]]
      BY <2>2, <2>11 DEF Mgr!RefreshPut
    <3>2. ASSUME worker[h] # None
          PROVE  [worker[h] EXCEPT !.LastOnline = 0] \in Mgr!WorkerStatus
      BY <1>4, <3>2 DEF Mgr!WorkerStatus, Mgr!Time
    <3>3. DbStep
      BY <1>1, <3>1, <3>2, NoneAssumption DEF DbStep, MgrTypes
    <3> QED
      BY <2>6, <3>1, <3>3
  <2>12. CASE Mgr!Read(h)
    <3>1. CASE Mgr!Finish(h)
      BY <2>7, <2>12, <3>1 DEF Mgr!Read, DbQuiet, Mgr!dbVars
    <3>2. CASE ~Mgr!Finish(h)
      <4> DEFINE m == IF status[KeyOf(r)] = None THEN Mgr!Zero ELSE status[KeyOf(r)]
      <4>1. /\ status[KeyOf(r)] # None \/ r.kind = "job"
            /\ cur' = [cur EXCEPT ![h] = m] /\ DbQuiet
            /\ mgrpc' = [mgrpc EXCEPT ![h] = "compute"] /\ UNCHANGED <<req, worker>>
        BY <2>3, <2>12, <3>2 DEF Mgr!Read, Mgr!Goto, DbQuiet, Mgr!dbVars
      <4>2. m \in Mgr!MirrorStatus
        BY <2>4, RecordTypes
      <4>3. ASSUME NEW j \in Jobs, r.kind = "sched", KeyOf(r) = <<j, WorkerID>>
            PROVE  m \in Copies(j)
        BY <2>4, <4>1, <4>3
      <4> HIDE DEF m
      <4> QED
        BY <2>8, <4>1, <4>2, <4>3
    <3> QED
      BY <3>1, <3>2
  <2>13. CASE Mgr!Compute(h)
    <3>0. mgrpc[h] = "compute" /\ DbQuiet /\ cur[h] \in Mgr!MirrorStatus
      BY <2>1, <2>13 DEF Mgr!Compute, DbQuiet, Mgr!dbVars
    <3>1. CASE Mgr!Finish(h)
      BY <2>7, <3>0, <3>1
    <3>2. CASE ~Mgr!Finish(h)
      <4>1. /\ mgrpc' = [mgrpc EXCEPT ![h] = "write"] /\ UNCHANGED <<req, worker>>
            /\ \/ r.kind = "job" /\ cur' = [cur EXCEPT ![h] = Mgr!JobStatus(@, r)]
               \/ /\ r.kind = "sched"
                  /\ cur' = [cur EXCEPT ![h].Scheduled = Head(r.schedules).time]
        BY <2>2, <2>13, <3>2 DEF Mgr!Compute, Mgr!Goto
      <4>2. CASE r.kind = "job"
        <5> DEFINE m == Mgr!JobStatus(cur[h], r)
        <5>1. cur' = [cur EXCEPT ![h] = m]
          BY <4>1, <4>2
        <5>2. m \in Mgr!MirrorStatus /\ m.Name = r.mirror /\ m.Status = r.status
          BY <2>2, <3>0, <4>2, RecordTypes
        <5> HIDE DEF m
        <5> QED
          BY <2>8, <3>0, <4>1, <4>2, <5>1, <5>2
      <4>3. CASE r.kind = "sched"
        <5> DEFINE m == [cur[h] EXCEPT !.Scheduled = 1]
        <5>1. Head(r.schedules).time = 1
          BY <2>2, <4>3, ListHead
        <5>2. cur' = [cur EXCEPT ![h] = m]
          BY <4>1, <4>3, <5>1
        <5>3. m \in Mgr!MirrorStatus /\ m.Name = cur[h].Name /\ m.Status = cur[h].Status
          BY <3>0, RecordTypes
        <5> HIDE DEF m
        <5>4. ASSUME NEW j \in Jobs, KeyOf(r) = <<j, WorkerID>>
              PROVE  cur[h] \in Copies(j) /\ Shown(m, j) = Shown(cur[h], j)
          BY <2>5, <3>0, <4>3, <5>3, <5>4, NoneAssumption DEF Shown
        <5> QED
          BY <2>8, <3>0, <4>1, <4>3, <5>2, <5>3, <5>4
      <4> QED
        BY <2>2, <4>2, <4>3
    <3> QED
      BY <3>1, <3>2
  <2>14. CASE Mgr!Write(h)
    <3>1. /\ mgrpc[h] = "write" /\ cur[h] \in Mgr!MirrorStatus /\ Mgr!Finish(h)
          /\ status' = [status EXCEPT ![KeyOf(r)] = cur[h]] /\ UNCHANGED workers
      BY <2>1, <2>2, <2>3, <2>14 DEF Mgr!Write
    <3>2. worker' = [worker EXCEPT ![h] = None]
      BY <1>1, <2>1, <3>1, FinishMoves
    <3>3. DbStep
      <4>1. status' \in [Jobs \X {WorkerID} -> Mgr!MirrorStatus \cup {None}]
        BY <1>1, <2>3, <3>1 DEF MgrTypes
      <4>2. worker' \in [Threads -> Mgr!WorkerStatus \cup {None}]
        BY <1>1, <3>2 DEF MgrTypes
      <4> QED
        BY <1>1, <3>1, <4>1, <4>2 DEF DbStep, MgrTypes
    <3>4. /\ MgrInv' /\ (r \in JobReports => mgrpc'[h] = "idle")
          /\ \E x \in {"idle", "get"} : \E q, m : Moved(h, x, q, m)
      BY <1>1, <1>2, <2>1, <3>1, <3>3, FinishKeeps
    <3>5. ASSUME NEW j \in Jobs, NEW n \in Copies(j)'
          PROVE  n = status'[<<j, WorkerID>>]
      BY <1>1, <3>4, <3>5, MoveCopies
    <3>6. ASSUME NEW j \in Jobs, KeyOf(r) # <<j, WorkerID>>
          PROVE  status'[<<j, WorkerID>>] \in Copies(j)
      BY <1>1, <2>3, <3>1, <3>6 DEF MgrTypes, Copies
    <3>7. ASSUME NEW j \in Jobs, KeyOf(r) = <<j, WorkerID>>
          PROVE  status'[<<j, WorkerID>>] = cur[h]
      BY <1>1, <2>3, <3>1, <3>7 DEF MgrTypes
    <3>8. ASSUME NEW j \in Jobs, KeyOf(r) = <<j, WorkerID>>, r.kind = "job"
          PROVE  r.mirror = j /\ Shown(cur[h], j) = r.status
      <4>1. r.mirror = j
        BY <2>2, <3>8, KeyType DEF KeyOf
      <4> QED
        BY <2>1, <3>1, <3>8, <4>1, NoneAssumption DEF Shown
    <3>9. CopyStep(h)
      <4> SUFFICES ASSUME NEW j \in Jobs, NEW n \in Copies(j)'
                   PROVE \/ \E o \in Copies(j) : Shown(n, j) = Shown(o, j)
                         \/ /\ mgrpc'[h] = "idle"
                            /\ r \in JobReports /\ r.mirror = j
                            /\ Shown(n, j) = r.status
        BY <3>1 DEF CopyStep
      <4>1. n = status'[<<j, WorkerID>>]
        BY <3>5
      <4>2. CASE KeyOf(r) # <<j, WorkerID>>
        BY <3>6, <4>1, <4>2
      <4>3. CASE KeyOf(r) = <<j, WorkerID>> /\ r.kind = "sched"
        BY <2>5, <3>1, <3>7, <4>1, <4>3
      <4>4. CASE KeyOf(r) = <<j, WorkerID>> /\ r.kind = "job"
        BY <2>2, <3>4, <3>7, <3>8, <4>1, <4>4
      <4> QED
        BY <2>2, <4>2, <4>3, <4>4
    <3> QED
      BY <3>4, <3>9
  <2> QED
    BY <2>1, <2>9, <2>10, <2>11, <2>12, <2>13, <2>14
    DEF ManagerStep, Mgr!Register, Mgr!Lookup, Mgr!CmdRead
<1> QED
  BY <1>5, <1>6
\* The handler of a status report that answers has stored what it says, unless
\* the worker is unknown.
LEMMA AnswerStores ==
    ASSUME MgrInv, Serial, NEW h \in Reporters, ManagerStep(h), req[h] \in JobReports,
           mgrpc'[h] = "idle", workers[WorkerID] # None, NEW j \in Jobs, req[h].mirror = j
    PROVE  \A m \in Copies(j)' : Shown(m, j) = req[h].status
<1> DEFINE r == req[h]
<1>1. h \in Threads /\ MgrTypes /\ mgrpc \in [Threads -> Mgr!PC]
  BY DEF Threads, MgrInv, MgrTypes
<1>2. r.kind = "job" /\ r.worker = WorkerID
  BY DEF JobReports
<1>3. r # Registration
  BY <1>2 DEF Registration
<1>4. Mgr!Write(h)
  <2>1. /\ ~Mgr!Validate(h) /\ ~Mgr!RefreshGet(h) /\ ~Mgr!RefreshPut(h)
        /\ ~Mgr!Lookup(h) /\ ~Mgr!CmdRead(h) /\ ~Mgr!Register(h)
    <3>1. \A x : Mgr!Goto(h, x) => x = "idle"
      BY <1>1 DEF Mgr!Goto
    <3> QED
      BY <1>2, <3>1 DEF Mgr!Validate, Mgr!RefreshGet, Mgr!RefreshPut, Mgr!Lookup, Mgr!CmdRead,
         Mgr!Register
  <2>2. ~Mgr!Read(h) /\ ~Mgr!Compute(h)
    BY <1>1, <1>2 DEF Mgr!Read, Mgr!Compute, Mgr!Goto
  <2> QED
    BY <2>1, <2>2 DEF ManagerStep
<1>5. /\ mgrpc[h] = "write" /\ Mgr!Finish(h)
      /\ status' = [status EXCEPT ![<<j, WorkerID>>] = cur[h]]
  BY <1>2, <1>4 DEF Mgr!Write, Mgr!Key
<1>6. cur[h] \in Mgr!MirrorStatus /\ cur[h].Name = j /\ cur[h].Status = r.status
  BY <1>2, <1>3, <1>5 DEF MgrInv, ReporterInv, ReporterOK
<1>7. r \notin ScheduleLists
  BY <1>2 DEF ScheduleLists
<1>8. Moved(h, "idle", None, None)
  BY <1>1, <1>5, <1>7, FinishMoves
<1>9. h \notin Clients
  BY SystemAssumption
<1>10. ASSUME NEW m \in Copies(j)' PROVE m = status'[<<j, WorkerID>>]
  BY <1>1, <1>2, <1>8, <1>9, <1>10, MoveCopies
<1>11. status'[<<j, WorkerID>>] = cur[h]
  BY <1>1, <1>2, <1>5 DEF MgrTypes
<1>12. Shown(cur[h], j) = r.status
  BY <1>6, NoneAssumption DEF Shown
<1> QED
  BY <1>10, <1>11, <1>12

\* A step of the handler of a command.
LEMMA ClientSteps ==
    ASSUME MgrInv, Serial, NEW h \in Clients, ManagerStep(h)
    PROVE  MgrInv' /\ CopyStep(h)
<1> DEFINE r == req[h]
<1>1. h \in Threads /\ h \notin Reporters /\ MgrTypes /\ UNCHANGED <<wVars, netVars>>
  BY SystemAssumption DEF Threads, MgrInv, ManagerStep
<1>2. mgrpc[h] \notin {"idle", "post"}
  BY DEF ManagerStep, Mgr!Validate, Mgr!Register, Mgr!RefreshGet, Mgr!RefreshPut,
     Mgr!Read, Mgr!Compute, Mgr!Write, Mgr!Lookup, Mgr!CmdRead
<1>3. /\ r \in ClientRequests /\ mgrpc[h] \in {"lookup", "cmdread", "write"}
      /\ mgrpc[h] = "write" =>
            /\ r.kind \in {"stop", "disable"} /\ cur[h] \in Mgr!MirrorStatus
            /\ cur[h].Status = Mgr!NewStatus[r.kind]
  BY <1>2 DEF MgrInv, ClientInv, ClientOK
<1>4. /\ r.worker = WorkerID /\ r.kind \in {"start", "stop", "disable"} /\ r.mirror \in Jobs
      /\ r \in Messages /\ r \notin ScheduleLists
  BY <1>3, SystemAssumption DEF ClientRequests, Messages, ScheduleLists
<1>5. Mgr!Key(h) = <<r.mirror, WorkerID>> /\ <<r.mirror, WorkerID>> \in Jobs \X {WorkerID}
  BY <1>4 DEF Mgr!Key
<1>6. cur[h] \in Mgr!MirrorStatus \cup {None}
  BY <1>1 DEF MgrTypes
<1>7. ASSUME NEW x \in {"cmdread", "post"}, Mgr!Goto(h, x), UNCHANGED cur, DbStep
      PROVE  MgrInv' /\ Moved(h, x, r, cur[h])
  <2>1. Moved(h, x, r, cur[h])
    BY <1>1, <1>7, EndMoves
  <2>2. x \in Mgr!PC /\ ClientOK(x, r, cur[h]) /\ x # "idle"
    BY <1>3, <1>7 DEF Mgr!PC, ClientOK
  <2>3. MgrInv'
    BY <1>1, <1>2, <1>4, <1>6, <1>7, <2>1, <2>2, MoveKeeps
  <2> QED
    BY <2>1, <2>3
<1>8. CASE Mgr!Lookup(h)
  <2>1. DbQuiet /\ (UNCHANGED worker \/ Mgr!Respond(h))
    BY <1>8 DEF Mgr!Lookup, DbQuiet, Mgr!dbVars
  <2>2. DbStep
    BY <1>1, <2>1, EndMoves, QuietDb
  <2>3. CASE Mgr!Respond(h)
    <3>1. Moved(h, "idle", None, None)
      BY <1>1, <2>3, EndMoves
    <3>2. "idle" \in Mgr!PC /\ ClientOK("idle", None, None)
      BY DEF Mgr!PC, ClientOK
    <3>3. h # via
      BY <1>1, SystemAssumption DEF MgrInv, LinkInv
    <3>4. workers'[WorkerID] # None \/ (workers[WorkerID] = None /\ h # via)
      BY <2>2, <3>3 DEF DbStep
    <3>5. MgrInv'
      BY <1>1, <1>2, <2>2, <3>1, <3>2, <3>4, MoveKeeps
    <3>6. CopyStep(h)
      BY <1>1, <2>1, <3>1, NoCopies DEF DbQuiet
    <3> QED
      BY <3>5, <3>6
  <2>4. CASE ~Mgr!Respond(h)
    <3>1. Mgr!Goto(h, "cmdread") /\ UNCHANGED cur
      BY <1>8, <2>4 DEF Mgr!Lookup
    <3>2. MgrInv' /\ Moved(h, "cmdread", r, cur[h])
      BY <1>7, <2>2, <3>1
    <3>3. CopyStep(h)
      BY <1>1, <2>1, <3>2, NoCopies DEF DbQuiet
    <3> QED
      BY <3>2, <3>3
  <2> QED
    BY <2>3, <2>4
<1>9. CASE Mgr!CmdRead(h)
  <2>1. DbQuiet /\ DbStep
    BY <1>1, <1>9, QuietDb DEF Mgr!CmdRead, DbQuiet, Mgr!dbVars
  <2>2. CASE r.kind = "start"
    <3>1. Mgr!Goto(h, "post") /\ UNCHANGED cur
      BY <1>9, <2>2 DEF Mgr!CmdRead
    <3>2. MgrInv' /\ Moved(h, "post", r, cur[h])
      BY <1>7, <2>1, <3>1
    <3>3. CopyStep(h)
      BY <1>1, <2>1, <3>2, NoCopies DEF DbQuiet
    <3> QED
      BY <3>2, <3>3
  <2>3. CASE r.kind # "start"
    <3> DEFINE old == IF status[<<r.mirror, WorkerID>>] = None THEN Mgr!Zero
                      ELSE status[<<r.mirror, WorkerID>>]
               m == [old EXCEPT !.Status = Mgr!NewStatus[r.kind]]
    <3>1. /\ mgrpc' = [mgrpc EXCEPT ![h] = "write"] /\ UNCHANGED req
          /\ cur' = [cur EXCEPT ![h] = m]
      BY <1>5, <1>9, <2>3 DEF Mgr!CmdRead, Mgr!Goto
    <3>2. old \in Mgr!MirrorStatus
      BY <1>1, <1>5, RecordTypes DEF MgrTypes
    <3>3. r.kind \in {"stop", "disable"}
      BY <1>4, <2>3
    <3> HIDE DEF old
    <3>4. m \in Mgr!MirrorStatus /\ m.Status = Mgr!NewStatus[r.kind]
      BY <3>2, <3>3, RecordTypes
    <3> HIDE DEF m
    <3>5. Moved(h, "write", r, m)
      <4>1. req = [req EXCEPT ![h] = r]
        BY <1>1 DEF MgrTypes
      <4> QED
        BY <3>1, <4>1 DEF Moved
    <3>6. "write" \in Mgr!PC /\ ClientOK("write", r, m)
      BY <1>3, <3>3, <3>4 DEF Mgr!PC, ClientOK
    <3>7. MgrInv'
      BY <1>1, <1>2, <1>4, <2>1, <3>4, <3>5, <3>6, MoveKeeps
    <3>8. CopyStep(h)
      BY <1>1, <2>1, <3>5, NoCopies DEF DbQuiet
    <3> QED
      BY <3>7, <3>8
  <2> QED
    BY <2>2, <2>3
<1>10. CASE Mgr!Write(h)
  <2>1. /\ mgrpc[h] = "write" /\ Mgr!Goto(h, "post") /\ UNCHANGED <<cur, worker, workers>>
        /\ status' = [status EXCEPT ![<<r.mirror, WorkerID>>] = cur[h]]
    BY <1>4, <1>5, <1>10 DEF Mgr!Write
  <2>2. status' \in [Jobs \X {WorkerID} -> Mgr!MirrorStatus \cup {None}]
    BY <1>1, <1>5, <1>6, <2>1 DEF MgrTypes
  <2>3. DbStep
    BY <1>1, <2>1, <2>2 DEF DbStep, MgrTypes
  <2>4. MgrInv' /\ Moved(h, "post", r, cur[h])
    BY <1>7, <2>1, <2>3
  <2>5. mgrpc'[h] = "post" /\ req'[h] = r
    BY <1>1, <2>4 DEF Moved, MgrTypes
  <2>6. CopyStep(h)
    <3> SUFFICES ASSUME NEW j \in Jobs, NEW n \in Copies(j)'
                 PROVE  \/ \E o \in Copies(j) : Shown(n, j) = Shown(o, j)
                        \/ r.mirror = j /\ Shown(n, j) \in {"none", Mgr!NewStatus[r.kind]}
      BY <2>1, <2>5 DEF CopyStep
    <3>1. CASE n \in Copies(j)
      BY <3>1
    <3>2. CASE n \notin Copies(j)
      <4>1. n = status'[<<j, WorkerID>>]
        BY <1>1, <2>4, <3>2, MoveCopies
      <4>2. j = r.mirror
        <5> SUFFICES ASSUME j # r.mirror PROVE FALSE
          OBVIOUS
        <5>1. <<j, WorkerID>> # <<r.mirror, WorkerID>>
          OBVIOUS
        <5>2. n = status[<<j, WorkerID>>]
          BY <1>1, <2>1, <4>1, <5>1 DEF MgrTypes
        <5> QED
          BY <3>2, <5>2 DEF Copies
      <4>3. n = cur[h]
        BY <1>1, <1>5, <2>1, <4>1, <4>2 DEF MgrTypes
      <4> QED
        BY <1>3, <2>1, <4>2, <4>3 DEF Shown
    <3> QED
      BY <3>1, <3>2
  <2> QED
    BY <2>4, <2>6
<1> QED
  BY <1>3, <1>8, <1>9, <1>10
  DEF ManagerStep, Mgr!Validate, Mgr!Register, Mgr!RefreshGet, Mgr!RefreshPut, Mgr!Read, Mgr!Compute
\* A step of a handler leaves the other handlers alone, and the handler of a
\* command keeps its request.
LEMMA HandlerFrame ==
    ASSUME MgrInv, NEW h \in Threads, ManagerStep(h)
    PROVE  /\ mgrpc[h] \notin {"idle", "post"}
           /\ \A t \in Threads : t # h => mgrpc'[t] = mgrpc[t] /\ req'[t] = req[t]
           /\ h \in Clients => mgrpc'[h] = "idle" \/ req'[h] = req[h]
<1>1. mgrpc[h] \notin {"idle", "post"}
  BY DEF ManagerStep, Mgr!Validate, Mgr!Register, Mgr!RefreshGet, Mgr!RefreshPut,
     Mgr!Read, Mgr!Compute, Mgr!Write, Mgr!Lookup, Mgr!CmdRead
<1>2. MgrTypes
  BY DEF MgrInv
<1>3. ASSUME Mgr!Respond(h)
      PROVE  /\ \A t \in Threads : t # h => mgrpc'[t] = mgrpc[t] /\ req'[t] = req[t]
             /\ mgrpc'[h] = "idle"
  BY <1>2, <1>3 DEF Mgr!Respond, MgrTypes
<1>4. ASSUME NEW x, Mgr!Goto(h, x)
      PROVE  /\ \A t \in Threads : t # h => mgrpc'[t] = mgrpc[t] /\ req'[t] = req[t]
             /\ req'[h] = req[h]
  BY <1>2, <1>4 DEF Mgr!Goto, MgrTypes
<1>5. ASSUME Mgr!Finish(h)
      PROVE  /\ \A t \in Threads : t # h => mgrpc'[t] = mgrpc[t] /\ req'[t] = req[t]
             /\ h \in Clients => mgrpc'[h] = "idle"
  <2>1. CASE Mgr!Respond(h)
    BY <1>3, <2>1
  <2>2. CASE ~Mgr!Respond(h)
    <3>1. req[h].kind = "sched"
      BY <1>5, <2>2 DEF Mgr!Finish
    <3>2. h \notin Clients
      BY <1>1, <3>1, SystemAssumption DEF MgrInv, ClientInv, ClientOK, ClientRequests
    <3>3. /\ mgrpc' = [mgrpc EXCEPT ![h] = "get"]
          /\ req' = [req EXCEPT ![h].schedules = Tail(@)]
      BY <1>5, <2>2 DEF Mgr!Finish
    <3> QED
      BY <1>2, <3>2, <3>3 DEF MgrTypes
  <2> QED
    BY <2>1, <2>2
<1>6. Mgr!Respond(h) \/ Mgr!Finish(h) \/ \E x : Mgr!Goto(h, x)
  BY DEF ManagerStep, Mgr!Validate, Mgr!Register, Mgr!RefreshGet, Mgr!RefreshPut,
     Mgr!Read, Mgr!Compute, Mgr!Write, Mgr!Lookup, Mgr!CmdRead
<1> QED
  BY <1>1, <1>3, <1>4, <1>5, <1>6

-----------------------------------------------------------------------------
(***************************************************************************)
(* The worker.                                                             *)
(***************************************************************************)

\* What WorkerInv reads.
runVars == <<mjVars, L, schedule, httpVars, schedVars, haltVars>>

LEMMA WorkerFrame ==
    ASSUME WorkerInv, UNCHANGED runVars
    PROVE  WorkerInv'
<1> USE DEF runVars, httpVars, schedVars, haltVars
<1>1. Booting' = Booting
  BY DEF Booting
<1>2. CASE Booting
  BY <1>1, <1>2 DEF WorkerInv, Unborn, QuietInit, mjVars, jobVars, loopVars, runnerVars, chanVars
<1>3. CASE ~Booting
  <2>0. WInv
    BY <1>3 DEF WorkerInv
  <2>1. MJInv'
    BY <2>0, InvStep DEF WInv
  <2>2. WTypeOK' /\ LockInv'
    BY <2>0 DEF WInv, WTypeOK, ControlInv, LockInv
  <2>3. WInv'
    BY <2>0, <2>1, <2>2, ControlFrame
    DEF WInv, mjVars, jobVars, loopVars, controlVars
  <2> QED
    BY <1>1, <1>3, <2>3 DEF WorkerInv
<1> QED
  BY <1>2, <1>3

\* Nothing of a job moves before the boot.
LEMMA NoJobStep ==
    ASSUME WorkerInv, Booting
    PROVE  ~JobStep /\ ~HTTPStep
<1>1. ASSUME NEW g \in Runs
      PROVE  pc[g] = "off" /\ rpc[g] = "none" /\ out[g] = NoMsg
  BY DEF WorkerInv, Unborn, QuietInit
<1>2. releasing = 0 /\ hpc = "idle"
  BY DEF WorkerInv, Unborn, QuietInit
<1>3. ~HTTPStep
  BY <1>2 DEF HTTPStep, HTTPBranch, HTTPSend, HTTPEval, HTTPAwait
<1>4. ~Release
  BY <1>2 DEF Release
<1>5. ASSUME NEW g \in Runs PROVE ~LoopStep(g)
  BY <1>1 DEF LoopStep, Begin, LoopTop, JobDone, WaitCtrl, Reap, IdleCtrl, Killed
<1>6. ASSUME NEW g \in Runs PROVE ~RunnerStep(g) /\ ~ProviderStep(g)
  BY <1>1 DEF RunnerStep, ProviderStep, Acquire, BypassSemaphore, KilledWaiting, Send,
     PreJobHooks, PreExecHooks, AwaitStarted, AwaitSync, Terminate, PostHooks, Return,
     ProviderStart, ProviderEnd, Timeout, At
<1> QED
  BY <1>3, <1>4, <1>5, <1>6 DEF JobStep

\* The steps of the worker that are steps of module Worker.
LEMMA WorkerSteps ==
    ASSUME WorkerInv, Serial, ~panicked, WorkerStep \/ (HTTPStep /\ UNCHANGED ncmds)
    PROVE  WorkerInv' /\ ~Booting /\ ~Booting'
<1>1. ~Booting
  BY NoJobStep DEF WorkerStep, Booting, SchedRecv, SchedLookup, SchedCheck, SchedPush, SchedPop
<1>2. WInv
  BY <1>1 DEF WorkerInv
<1>3. Alive
  BY <1>2 DEF WorkerInv, WInv, ControlInv, LockInv, Alive
<1>4. WNext
  BY <1>3 DEF WorkerStep, WNext, SchedStep
<1>5. WInv'
  BY <1>2, <1>4, WInvStep DEF Serial
<1>6. UNCHANGED haltVars
  BY DEF WorkerStep, JobStep, workerVars, HTTPStep, HTTPBranch, HTTPSend, HTTPEval, HTTPAwait,
     SchedRecv, SchedLookup, SchedCheck, SchedPush, SchedPop
<1>7. ~Booting'
  BY <1>5 DEF WInv, WTypeOK, Booting
<1> QED
  BY <1>1, <1>5, <1>6, <1>7 DEF WorkerInv, haltVars
\* A command reaches a worker that has booted.
LEMMA TakeStep ==
    ASSUME WorkerInv, Serial, ClientInv, PostInv, LinkInv, NEW c \in Clients, Take(c)
    PROVE  /\ WorkerInv' /\ ~Booting /\ ~Booting'
           /\ req[c] \in ClientRequests /\ mgrpc[c] = "post" /\ UNCHANGED mjVars
<1>1. wcmd[c] = "sent" /\ L = "free" /\ HTTPCmd(req[c].mirror, req[c].kind)
  BY DEF Take, HTTPCmd
<1>2. mgrpc[c] = "post" /\ server /\ req[c] \in ClientRequests
  BY <1>1 DEF PostInv, ClientInv, ClientOK
<1>3. ~Booting
  BY <1>1, <1>2 DEF LinkInv, Booting, WorkerInv, Unborn
<1>4. WInv /\ mpc = "idle"
  BY <1>3 DEF WorkerInv
<1>5. req[c].mirror \in Jobs /\ req[c].kind \in Cmds /\ Settled(req[c].mirror)
  BY <1>2 DEF ClientRequests, Take, Serial
<1>6. ControlInv'
  BY <1>1, <1>4, <1>5, HandlerControl DEF Serial
<1>7. MJInv' /\ UNCHANGED mjVars
  BY <1>1, <1>4, InvStep DEF WInv, HTTPCmd
<1>8. WTypeOK' /\ UNCHANGED <<spc, mpc, hleft, hcur, exit>>
  BY <1>1, <1>4, <1>5, WorkerAssumption DEF WInv, WTypeOK, HTTPCmd, schedVars, haltVars
<1> QED
  BY <1>2, <1>3, <1>4, <1>6, <1>7, <1>8 DEF WorkerInv, WInv, Booting

\* A report has been answered.
LEMMA UpdatedSteps ==
    ASSUME WorkerInv, StatusUpdated \/ SchedInfoUpdated
    PROVE  WorkerInv' /\ ~Booting /\ ~Booting' /\ UNCHANGED mjVars
<1>1. ~Booting /\ WInv /\ mpc = "idle" /\ hleft = {} /\ hcur = NoJob /\ exit = FALSE
  BY DEF WorkerInv, Booting, StatusUpdated, SchedInfoUpdated
<1>2. /\ UNCHANGED <<mjVars, L, sjob, httpVars, haltVars>>
      /\ spc' \in {"report", "select"}
      /\ smsg' \in {smsg, NoMsg}
  BY DEF StatusUpdated, SchedInfoUpdated
<1>3. schedule' \subseteq Jobs
  <2>1. CASE StatusUpdated
    <3>1. smsg.name \in Jobs
      BY <1>1, <2>1 DEF StatusUpdated, WInv, ControlInv, LockInv, jobMessage
    <3> QED
      BY <1>1, <2>1, <3>1 DEF StatusUpdated, WInv, WTypeOK
  <2>2. CASE SchedInfoUpdated
    BY <1>1, <2>2 DEF SchedInfoUpdated, WInv, WTypeOK
  <2> QED
    BY <2>1, <2>2
<1>4. MJInv'
  BY <1>1, <1>2, InvStep DEF WInv
<1>5. WTypeOK' /\ LockInv'
  BY <1>1, <1>2, <1>3 DEF WInv, WTypeOK, ControlInv, LockInv, httpVars, haltVars
<1>6. ControlInv'
  BY <1>1, <1>2, <1>5, ControlFrame
  DEF WInv, controlVars, mjVars, jobVars, loopVars, haltVars
<1> QED
  BY <1>1, <1>2, <1>4, <1>5, <1>6 DEF WorkerInv, WInv, Booting, haltVars

\* Registration, and the lock for the boot.
LEMMA EarlySteps ==
    ASSUME WorkerInv, Registered \/ BootLock
    PROVE  WorkerInv' /\ Booting /\ Booting' /\ UNCHANGED mjVars
<1>1. Booting /\ spc # "fetch"
  BY DEF Registered, BootLock, Booting
<1>2. /\ UNCHANGED <<mjVars, schedule, smsg, sjob, httpVars, haltVars>>
      /\ spc' \in {"boot", "fetch"} /\ L = "free"
      /\ L' = IF spc' = "fetch" THEN "sched" ELSE "free"
  BY <1>1 DEF Registered, BootLock, WorkerInv, Unborn
<1>3. Booting'
  BY <1>2 DEF Booting
<1>4. Unborn'
  BY <1>1, <1>2 DEF WorkerInv, Unborn, QuietInit, mjVars, jobVars, loopVars, runnerVars,
     chanVars, httpVars
<1> QED
  BY <1>1, <1>2, <1>3, <1>4 DEF WorkerInv, haltVars

\* What the boot makes of a job.
LEMMA BootStates ==
    ASSUME Boot
    PROVE  /\ state' \in [Jobs -> {"none", "paused", "disabled"}]
           /\ \A j \in Jobs : state'[j] = IF Known(j) \in {"disabled", "paused"}
                                          THEN Known(j) ELSE "none"
<1>1. state' = [j \in Jobs |-> IF Known(j) \in {"disabled", "paused"} THEN Known(j) ELSE "none"]
  BY DEF Boot
<1>2. \A j \in Jobs : (IF Known(j) \in {"disabled", "paused"} THEN Known(j) ELSE "none")
                          \in {"none", "paused", "disabled"}
  OBVIOUS
<1> QED
  BY <1>1, <1>2

LEMMA BootStep ==
    ASSUME WorkerInv, Boot
    PROVE  WorkerInv' /\ ~Booting' /\ Booted'
<1>1. Booting /\ spc = "fetch"
  BY DEF Boot, Booting
<1>2. Unborn /\ mpc = "idle" /\ hleft = {} /\ hcur = NoJob /\ exit = FALSE
  BY <1>1 DEF WorkerInv
<1>3. PICK G \in SUBSET Runs :
          /\ \A j \in Jobs : Cardinality({g \in G : Job(g) = j})
                                 = IF state'[j] = "disabled" THEN 0 ELSE 1
          /\ pc' = [g \in Runs |-> IF g \in G THEN "launched" ELSE "off"]
  BY DEF Boot
<1>4. pc' \in [Runs -> {"off", "launched"}]
  BY <1>3
<1>5. ASSUME NEW j \in Jobs
      PROVE  Cardinality({g \in Runs : Job(g) = j /\ pc'[g] = "launched"})
                 = (IF state'[j] = "disabled" THEN 0 ELSE 1)
  <2>1. {g \in Runs : Job(g) = j /\ pc'[g] = "launched"} = {g \in G : Job(g) = j}
    BY <1>3
  <2> QED
    BY <1>3, <2>1
<1>6. QuietInit'
  BY <1>2 DEF Unborn, QuietInit, Boot, runnerVars, chanVars
<1>7. /\ disabled' = [j \in Jobs |-> NoChan] /\ L' = "free" /\ schedule' \subseteq Jobs
      /\ hpc' = "idle" /\ hcmd' = "none" /\ hjob' = NoJob /\ hchan' = NoChan
      /\ spc' = "report" /\ smsg' = NoMsg /\ sjob' = NoJob
      /\ mpc' = "idle" /\ hleft' = {} /\ hcur' = NoJob /\ exit' = FALSE
  BY <1>2 DEF Unborn, Boot, httpVars, haltVars
<1>8. Booted'
  BY <1>4, <1>5, <1>6, <1>7, BootStates DEF Booted, Job
<1>9. WInv'
  BY <1>8, BootedInv, PTL
<1> QED
  BY <1>7, <1>8, <1>9 DEF WorkerInv, Booting

LEMMA CrashStep ==
    ASSUME WorkerInv, Crash
    PROVE  WorkerInv' /\ Booting'
<1>1. Unborn' /\ Booting'
  BY DEF Crash, Unborn, QuietInit, Booting
<1>2. UNCHANGED <<mpc, hleft, hcur, exit>>
  BY DEF Crash, haltVars
<1> QED
  BY <1>1, <1>2 DEF WorkerInv
\* What a runner is about to report.
LEMMA OutStep ==
    ASSUME OutInv, MJTypeOK, JobStep
    PROVE  OutInv'
<1> USE RunsAssumption, NullAssumption DEF MJTypeOK
<1> SUFFICES ASSUME NEW u \in Runs, out'[u] # NoMsg
             PROVE  /\ out'[u].name = Job(u)
                    /\ rpc'[u] \in {"start", "sync"} => out'[u].status = "Syncing"
  BY DEF OutInv, Job
<1>1. ASSUME out'[u] = out[u], rpc'[u] = rpc[u] \/ rpc'[u] \notin {"start", "sync"}
      PROVE  /\ out'[u].name = Job(u)
             /\ rpc'[u] \in {"start", "sync"} => out'[u].status = "Syncing"
  BY <1>1 DEF OutInv
<1>2. ASSUME NEW st, NEW b, out'[u] = Message(u, st, b), rpc'[u] \notin {"start", "sync"} \/ st = "Syncing"
      PROVE  /\ out'[u].name = Job(u)
             /\ rpc'[u] \in {"start", "sync"} => out'[u].status = "Syncing"
  BY <1>2 DEF Message
<1>3. ASSUME NEW g \in Runs, LoopStep(g)
      PROVE  out'[u] = out[u] /\ (rpc'[u] = rpc[u] \/ rpc'[u] \notin {"start", "sync"})
  <2>1. UNCHANGED out
    BY <1>3 DEF LoopStep, Begin, LoopTop, JobDone, WaitCtrl, Reap, IdleCtrl, RunnerGone, runnerVars
  <2>2. UNCHANGED rpc \/ \E x \in {"sem", "none"} : rpc' = [rpc EXCEPT ![g] = x]
    BY <1>3 DEF LoopStep, Begin, LoopTop, JobDone, WaitCtrl, Reap, IdleCtrl, RunnerGone, runnerVars
  <2> QED
    BY <2>1, <2>2
<1>4. ASSUME NEW g \in Runs, g # u, RunnerStep(g) \/ ProviderStep(g)
      PROVE  out'[u] = out[u] /\ rpc'[u] = rpc[u]
  BY <1>4 DEF RunnerStep, ProviderStep, Acquire, BypassSemaphore, KilledWaiting, Send,
     PreJobHooks, PreExecHooks, AwaitStarted, AwaitSync, Terminate, PostHooks, Return,
     ProviderStart, ProviderEnd, Timeout, HookFails
<1>5. ASSUME ProviderStep(u)
      PROVE  out'[u] = out[u] /\ (rpc'[u] = rpc[u] \/ rpc'[u] \notin {"start", "sync"})
  BY <1>5 DEF ProviderStep, ProviderStart, ProviderEnd, Timeout
<1>6. ASSUME KilledWaiting(u) \/ Send(u) \/ AwaitSync(u) \/ Terminate(u) \/ Return(u)
      PROVE  out'[u] = out[u] /\ (rpc'[u] = rpc[u] \/ rpc'[u] \notin {"start", "sync"})
  BY <1>6 DEF KilledWaiting, Send, AwaitSync, Terminate, Return
<1>7. ASSUME HookFails(u)
      PROVE  out'[u] = Message(u, "Failed", TRUE) /\ rpc'[u] \notin {"start", "sync"}
  BY <1>7 DEF HookFails
<1>8. ASSUME Acquire(u) \/ BypassSemaphore(u)
      PROVE  out'[u] = Message(u, "PreSyncing", FALSE) /\ rpc'[u] \notin {"start", "sync"}
  BY <1>8 DEF Acquire, BypassSemaphore
<1>9. ASSUME PreJobHooks(u), ~HookFails(u)
      PROVE  out'[u] = out[u] /\ (rpc'[u] = rpc[u] \/ rpc'[u] \notin {"start", "sync"})
  BY <1>9 DEF PreJobHooks
<1>10. ASSUME PreExecHooks(u), ~HookFails(u)
       PROVE  out'[u] = Message(u, "Syncing", FALSE)
  BY <1>10 DEF PreExecHooks
<1>11. ASSUME PostHooks(u), ~HookFails(u)
       PROVE  /\ rpc'[u] \notin {"start", "sync"}
              /\ \/ out'[u] = Message(u, "Success", Ready(u))
                 \/ out'[u] = Message(u, "Failed", LastTry(u) /\ Ready(u))
  BY <1>11 DEF PostHooks
<1>12. ~AwaitStarted(u)
  BY DEF AwaitStarted, At
<1>13. ASSUME RunnerStep(u)
       PROVE  /\ out'[u].name = Job(u)
              /\ rpc'[u] \in {"start", "sync"} => out'[u].status = "Syncing"
  BY <1>1, <1>2, <1>6, <1>7, <1>8, <1>9, <1>10, <1>11, <1>13, <1>12 DEF RunnerStep
<1>14. ASSUME Release PROVE out'[u] = out[u] /\ rpc'[u] = rpc[u]
  BY <1>14 DEF Release, runnerVars
<1> QED
  BY <1>1, <1>3, <1>4, <1>5, <1>13, <1>14 DEF JobStep

\* The manager's part of the invariant while the worker moves.
LEMMA MgrFrame ==
    ASSUME MgrTypes, ReporterInv, ClientInv,
           UNCHANGED <<workers, status, mgrpc, req, cur, worker>>
    PROVE  MgrTypes' /\ ReporterInv' /\ ClientInv'
<1>1. MgrTypes'
  BY DEF MgrTypes
<1>2. ReporterInv'
  BY DEF ReporterInv, ReporterOK
<1>3. ClientInv'
  BY DEF ClientInv, ClientOK
<1> QED
  BY <1>1, <1>2, <1>3

\* What the worker knows of its request, while it has none or is waiting.
LEMMA LinkFrame ==
    ASSUME LinkInv, ~Booting, ~Booting', UNCHANGED <<workers, mgrpc, req, via, server>>,
           \/ UNCHANGED <<spc, smsg>>
           \/ spc \notin {"update", "report"}
    PROVE  LinkInv'
<1>1. CASE UNCHANGED <<spc, smsg>>
  BY <1>1 DEF LinkInv, Booting, Idle, StatusReport
<1>2. CASE spc \notin {"update", "report"}
  <2>1. via = None /\ server /\ spc # "register"
    BY <1>2 DEF LinkInv, Booting
  <2> QED
    BY <2>1 DEF LinkInv, Booting, Idle
<1> QED
  BY <1>1, <1>2

LEMMA PostFrame ==
    ASSUME PostInv, UNCHANGED <<mgrpc, wcmd>>, server => server'
    PROVE  PostInv'
BY DEF PostInv
\* The handler of a command is given its request or answers.
LEMMA ClientMove ==
    ASSUME MgrInv, NEW c \in Clients, NEW x \in Mgr!PC, NEW r \in Messages \cup {None},
           NEW m \in Mgr!MirrorStatus \cup {None}, Moved(c, x, r, m), ClientOK(x, r, m),
           UNCHANGED <<workers, status, spc, smsg, via, server>>,
           worker' \in [Threads -> Mgr!WorkerStatus \cup {None}]
    PROVE  MgrTypes' /\ ReporterInv' /\ ClientInv' /\ LinkInv'
<1>1. c \in Threads /\ c \notin Reporters /\ MgrTypes /\ Reporters \subseteq Threads
      /\ Clients \subseteq Threads
  BY SystemAssumption DEF Threads, MgrInv
<1>2. MgrTypes'
  BY <1>1 DEF MgrTypes, Moved
<1>3. ASSUME NEW t \in Threads
      PROVE  /\ t = c => mgrpc'[t] = x /\ req'[t] = r /\ cur'[t] = m
             /\ t # c => mgrpc'[t] = mgrpc[t] /\ req'[t] = req[t] /\ cur'[t] = cur[t]
  BY <1>1 DEF MgrTypes, Moved
<1>4. ASSUME NEW p \in Reporters
      PROVE  mgrpc'[p] = mgrpc[p] /\ req'[p] = req[p] /\ cur'[p] = cur[p]
  BY <1>1, <1>3
<1>5. ReporterInv'
  <2> SUFFICES ASSUME NEW p \in Reporters PROVE ReporterOK(mgrpc'[p], req'[p], cur'[p])
    BY DEF ReporterInv, ReporterOK
  <2> QED
    BY <1>4 DEF MgrInv, ReporterInv
<1>6. ClientInv'
  <2> SUFFICES ASSUME NEW d \in Clients PROVE ClientOK(mgrpc'[d], req'[d], cur'[d])
    BY DEF ClientInv, ClientOK
  <2>1. CASE d = c
    BY <1>1, <1>3, <2>1
  <2>2. CASE d # c
    BY <1>1, <1>3, <2>2 DEF MgrInv, ClientInv
  <2> QED
    BY <2>1, <2>2
<1>7. LinkInv'
  <2>1. via # None => mgrpc'[via] = mgrpc[via] /\ req'[via] = req[via]
    BY <1>4 DEF MgrInv, LinkInv
  <2>2. \A p \in Reporters : mgrpc'[p] = mgrpc[p]
    BY <1>4
  <2> QED
    BY <2>1, <2>2 DEF MgrInv, LinkInv, Booting, Idle, StatusReport
<1> QED
  BY <1>2, <1>5, <1>6, <1>7

\* The worker posts a request.
LEMMA PostStep ==
    ASSUME MgrInv, Serial, NEW r, PostRequest(r),
           \/ spc = "register" /\ r = Registration
           \/ spc = "update" /\ r \in JobReports /\ r = StatusReport(smsg)
           \/ spc = "report" /\ r \in ScheduleLists
    PROVE  MgrInv'
<1>1. PICK p \in Reporters : Mgr!Accept(p, r) /\ via' = p
  BY DEF PostRequest
<1>2. /\ mgrpc[p] = "idle" /\ via = None
      /\ req' = [req EXCEPT ![p] = r] /\ mgrpc' = [mgrpc EXCEPT ![p] = Mgr!Entry[r.kind]]
      /\ UNCHANGED <<workers, status, cur, worker>>
      /\ UNCHANGED <<spc, smsg, wcmd, server>>
  BY <1>1 DEF PostRequest, Mgr!Accept, Mgr!dbVars, wVars, workerVars, schedVars
<1>3. p \in Threads /\ p \notin Clients /\ MgrTypes /\ p # None
  BY SystemAssumption DEF Threads, MgrInv
<1>4. /\ r \in JobReports => r.kind = "job" /\ r.kind # "sched" /\ r.kind # "register"
      /\ r \in ScheduleLists => r.kind = "sched"
      /\ r = Registration => r.kind = "register"
  BY DEF JobReports, ScheduleLists, Registration
<1>5. /\ r = Registration => Mgr!Entry[r.kind] = "change"
      /\ r \in JobReports \cup ScheduleLists => Mgr!Entry[r.kind] = "validate"
      /\ Mgr!Entry[r.kind] \in {"change", "validate"} /\ r \in Messages
  BY <1>4 DEF Mgr!Entry, Messages
<1> DEFINE x == Mgr!Entry[r.kind]
<1> HIDE DEF x
<1>6. ReporterOK(x, r, cur[p])
  BY <1>5 DEF ReporterOK, x
<1>7. MgrTypes'
  <2>1. x \in Mgr!PC
    BY <1>5 DEF x, Mgr!PC
  <2> QED
    BY <1>2, <1>3, <1>5, <2>1 DEF MgrTypes, x
<1>8. ASSUME NEW t \in Threads
      PROVE  /\ t = p => mgrpc'[t] = x /\ req'[t] = r
             /\ t # p => mgrpc'[t] = mgrpc[t] /\ req'[t] = req[t]
             /\ cur'[t] = cur[t]
  BY <1>2, <1>3 DEF MgrTypes, x
<1>9. ReporterInv'
  <2> SUFFICES ASSUME NEW q \in Reporters PROVE ReporterOK(mgrpc'[q], req'[q], cur'[q])
    BY DEF ReporterInv, ReporterOK
  <2>1. q = p /\ q \in Threads
    BY <1>3 DEF Serial
  <2> QED
    BY <1>6, <1>8, <2>1
<1>10. ASSUME NEW c \in Clients PROVE mgrpc'[c] = mgrpc[c] /\ req'[c] = req[c] /\ cur'[c] = cur[c]
  BY <1>3, <1>8 DEF Threads
<1>11. ClientInv' /\ PostInv'
  BY <1>2, <1>10 DEF MgrInv, ClientInv, ClientOK, PostInv
<1>12. LinkInv'
  <2>1. via' = p /\ mgrpc'[p] # "idle" /\ req'[p] = r
    BY <1>1, <1>3, <1>5, <1>8 DEF x
  <2>2. ~Idle(via)'
    BY <2>1 DEF Idle
  <2>3. Booting' = Booting /\ StatusReport(smsg)' = StatusReport(smsg)
    BY <1>2 DEF Booting, StatusReport
  <2> QED
    BY <1>2, <1>3, <1>4, <2>1, <2>2, <2>3 DEF MgrInv, LinkInv
<1> QED
  BY <1>7, <1>9, <1>11, <1>12 DEF MgrInv
LEMMA BaseMgr == BaseInv <=> WorkerInv /\ OutInv /\ MgrInv
BY DEF BaseInv, MgrInv

LEMMA OutFrame ==
    ASSUME OutInv, UNCHANGED <<out, rpc>>
    PROVE  OutInv'
BY DEF OutInv

\* The invariant of the two processes, without what is stored.
LEMMA BaseInit == SysInit => BaseInv
<1> SUFFICES ASSUME SysInit PROVE BaseInv
  OBVIOUS
<1>1. WorkerInv
  BY DEF SysInit, WorkerStarts, WorkerInv, Booting, Unborn
<1>2. OutInv
  BY DEF SysInit, WorkerStarts, QuietInit, OutInv
<1>3. status \in [Jobs \X {WorkerID} -> Mgr!MirrorStatus \cup {None}]
  <2>1. PICK s \in [Jobs -> {"none", "success", "paused", "disabled"}] :
            status = [k \in Jobs \X {WorkerID} |-> OldStatus(k[1], s[k[1]])]
    BY DEF SysInit
  <2>2. ASSUME NEW j \in Jobs, NEW v \in {"none", "success", "paused", "disabled"}
        PROVE  OldStatus(j, v) \in Mgr!MirrorStatus \cup {None}
    <3> DEFINE o == [Mgr!Zero EXCEPT !.Name = j, !.Status = v, !.Size = "unknown"]
    <3>0. 0 \in Mgr!Time /\ v \in Mgr!Sync /\ "unknown" \in Mgr!Sizes
      BY DEF Mgr!Sync, Mgr!Sizes, Mgr!Time
    <3>1. o \in Mgr!MirrorStatus
      BY <3>0 DEF Mgr!Zero, Mgr!MirrorStatus
    <3> QED
      BY <3>1 DEF OldStatus
  <2> QED
    BY <2>1, <2>2
<1>4. MgrTypes
  BY <1>3 DEF SysInit, MgrTypes, Mgr!PC
<1>5. ReporterInv /\ ClientInv
  BY DEF SysInit, ReporterInv, ReporterOK, ClientInv, ClientOK, Threads
<1>6. PostInv
  BY DEF SysInit, PostInv
<1>7. LinkInv
  BY DEF SysInit, WorkerStarts, LinkInv, Booting
<1> QED
  BY <1>1, <1>2, <1>4, <1>5, <1>6, <1>7 DEF BaseInv

LEMMA BaseManager ==
    ASSUME BaseInv, Serial, NEW h \in Threads, ManagerStep(h)
    PROVE  BaseInv'
<1>1. UNCHANGED <<wVars, netVars>> /\ WorkerInv /\ OutInv /\ MgrInv
  BY BaseMgr DEF ManagerStep
<1>2. WorkerInv' /\ OutInv'
  BY <1>1, WorkerFrame, OutFrame DEF wVars, workerVars, runVars, mjVars, runnerVars
<1>3. MgrInv'
  BY <1>1, ReporterSteps, ClientSteps DEF Threads
<1> QED
  BY <1>2, <1>3 DEF BaseInv, MgrInv

LEMMA BaseWorker ==
    ASSUME BaseInv, Serial, ~panicked, WorkerStep
    PROVE  BaseInv' /\ ~Booting /\ ~Booting'
<1>1. WorkerInv' /\ ~Booting /\ ~Booting'
  BY WorkerSteps DEF BaseInv
<1>2. OutInv'
  <2>1. CASE JobStep
    BY <1>1, <2>1, OutStep DEF BaseInv, WorkerInv, WInv, MJInv
  <2>2. CASE ~JobStep
    <3>1. UNCHANGED <<out, rpc>>
      BY <2>2 DEF WorkerStep, SchedRecv, SchedLookup, SchedCheck, SchedPush, SchedPop,
         ReceiveMsg, SendCtrl, mjVars, runnerVars
    <3> QED
      BY <3>1, OutFrame DEF BaseInv
  <2> QED
    BY <2>1, <2>2
<1>3. UNCHANGED <<mVars, netVars>>
  BY DEF WorkerStep
<1>4. UNCHANGED <<spc, smsg>> \/ spc \notin {"update", "report"}
  BY DEF WorkerStep, JobStep, workerVars, schedVars, SchedRecv, SchedLookup, SchedCheck,
     SchedPush, SchedPop
<1>5. MgrTypes' /\ ReporterInv' /\ ClientInv'
  BY <1>3, MgrFrame DEF BaseInv, mVars
<1>6. PostInv' /\ LinkInv'
  BY <1>1, <1>3, <1>4, PostFrame, LinkFrame DEF BaseInv, mVars, netVars
<1> QED
  BY <1>1, <1>2, <1>5, <1>6 DEF BaseInv

LEMMA BaseHandle ==
    ASSUME BaseInv, Serial, ~panicked, Handle
    PROVE  BaseInv' /\ ~Booting /\ ~Booting'
<1>1. HTTPStep /\ UNCHANGED ncmds /\ UNCHANGED <<mVars, via, server, told>>
  BY DEF Handle
<1>2. WorkerInv' /\ ~Booting /\ ~Booting'
  BY <1>1, WorkerSteps DEF BaseInv
<1>3. UNCHANGED <<out, rpc, spc, smsg>>
  BY <1>1 DEF HTTPStep, HTTPBranch, HTTPSend, HTTPEval, HTTPAwait, SendCtrl, mjVars,
     runnerVars, schedVars
<1>4. OutInv'
  BY <1>3, OutFrame DEF BaseInv
<1>5. MgrTypes' /\ ReporterInv' /\ ClientInv'
  BY <1>1, MgrFrame DEF BaseInv, mVars
<1>6. LinkInv'
  BY <1>1, <1>2, <1>3, LinkFrame DEF BaseInv, mVars
<1>7. PostInv'
  <2>1. ASSUME NEW c \in Clients
        PROVE  wcmd'[c] = wcmd[c] \/ (wcmd[c] = "taken" /\ wcmd'[c] = "done")
    BY DEF Handle
  <2>2. wcmd' \in [Clients -> {"none", "sent", "taken", "done", "failed"}]
    BY DEF Handle, BaseInv, PostInv
  <2> QED
    BY <1>1, <2>1, <2>2 DEF BaseInv, PostInv, mVars
<1> QED
  BY <1>2, <1>4, <1>5, <1>6, <1>7 DEF BaseInv

LEMMA BaseTake ==
    ASSUME BaseInv, Serial, NEW c \in Clients, Take(c)
    PROVE  BaseInv' /\ ~Booting /\ ~Booting'
<1>1. /\ WorkerInv' /\ ~Booting /\ ~Booting' /\ mgrpc[c] = "post" /\ UNCHANGED mjVars
  BY TakeStep DEF BaseInv
<1>2. /\ UNCHANGED <<mVars, via, server, told>> /\ UNCHANGED <<spc, smsg>>
      /\ wcmd' = [wcmd EXCEPT ![c] = "taken"] /\ wcmd[c] = "sent"
  BY DEF Take, HTTPCmd, schedVars
<1>3. OutInv'
  BY <1>1, OutFrame DEF BaseInv, mjVars, runnerVars
<1>4. MgrTypes' /\ ReporterInv' /\ ClientInv'
  BY <1>2, MgrFrame DEF BaseInv, mVars
<1>5. LinkInv'
  BY <1>1, <1>2, LinkFrame DEF BaseInv, mVars
<1>6. PostInv'
  <2>1. ASSUME NEW d \in Clients
        PROVE  wcmd'[d] = wcmd[d] \/ (wcmd[d] = "sent" /\ wcmd'[d] \in {"taken", "sent"})
    BY <1>2
  <2> QED
    BY <1>1, <1>2, <2>1 DEF BaseInv, PostInv, mVars
<1> QED
  BY <1>1, <1>3, <1>4, <1>5, <1>6 DEF BaseInv
\* The request of the worker has been answered: no handler of its requests is
\* busy.
LEMMA AnsweredIdle ==
    ASSUME LinkInv, Serial, Answered
    PROVE  /\ workers[WorkerID] # None /\ via' = None
           /\ \A p \in Reporters : Idle(p)
<1>1. via # None /\ Idle(via) /\ via' = None /\ via \in Reporters
  BY DEF Answered, Serial, LinkInv
<1> QED
  BY <1>1 DEF LinkInv, Serial

LEMMA BaseReporting ==
    ASSUME BaseInv, Serial, Reporting
    PROVE  BaseInv'
<1>1. WorkerInv /\ OutInv /\ MgrInv /\ LinkInv /\ PostInv
  BY DEF BaseInv, MgrInv
<1>2. ASSUME UNCHANGED wVars PROVE WorkerInv' /\ OutInv'
  BY <1>1, <1>2, WorkerFrame, OutFrame DEF wVars, workerVars, runVars, mjVars, runnerVars
<1>3. ASSUME UNCHANGED mjVars PROVE OutInv'
  BY <1>1, <1>3, OutFrame DEF mjVars, runnerVars
<1>4. ASSUME UNCHANGED mVars PROVE MgrTypes' /\ ReporterInv' /\ ClientInv'
  BY <1>4, MgrFrame DEF BaseInv, mVars
<1>5. CASE RegisterWorker \/ UpdateStatus \/ UpdateSchedInfo
  <2>1. PICK r : /\ PostRequest(r)
                 /\ \/ spc = "register" /\ r = Registration
                    \/ spc = "update" /\ r = StatusReport(smsg)
                    \/ spc = "report" /\ schedule # {} /\ r = Schedules(schedule)
    BY <1>5 DEF RegisterWorker, UpdateStatus, UpdateSchedInfo
  <2>2. spc \in {"update", "report"} => WInv
    BY <1>1 DEF WorkerInv, Booting
  <2>3. spc = "update" => StatusReport(smsg) \in JobReports
    BY <2>2, ReportType DEF WInv, ControlInv, LockInv
  <2>4. spc = "report" /\ schedule # {} => Schedules(schedule) \in ScheduleLists
    BY <2>2, SchedulesType DEF WInv, WTypeOK
  <2>5. MgrInv'
    BY <1>1, <2>1, <2>3, <2>4, PostStep
  <2>6. UNCHANGED wVars
    BY <2>1 DEF PostRequest
  <2> QED
    BY <1>2, <2>5, <2>6 DEF BaseInv, MgrInv
<1>6. CASE Registered
  <2>1. /\ WorkerInv' /\ UNCHANGED <<mjVars, mVars, wcmd, server>> /\ Answered
        /\ spc = "register" /\ spc' = "boot"
    BY <1>1, <1>6, EarlySteps DEF Registered
  <2>2. LinkInv'
    BY <1>1, <2>1, AnsweredIdle DEF LinkInv, Booting, mVars, Idle
  <2>3. PostInv'
    BY <1>1, <2>1, PostFrame DEF mVars
  <2> QED
    BY <1>3, <1>4, <2>1, <2>2, <2>3 DEF BaseInv
<1>7. CASE ServerUp
  <2>1. UNCHANGED <<wVars, mVars, via, wcmd>> /\ server' = TRUE /\ spc = "fetch"
    BY <1>7 DEF ServerUp, Serial
  <2>2. UNCHANGED <<spc, smsg>> /\ Booting
    BY <2>1 DEF wVars, workerVars, schedVars, Booting
  <2>3. LinkInv'
    BY <1>1, <2>1, <2>2 DEF LinkInv, Booting, mVars, Idle
  <2>4. PostInv'
    BY <1>1, <2>1, PostFrame DEF mVars
  <2> QED
    BY <1>2, <1>4, <2>1, <2>3, <2>4 DEF BaseInv
<1>8. CASE BootLock
  <2>1. /\ WorkerInv' /\ UNCHANGED <<mjVars, mVars, netVars>>
        /\ spc = "boot" /\ spc' = "fetch"
    BY <1>1, <1>8, EarlySteps DEF BootLock
  <2>2. LinkInv'
    BY <1>1, <2>1 DEF LinkInv, Booting, mVars, netVars, Idle
  <2>3. PostInv'
    BY <1>1, <2>1, PostFrame DEF mVars, netVars
  <2> QED
    BY <1>3, <1>4, <2>1, <2>2, <2>3 DEF BaseInv
<1>9. CASE Boot
  <2>1. /\ WorkerInv' /\ UNCHANGED <<mVars, netVars, smsg>> /\ UNCHANGED runnerVars
        /\ spc = "fetch" /\ spc' = "report" /\ server
    BY <1>1, <1>9, BootStep DEF Boot, Serial
  <2>2. LinkInv'
    BY <1>1, <2>1 DEF LinkInv, Booting, mVars, netVars, Idle
  <2>3. PostInv'
    BY <1>1, <2>1, PostFrame DEF mVars, netVars
  <2>4. OutInv'
    BY <1>1, <2>1, OutFrame DEF runnerVars
  <2> QED
    BY <1>4, <2>1, <2>2, <2>3, <2>4 DEF BaseInv
<1>10. CASE StatusUpdated \/ SchedInfoUpdated
  <2>1. WorkerInv' /\ ~Booting /\ ~Booting' /\ UNCHANGED mjVars
    BY <1>1, <1>10, UpdatedSteps
  <2>2. /\ UNCHANGED <<mVars, wcmd, server>> /\ spc' \in {"report", "select"}
        /\ Answered \/ (via = None /\ via' = None)
    BY <1>10 DEF StatusUpdated, SchedInfoUpdated
  <2>3. via' = None /\ \A p \in Reporters : Idle(p)
    BY <1>1, <2>1, <2>2, AnsweredIdle DEF LinkInv, Booting
  <2>4. LinkInv'
    BY <1>1, <2>1, <2>2, <2>3 DEF LinkInv, Booting, mVars, Idle
  <2>5. PostInv'
    BY <1>1, <2>2, PostFrame DEF mVars
  <2> QED
    BY <1>3, <1>4, <2>1, <2>2, <2>4, <2>5 DEF BaseInv
<1> QED
  BY <1>5, <1>6, <1>7, <1>8, <1>9, <1>10 DEF Reporting

LEMMA BaseCommand ==
    ASSUME BaseInv, NEW c \in Clients,
           \/ \E cmd \in Cmds, j \in Jobs : ClientCmd(c, cmd, j)
           \/ Deliver(c) \/ Delivered(c)
    PROVE  BaseInv' /\ UNCHANGED runVars
<1>1. WorkerInv /\ OutInv /\ MgrInv /\ MgrTypes /\ LinkInv /\ PostInv /\ c \in Threads
  BY DEF BaseInv, MgrInv, Threads
<1>2. UNCHANGED runVars
  BY DEF ClientCmd, Deliver, Delivered, wVars, workerVars, runVars, schedVars
<1>3. WorkerInv' /\ OutInv'
  BY <1>1, <1>2, WorkerFrame, OutFrame DEF runVars, mjVars, runnerVars
<1>4. UNCHANGED <<spc, smsg>>
  BY <1>2 DEF runVars, schedVars
<1>5. CASE Deliver(c)
  <2>1. /\ UNCHANGED <<mVars, via, server>> /\ mgrpc[c] = "post"
        /\ wcmd' = [wcmd EXCEPT ![c] = IF server THEN "sent" ELSE "failed"]
    BY <1>5 DEF Deliver
  <2>2. MgrTypes' /\ ReporterInv' /\ ClientInv'
    BY <2>1, MgrFrame DEF BaseInv, mVars
  <2>3. LinkInv'
    BY <1>1, <1>4, <2>1 DEF LinkInv, Booting, mVars, Idle, StatusReport
  <2>4. PostInv'
    <3>1. ASSUME NEW d \in Clients
          PROVE  \/ wcmd'[d] = wcmd[d]
                 \/ d = c /\ wcmd'[d] = IF server THEN "sent" ELSE "failed"
      BY <2>1
    <3> QED
      BY <1>1, <2>1, <3>1 DEF PostInv, mVars
  <2> QED
    BY <1>2, <1>3, <2>2, <2>3, <2>4 DEF BaseInv
<1>6. ASSUME NEW cmd \in Cmds, NEW j \in Jobs, ClientCmd(c, cmd, j) PROVE BaseInv'
  <2> DEFINE r == Request(cmd, j)
  <2>1. /\ mgrpc[c] = "idle" /\ req' = [req EXCEPT ![c] = r]
        /\ mgrpc' = [mgrpc EXCEPT ![c] = Mgr!Entry[r.kind]]
        /\ UNCHANGED <<workers, status, cur, worker, via, wcmd, server>>
    BY <1>6 DEF ClientCmd, Mgr!Accept, Mgr!dbVars
  <2>2. r \in ClientRequests /\ r.kind = cmd /\ r \in Messages
    BY DEF Request, ClientRequests, Messages
  <2>3. Mgr!Entry[cmd] = "lookup"
    BY SystemAssumption DEF Mgr!Entry
  <2> HIDE DEF r
  <2>4. Moved(c, "lookup", r, cur[c])
    <3>1. cur = [cur EXCEPT ![c] = cur[c]]
      BY <1>1 DEF MgrTypes
    <3> QED
      BY <2>1, <2>2, <2>3, <3>1 DEF Moved
  <2>5. ClientOK("lookup", r, cur[c]) /\ "lookup" \in Mgr!PC
    BY <2>2 DEF ClientOK, Mgr!PC
  <2>6. cur[c] \in Mgr!MirrorStatus \cup {None} /\ worker' \in [Threads -> Mgr!WorkerStatus \cup {None}]
    BY <1>1, <2>1 DEF MgrTypes
  <2>7. MgrTypes' /\ ReporterInv' /\ ClientInv' /\ LinkInv'
    BY <1>1, <1>4, <2>1, <2>2, <2>4, <2>5, <2>6, ClientMove
  <2>8. PostInv'
    <3>1. ASSUME NEW d \in Clients, wcmd[d] # "none" PROVE mgrpc'[d] = "post"
      <4>1. d # c /\ mgrpc[d] = "post" /\ d \in Threads
        BY <1>1, <2>1, <3>1 DEF PostInv, Threads
      <4> QED
        BY <1>1, <2>1, <4>1 DEF MgrTypes
    <3> QED
      BY <1>1, <2>1, <3>1 DEF PostInv
  <2> QED
    BY <1>3, <2>7, <2>8 DEF BaseInv
<1>7. CASE Delivered(c)
  <2>1. /\ wcmd' = [wcmd EXCEPT ![c] = "none"] /\ Mgr!Respond(c)
        /\ UNCHANGED <<workers, status, via, server>>
    BY <1>7 DEF Delivered, Mgr!Post, Mgr!dbVars
  <2>2. Moved(c, "idle", None, None) /\ worker' = [worker EXCEPT ![c] = None]
    BY <1>1, <2>1, EndMoves
  <2>3. ClientOK("idle", None, None) /\ "idle" \in Mgr!PC
    BY DEF ClientOK, Mgr!PC
  <2>4. worker' \in [Threads -> Mgr!WorkerStatus \cup {None}]
    BY <1>1, <2>2 DEF MgrTypes
  <2>5. MgrTypes' /\ ReporterInv' /\ ClientInv' /\ LinkInv'
    BY <1>1, <1>4, <2>1, <2>2, <2>3, <2>4, ClientMove
  <2>6. PostInv'
    <3>1. ASSUME NEW d \in Clients
          PROVE  /\ wcmd'[d] = wcmd[d] \/ wcmd'[d] = "none"
                 /\ wcmd'[d] # "none" => d # c
      BY <1>1, <2>1 DEF PostInv
    <3>2. ASSUME NEW d \in Clients, wcmd'[d] # "none" PROVE mgrpc'[d] = "post"
      <4>1. d \in Threads /\ mgrpc[d] = "post"
        BY <1>1, <3>1, <3>2 DEF PostInv, Threads
      <4> QED
        BY <1>1, <1>7, <2>2, <3>1, <3>2, <4>1 DEF Moved, MgrTypes
    <3>3. wcmd' \in [Clients -> {"none", "sent", "taken", "done", "failed"}]
      BY <1>1, <2>1 DEF PostInv
    <3> QED
      BY <1>1, <2>1, <3>1, <3>2, <3>3 DEF PostInv
  <2> QED
    BY <1>2, <1>3, <2>5, <2>6 DEF BaseInv
<1> QED
  BY <1>2, <1>5, <1>6, <1>7
LEMMA BaseCrash ==
    ASSUME BaseInv, Crash
    PROVE  BaseInv' /\ Booting'
<1>1. WorkerInv' /\ Booting'
  BY CrashStep DEF BaseInv
<1>2. OutInv'
  BY DEF Crash, OutInv
<1>3. MgrTypes' /\ ReporterInv' /\ ClientInv'
  BY MgrFrame DEF BaseInv, Crash, mVars
<1>4. spc' = "register" /\ server' = FALSE /\ via' = None
  BY DEF Crash
<1>5. LinkInv'
  BY <1>4 DEF LinkInv, Booting
<1>6. PostInv'
  <2>1. ASSUME NEW c \in Clients
        PROVE  wcmd'[c] = IF wcmd[c] \in {"sent", "taken"} THEN "failed" ELSE wcmd[c]
    BY DEF Crash
  <2>2. wcmd' \in [Clients -> {"none", "sent", "taken", "done", "failed"}]
    BY DEF Crash, BaseInv, PostInv
  <2>3. UNCHANGED mgrpc
    BY DEF Crash, mVars
  <2> QED
    BY <1>4, <2>1, <2>2, <2>3 DEF BaseInv, PostInv
<1> QED
  BY <1>1, <1>2, <1>3, <1>5, <1>6 DEF BaseInv

LEMMA BaseFrame ==
    ASSUME BaseInv, UNCHANGED sysVars
    PROVE  BaseInv'
<1>1. UNCHANGED runVars /\ UNCHANGED <<out, rpc>>
  BY DEF sysVars, runVars, wVars, workerVars, mjVars, runnerVars
<1>2. WorkerInv' /\ OutInv'
  BY <1>1, WorkerFrame, OutFrame DEF BaseInv
<1>3. UNCHANGED <<mVars, netVars>> /\ UNCHANGED <<spc, smsg>>
  BY <1>1 DEF sysVars, runVars, schedVars
<1>4. MgrTypes' /\ ReporterInv' /\ ClientInv'
  BY <1>3, MgrFrame DEF BaseInv, mVars
<1>5. PostInv'
  BY <1>3, PostFrame DEF BaseInv, mVars, netVars
<1>6. LinkInv'
  BY <1>3 DEF BaseInv, LinkInv, Booting, mVars, netVars, Idle, StatusReport
<1> QED
  BY <1>2, <1>4, <1>5, <1>6 DEF BaseInv

LEMMA BaseStep ==
    ASSUME BaseInv, Serial, SysNext
    PROVE  BaseInv'
<1>1. ASSUME NEW c \in Clients, ~panicked,
             \/ \E cmd \in Cmds, j \in Jobs : ClientCmd(c, cmd, j)
             \/ Deliver(c) \/ Take(c) \/ Delivered(c)
      PROVE  BaseInv'
  BY <1>1, BaseCommand, BaseTake
<1> QED
  BY <1>1, BaseWorker, BaseReporting, BaseHandle, BaseManager, BaseCrash, BaseFrame
  DEF SysNext, Commands, SysRest

LEMMA BaseInvariance == Serial => (SysSpec => []BaseInv)
<1> SUFFICES ASSUME Serial PROVE SysSpec => []BaseInv
  OBVIOUS
<1>1. BaseInv /\ [SysNext]_sysVars => BaseInv'
  BY BaseStep, BaseFrame
<1> QED
  BY <1>1, BaseInit, PTL DEF SysSpec
-----------------------------------------------------------------------------
(***************************************************************************)
(* What is on its way.                                                     *)
(***************************************************************************)

\* The steps that the worker takes after its boot, and those by which commands
\* come and go.
LocalStep ==
    /\ ~panicked
    /\ \/ WorkerStep \/ Handle
       \/ \E c \in Clients :
             \/ Take(c) \/ Deliver(c) \/ Delivered(c)
             \/ \E cmd \in Cmds, j \in Jobs : ClientCmd(c, cmd, j)
       \/ UpdateStatus \/ UpdateSchedInfo \/ StatusUpdated \/ SchedInfoUpdated

\* What the control loop makes of the job's state.
LEMMA LoopTakes ==
    ASSUME WInv, mpc = "idle", NEW g \in Runs, LoopStep(g), NEW j \in Jobs
    PROVE  \/ state'[j] = state[j] /\ ctrlChan'[j] = ctrlChan[j]
           \/ /\ Job(g) = j /\ ctrlChan'[j] = NoCtrl
              /\ \/ ctrlChan[j] = "jobStop" /\ state'[j] = "paused"
                 \/ ctrlChan[j] = "jobDisable" /\ state'[j] = "disabled"
                 \/ /\ ctrlChan[j] \in {"jobStart", "jobForceStart", "jobRestart"}
                    /\ state'[j] = "ready"
                    /\ state[j] = "ready" \/ pc'[g] = "loop"
<1>1. ControlTypes /\ ControlInv /\ Job(g) \in Jobs
  BY HasControlTypes, RunsAssumption DEF WInv, Job
<1>2. ctrlChan[Job(g)] # "jobHalt"
  BY <1>1 DEF ControlInv, PendingInv
<1>3. CASE Begin(g) \/ LoopTop(g) \/ JobDone(g) \/ Reap(g)
  BY <1>3 DEF Begin, LoopTop, JobDone, Reap, jobVars
<1>4. CASE WaitCtrl(g)
  <2>1. TakesBusy(g)
    BY <1>1, <1>4, TakesLemma
  <2>2. state[Job(g)] = "ready"
    BY <1>1, <2>1 DEF TakesBusy, ControlInv, StateInv, StateOf
  <2>3. CASE j = Job(g)
    BY <1>1, <1>2, <2>1, <2>2, <2>3 DEF TakesBusy, Moves, ControlTypes
  <2>4. CASE j # Job(g)
    BY <1>1, <2>1, <2>4 DEF TakesBusy, Moves, ControlTypes
  <2> QED
    BY <2>3, <2>4
<1>5. CASE IdleCtrl(g)
  <2>1. TakesIdle(g)
    BY <1>1, <1>5, TakesLemma
  <2>2. CASE j = Job(g)
    BY <1>1, <1>2, <2>1, <2>2 DEF TakesIdle, Moves, ControlTypes
  <2>3. CASE j # Job(g)
    BY <1>1, <2>1, <2>3 DEF TakesIdle, Moves, ControlTypes
  <2> QED
    BY <2>2, <2>3
<1> QED
  BY <1>3, <1>4, <1>5 DEF LoopStep

\* Only a control loop changes the state of a job.
LEMMA StateMoves ==
    ASSUME BaseInv, ~Booting, LocalStep, NEW j \in Jobs
    PROVE  \/ state'[j] = state[j]
           \/ state'[j] = "paused" /\ ctrlChan[j] = "jobStop"
           \/ state'[j] = "disabled" /\ ctrlChan[j] = "jobDisable"
           \/ /\ ctrlChan[j] \in {"jobStart", "jobForceStart", "jobRestart"}
              /\ state'[j] = "ready" /\ ReportDue(j)'
<1>1. WInv /\ mpc = "idle"
  BY DEF BaseInv, WorkerInv
<1>2. ASSUME NEW g \in Runs, LoopStep(g)
      PROVE  \/ state'[j] = state[j]
             \/ state'[j] = "paused" /\ ctrlChan[j] = "jobStop"
             \/ state'[j] = "disabled" /\ ctrlChan[j] = "jobDisable"
             \/ /\ ctrlChan[j] \in {"jobStart", "jobForceStart", "jobRestart"}
                /\ state'[j] = "ready" /\ ReportDue(j)'
  <2>1. ASSUME Job(g) = j, pc'[g] = "loop" PROVE ReportDue(j)'
    BY <2>1 DEF ReportDue, Tells, Job
  <2> QED
    BY <1>1, <1>2, <2>1, LoopTakes
<1>3. ASSUME NEW g \in Runs, RunnerStep(g) \/ ProviderStep(g) PROVE UNCHANGED state
  BY <1>3 DEF RunnerStep, ProviderStep, Acquire, BypassSemaphore, KilledWaiting, Send,
     PreJobHooks, PreExecHooks, AwaitStarted, AwaitSync, Terminate, PostHooks, Return,
     ProviderStart, ProviderEnd, Timeout, jobVars
<1>4. CASE JobStep
  BY <1>2, <1>3, <1>4 DEF JobStep, Release, jobVars
<1>5. CASE ~JobStep
  <2>1. CASE WorkerStep \/ Handle
    BY <1>5, <2>1 DEF WorkerStep, Handle, HTTPStep, HTTPBranch, HTTPSend, HTTPEval, HTTPAwait,
       SendCtrl, SchedRecv, SchedLookup, SchedCheck, SchedPush, SchedPop, ReceiveMsg,
       mjVars, jobVars
  <2>2. CASE UpdateStatus \/ UpdateSchedInfo \/ StatusUpdated \/ SchedInfoUpdated
    BY <2>2 DEF UpdateStatus, UpdateSchedInfo, StatusUpdated, SchedInfoUpdated, PostRequest,
       wVars, mjVars, jobVars
  <2>3. ASSUME NEW c \in Clients,
               \/ Take(c) \/ Deliver(c) \/ Delivered(c)
               \/ \E cmd \in Cmds, k \in Jobs : ClientCmd(c, cmd, k)
        PROVE  UNCHANGED state
    BY <2>3 DEF Take, HTTPCmd, Deliver, Delivered, ClientCmd, wVars, mjVars, jobVars
  <2> QED
    BY <2>1, <2>2, <2>3 DEF LocalStep
<1> QED
  BY <1>4, <1>5
\* A command that the manager has stored is posted and handled.
LEMMA PostKept ==
    ASSUME BaseInv, ~Booting, LocalStep, NEW j \in Jobs, NEW K, DuePost(j, K)
    PROVE  DuePost(j, K)' \/ DueCmd(j, K)'
<1>1. PICK c \in Clients : /\ mgrpc[c] = "post" /\ wcmd[c] \in {"none", "sent"}
                           /\ req[c].mirror = j /\ req[c].kind \in K
  BY DEF DuePost
<1>2. /\ c \in Threads /\ c \notin Reporters /\ MgrTypes /\ server
      /\ wcmd \in [Clients -> {"none", "sent", "taken", "done", "failed"}]
  BY SystemAssumption DEF Threads, BaseInv, LinkInv, PostInv
<1>3. ASSUME mgrpc'[c] = mgrpc[c], req'[c] = req[c], wcmd'[c] \in {"none", "sent"}
      PROVE  DuePost(j, K)'
  BY <1>1, <1>3 DEF DuePost
<1>4. ASSUME UNCHANGED <<mVars, wcmd>> PROVE DuePost(j, K)'
  BY <1>1, <1>3, <1>4 DEF mVars
<1>5. CASE WorkerStep \/ StatusUpdated \/ SchedInfoUpdated
  BY <1>4, <1>5 DEF WorkerStep, StatusUpdated, SchedInfoUpdated, netVars
<1>6. CASE Handle
  <2>1. wcmd'[c] = wcmd[c] /\ UNCHANGED <<mgrpc, req>>
    BY <1>1, <1>6 DEF Handle, mVars
  <2> QED
    BY <1>1, <1>3, <2>1
<1>7. CASE UpdateStatus \/ UpdateSchedInfo
  <2>1. PICK r : PostRequest(r)
    BY <1>7 DEF UpdateStatus, UpdateSchedInfo
  <2>2. PICK p \in Reporters : Mgr!Accept(p, r)
    BY <2>1 DEF PostRequest
  <2>3. mgrpc'[c] = mgrpc[c] /\ req'[c] = req[c] /\ UNCHANGED wcmd
    BY <1>2, <2>1, <2>2 DEF PostRequest, Mgr!Accept, MgrTypes
  <2> QED
    BY <1>1, <1>3, <2>3
<1>8. ASSUME NEW d \in Clients, Take(d) PROVE DuePost(j, K)' \/ DueCmd(j, K)'
  <2>1. CASE d = c
    BY <1>1, <1>8, <2>1 DEF Take, HTTPCmd, DueCmd
  <2>2. CASE d # c
    <3>1. wcmd'[c] = wcmd[c] /\ UNCHANGED <<mgrpc, req>>
      BY <1>2, <1>8, <2>2 DEF Take, mVars
    <3> QED
      BY <1>1, <1>3, <3>1
  <2> QED
    BY <2>1, <2>2
<1>9. ASSUME NEW d \in Clients, Deliver(d) PROVE DuePost(j, K)'
  <2>1. wcmd'[c] \in {"none", "sent"} /\ UNCHANGED <<mgrpc, req>>
    BY <1>1, <1>2, <1>9 DEF Deliver, mVars
  <2> QED
    BY <1>3, <2>1
<1>10. ASSUME NEW d \in Clients, Delivered(d) PROVE DuePost(j, K)'
  <2>1. d # c
    BY <1>1, <1>10 DEF Delivered
  <2>2. wcmd'[c] = wcmd[c] /\ mgrpc'[c] = mgrpc[c] /\ req'[c] = req[c]
    BY <1>2, <1>10, <2>1 DEF Delivered, Mgr!Post, Mgr!Respond, MgrTypes
  <2> QED
    BY <1>1, <1>3, <2>2
<1>11. ASSUME NEW d \in Clients, NEW cmd \in Cmds, NEW k \in Jobs, ClientCmd(d, cmd, k)
       PROVE DuePost(j, K)'
  <2>1. d # c
    BY <1>1, <1>11 DEF ClientCmd, Mgr!Accept
  <2>2. wcmd'[c] = wcmd[c] /\ mgrpc'[c] = mgrpc[c] /\ req'[c] = req[c]
    BY <1>2, <1>11, <2>1 DEF ClientCmd, Mgr!Accept, MgrTypes
  <2> QED
    BY <1>1, <1>3, <2>2
<1> QED
  BY <1>5, <1>6, <1>7, <1>8, <1>9, <1>10, <1>11 DEF LocalStep

\* The steps that are none of the handler's.
LEMMA NoHandler ==
    ASSUME LocalStep, ~Handle, \A c \in Clients : ~Take(c)
    PROVE  UNCHANGED httpVars
BY DEF LocalStep, WorkerStep, JobStep, workerVars, SchedRecv, SchedLookup, SchedCheck, SchedPush,
   SchedPop, Deliver, Delivered, ClientCmd, UpdateStatus, UpdateSchedInfo, StatusUpdated,
   SchedInfoUpdated, PostRequest, wVars

LEMMA CmdKept ==
    ASSUME BaseInv, LocalStep, NEW j \in Jobs, NEW K \in SUBSET Stops, DueCmd(j, K)
    PROVE  DueCmd(j, K)' \/ DueCtrl(j, K)' \/ (state[j] = "disabled" /\ UNCHANGED state)
<1>1. hpc \in {"branch", "send"} /\ hjob = j /\ hcmd \in K /\ hcmd \in {"stop", "disable"}
  BY DEF DueCmd, Stops
<1>2. CASE Handle
  <2>1. CASE HTTPBranch
    <3>1. \/ hpc' = "send" /\ UNCHANGED <<hcmd, hjob>>
          \/ state[hjob] = "disabled" /\ UNCHANGED state
      BY <1>1, <2>1 DEF HTTPBranch, Listening, jobVars, Starting
    <3> QED
      BY <1>1, <3>1 DEF DueCmd
  <2>2. CASE HTTPSend
    <3>1. ctrlChan' = [ctrlChan EXCEPT ![j] = Ctrl[hcmd]]
      BY <1>1, <2>2 DEF HTTPSend, SendCtrl
    <3>2. ctrlChan \in [Jobs -> CtrlAction \cup {NoCtrl}]
      <4>1. ~Booting
        BY <1>1 DEF BaseInv, WorkerInv, Unborn
      <4> QED
        BY <4>1 DEF BaseInv, WorkerInv, WInv, MJInv, MJTypeOK
    <3>3. ctrlChan'[j] = Ctrl[hcmd]
      BY <3>1, <3>2
    <3> QED
      BY <1>1, <3>3 DEF DueCtrl
  <2> QED
    BY <1>1, <1>2, <2>1, <2>2 DEF Handle, HTTPStep, HTTPEval, HTTPAwait
<1>3. \A c \in Clients : ~Take(c)
  BY <1>1 DEF Take, HTTPCmd
<1>4. CASE ~Handle
  BY <1>1, <1>3, <1>4, NoHandler DEF DueCmd, httpVars
<1> QED
  BY <1>2, <1>4

LEMMA StopCtrls == Ctrl["stop"] = "jobStop" /\ Ctrl["disable"] = "jobDisable"
BY DEF Ctrl

\* ctrlChan changes by a send to an empty buffer or by a control loop.
LEMMA CtrlMoves ==
    ASSUME BaseInv, ~Booting, LocalStep, NEW j \in Jobs
    PROVE  \/ ctrlChan'[j] = ctrlChan[j]
           \/ /\ ctrlChan[j] = NoCtrl
              /\ \/ HTTPSend /\ hjob = j /\ ctrlChan'[j] = Ctrl[hcmd]
                 \/ ctrlChan'[j] = "jobStart"
           \/ /\ ctrlChan'[j] = NoCtrl
              /\ ctrlChan[j] = "jobStop" => state'[j] = "paused"
              /\ ctrlChan[j] = "jobDisable" => state'[j] = "disabled"
<1>1. WInv /\ mpc = "idle" /\ ctrlChan \in [Jobs -> CtrlAction \cup {NoCtrl}]
  BY DEF BaseInv, WorkerInv, WInv, MJInv, MJTypeOK
<1>2. ASSUME NEW g \in Runs, RunnerStep(g) \/ ProviderStep(g) PROVE UNCHANGED ctrlChan
  BY <1>2 DEF RunnerStep, ProviderStep, Acquire, BypassSemaphore, KilledWaiting, Send,
     PreJobHooks, PreExecHooks, AwaitStarted, AwaitSync, Terminate, PostHooks, Return,
     ProviderStart, ProviderEnd, Timeout, jobVars
<1>3. CASE JobStep
  BY <1>1, <1>2, <1>3, LoopTakes DEF JobStep, Release, jobVars
<1>4. CASE HTTPSend
  BY <1>1, <1>4 DEF HTTPSend, SendCtrl
<1>5. CASE SchedPush
  BY <1>1, <1>5 DEF SchedPush, SendCtrl
<1>6. CASE ~JobStep /\ ~HTTPSend /\ ~SchedPush
  <2>1. CASE WorkerStep \/ Handle
    BY <1>6, <2>1 DEF WorkerStep, Handle, HTTPStep, HTTPBranch, HTTPEval, HTTPAwait,
       SchedRecv, SchedLookup, SchedCheck, SchedPop, ReceiveMsg, mjVars, jobVars
  <2>2. CASE UpdateStatus \/ UpdateSchedInfo \/ StatusUpdated \/ SchedInfoUpdated
    BY <2>2 DEF UpdateStatus, UpdateSchedInfo, StatusUpdated, SchedInfoUpdated, PostRequest,
       wVars, mjVars, jobVars
  <2>3. ASSUME NEW c \in Clients,
               \/ Take(c) \/ Deliver(c) \/ Delivered(c)
               \/ \E cmd \in Cmds, k \in Jobs : ClientCmd(c, cmd, k)
        PROVE  UNCHANGED ctrlChan
    BY <2>3 DEF Take, HTTPCmd, Deliver, Delivered, ClientCmd, wVars, mjVars, jobVars
  <2> QED
    BY <2>1, <2>2, <2>3 DEF LocalStep
<1> QED
  BY <1>3, <1>4, <1>5, <1>6

\* A command that is due stays so until it is carried out.
LEMMA DueKept ==
    ASSUME BaseInv, ~Booting, LocalStep, NEW j \in Jobs, NEW K \in SUBSET Stops, Due(j, K)
    PROVE  \/ Due(j, K)' \/ state'[j] = "disabled"
           \/ "stop" \in K /\ state'[j] = "paused"
<1>1. CASE DuePost(j, K)
  BY <1>1, PostKept DEF Due
<1>2. CASE DueCmd(j, K)
  BY <1>2, CmdKept DEF Due
<1>3. CASE DueCtrl(j, K)
  <2>1. PICK k \in K : ctrlChan[j] = Ctrl[k]
    BY <1>3 DEF DueCtrl
  <2>2. CASE ctrlChan'[j] = ctrlChan[j]
    BY <2>1, <2>2 DEF Due, DueCtrl
  <2>3. CASE ctrlChan'[j] # ctrlChan[j]
    BY <2>1, <2>3, CtrlMoves, StopCtrls DEF Stops, NoCtrl
  <2> QED
    BY <2>2, <2>3
<1> QED
  BY <1>1, <1>2, <1>3 DEF Due
\* managerChan changes by a runner's send and by the scheduler's receive.
LEMMA QueueMoves ==
    ASSUME LocalStep
    PROVE  \/ UNCHANGED managerChan
           \/ \E g \in Runs : Send(g) /\ UNCHANGED workerVars
           \/ SchedRecv
<1>1. CASE JobStep
  <2>1. ASSUME NEW g \in Runs, LoopStep(g) PROVE UNCHANGED managerChan
    BY <2>1 DEF LoopStep, Begin, LoopTop, JobDone, WaitCtrl, Reap, IdleCtrl, chanVars
  <2>2. ASSUME NEW g \in Runs, RunnerStep(g) \/ ProviderStep(g), ~Send(g)
        PROVE  UNCHANGED managerChan
    BY <2>2 DEF RunnerStep, ProviderStep, Acquire, BypassSemaphore, KilledWaiting,
       PreJobHooks, PreExecHooks, AwaitStarted, AwaitSync, Terminate, PostHooks, Return,
       ProviderStart, ProviderEnd, Timeout, chanVars
  <2> QED
    BY <1>1, <2>1, <2>2 DEF JobStep, Release
<1>2. CASE ~JobStep
  <2>1. CASE WorkerStep \/ Handle
    BY <1>2, <2>1 DEF WorkerStep, Handle, HTTPStep, HTTPBranch, HTTPSend, HTTPEval, HTTPAwait,
       SchedLookup, SchedCheck, SchedPop, SchedPush, SendCtrl, mjVars, chanVars
  <2>2. CASE UpdateStatus \/ UpdateSchedInfo \/ StatusUpdated \/ SchedInfoUpdated
    BY <2>2 DEF UpdateStatus, UpdateSchedInfo, StatusUpdated, SchedInfoUpdated, PostRequest,
       wVars, mjVars, chanVars
  <2>3. ASSUME NEW c \in Clients,
               \/ Take(c) \/ Deliver(c) \/ Delivered(c)
               \/ \E cmd \in Cmds, k \in Jobs : ClientCmd(c, cmd, k)
        PROVE  UNCHANGED managerChan
    BY <2>3 DEF Take, HTTPCmd, Deliver, Delivered, ClientCmd, wVars, mjVars, chanVars
  <2> QED
    BY <2>1, <2>2, <2>3 DEF LocalStep
<1> QED
  BY <1>1, <1>2

\* What a send and a receive make of the queue.
LEMMA SendQueue ==
    ASSUME WInv, NEW g \in Runs, Send(g)
    PROVE  /\ out[g] \in jobMessage /\ Len(managerChan') = Len(managerChan) + 1
           /\ Len(managerChan) \in Nat
           /\ managerChan'[Len(managerChan) + 1] = out[g]
           /\ \A i \in 1..Len(managerChan) : managerChan'[i] = managerChan[i]
<1>1. managerChan \in Seq(jobMessage) /\ out[g] \in jobMessage
  BY DEF WInv, MJInv, MJTypeOK, Send
<1>2. managerChan' = Append(managerChan, out[g])
  BY DEF Send
<1> QED
  BY <1>1, <1>2

LEMMA RecvQueue ==
    ASSUME WInv, SchedRecv
    PROVE  /\ Len(managerChan) \in Nat \ {0} /\ Len(managerChan') = Len(managerChan) - 1
           /\ smsg' = managerChan[1] /\ spc' = "lookup" /\ spc = "select"
           /\ \A i \in 1..Len(managerChan') : managerChan'[i] = managerChan[i + 1]
<1>1. managerChan \in Seq(jobMessage) /\ managerChan # <<>>
  BY DEF WInv, MJInv, MJTypeOK, SchedRecv, ReceiveMsg
<1>2. managerChan' = Tail(managerChan) /\ smsg' = Head(managerChan)
  BY DEF SchedRecv, ReceiveMsg
<1>3. Len(managerChan) \in Nat \ {0} /\ Head(managerChan) = managerChan[1]
  BY <1>1
<1>4. Len(managerChan') = Len(managerChan) - 1
  BY <1>1, <1>2
<1>5. ASSUME NEW i \in 1..Len(managerChan') PROVE managerChan'[i] = managerChan[i + 1]
  BY <1>1, <1>2, <1>3, <1>4
<1> QED
  BY <1>2, <1>3, <1>4, <1>5 DEF SchedRecv

\* A message stays in the queue until the scheduler has it.
LEMMA QueueKept ==
    ASSUME BaseInv, ~Booting, LocalStep, NEW j \in Jobs,
           \E i \in 1..Len(managerChan) : managerChan[i].name = j
    PROVE  ReportDue(j)'
<1>1. PICK i \in 1..Len(managerChan) : managerChan[i].name = j
  OBVIOUS
<1>2. WInv
  BY DEF BaseInv, WorkerInv
<1>3. CASE UNCHANGED managerChan
  BY <1>1, <1>3 DEF ReportDue
<1>4. ASSUME NEW g \in Runs, Send(g) PROVE ReportDue(j)'
  <2>1. i \in 1..Len(managerChan') /\ managerChan'[i].name = j
    BY <1>1, <1>2, <1>4, SendQueue
  <2> QED
    BY <2>1 DEF ReportDue
<1>5. CASE SchedRecv
  <2>1. CASE i = 1
    <3>1. smsg'.name = j /\ spc' = "lookup"
      BY <1>1, <1>2, <1>5, <2>1, RecvQueue
    <3> QED
      BY <3>1 DEF ReportDue, Unwritten
  <2>2. CASE i # 1
    <3>1. i - 1 \in 1..Len(managerChan') /\ managerChan'[i - 1].name = j
      BY <1>1, <1>2, <1>5, <2>2, RecvQueue
    <3> QED
      BY <3>1 DEF ReportDue
  <2> QED
    BY <2>1, <2>2
<1> QED
  BY <1>3, <1>4, <1>5, QueueMoves

\* A message that the scheduler has got is stored, or dropped because the job
\* is not ready.
LEMMA UnwrittenKept ==
    ASSUME BaseInv, Serial, ~Booting, LocalStep, Unwritten
    PROVE  \/ Unwritten' /\ smsg' = smsg
           \/ SchedCheck /\ state[smsg.name] # "ready" /\ ~Unwritten'
<1>0. MgrTypes /\ LinkInv
  BY DEF BaseInv
<1>1. CASE SchedCheck
  <2>1. spc = "check" /\ via = None
    BY <1>0, <1>1 DEF SchedCheck, LinkInv
  <2>2. UNCHANGED via
    BY <1>1, <2>1 DEF LocalStep, WorkerStep, netVars, JobStep, workerVars, SchedCheck, schedVars,
       Handle, Take, Deliver, Delivered, ClientCmd, UpdateStatus, UpdateSchedInfo, StatusUpdated,
       SchedInfoUpdated
  <2> QED
    BY <1>1, <2>1, <2>2 DEF SchedCheck, Unwritten
<1>2. CASE ~SchedCheck
  <2>1. CASE UpdateStatus
    <3>1. PICK p \in Reporters : Mgr!Accept(p, StatusReport(smsg)) /\ via' = p
      BY <2>1 DEF UpdateStatus, PostRequest
    <3>2. spc = "update" /\ UNCHANGED <<spc, smsg>>
      BY <2>1 DEF UpdateStatus, PostRequest, wVars, workerVars, schedVars
    <3>3. mgrpc'[p] = "validate"
      <4>1. p \in Threads
        BY DEF Threads
      <4> QED
        BY <1>0, <3>1, <4>1 DEF Mgr!Accept, StatusReport, Mgr!Entry, MgrTypes
    <3> QED
      BY <3>1, <3>2, <3>3 DEF Unwritten, Idle
  <2>2. CASE ~UpdateStatus
    <3>1. spc \in {"lookup", "check", "update"}
      BY DEF Unwritten
    <3>2. ~StatusUpdated
      BY DEF StatusUpdated, Answered, Serial, Unwritten
    <3>3. /\ UNCHANGED <<smsg, via>>
          /\ spc' = spc \/ (spc = "lookup" /\ spc' = "check")
      BY <1>2, <2>2, <3>1, <3>2 DEF LocalStep, WorkerStep, JobStep, workerVars, schedVars, netVars,
         SchedRecv, SchedLookup, SchedPush, SchedPop, Handle, HTTPStep, HTTPBranch, HTTPSend,
         HTTPEval, HTTPAwait, Take, HTTPCmd, Deliver, Delivered, ClientCmd, UpdateSchedInfo,
         SchedInfoUpdated, wVars
    <3>4. via # None => mgrpc'[via] = mgrpc[via]
      <4>1. via # None => via \in Reporters
        BY <1>0 DEF LinkInv
      <4>2. CASE UNCHANGED mgrpc
        BY <4>2
      <4>3. ASSUME NEW c \in Clients, Delivered(c) \/ \E cmd \in Cmds, k \in Jobs : ClientCmd(c, cmd, k),
                   via # None
            PROVE  mgrpc'[via] = mgrpc[via]
        <5>1. via # c /\ via \in Threads
          BY <4>1, <4>3, SystemAssumption DEF Threads
        <5> QED
          BY <1>0, <4>3, <5>1 DEF Delivered, Mgr!Post, Mgr!Respond, ClientCmd, Mgr!Accept, MgrTypes
      <4>4. ~UpdateSchedInfo
        BY <3>1 DEF UpdateSchedInfo
      <4> QED
        BY <2>2, <4>2, <4>3, <4>4 DEF LocalStep, WorkerStep, Handle, Take, Deliver, StatusUpdated,
           SchedInfoUpdated, mVars
    <3> QED
      BY <3>3, <3>4 DEF Unwritten, Idle
  <2> QED
    BY <2>1, <2>2
<1> QED
  BY <1>1, <1>2
\* A Run moves by a step of its own, or is launched by the handler.
LEMMA RunMoves ==
    ASSUME BaseInv, ~Booting, LocalStep, NEW u \in Runs
    PROVE  \/ pc'[u] = pc[u] /\ rpc'[u] = rpc[u] /\ out'[u] = out[u]
           \/ /\ pc[u] = "off" /\ pc'[u] = "launched" /\ hcmd \in Starting
              /\ rpc'[u] = rpc[u] /\ out'[u] = out[u]
           \/ /\ LoopStep(u) \/ RunnerStep(u) \/ ProviderStep(u)
              /\ UNCHANGED <<workerVars, mVars, netVars>>
<1>1. /\ pc \in [Runs -> LoopPC] /\ rpc \in [Runs -> RunnerPC]
      /\ out \in [Runs -> jobMessage \cup {NoMsg}]
  BY DEF BaseInv, WorkerInv, WInv, MJInv, MJTypeOK
<1>2. CASE JobStep /\ UNCHANGED <<mVars, netVars>>
  <2>1. ASSUME NEW g \in Runs, g # u, LoopStep(g)
        PROVE  pc'[u] = pc[u] /\ rpc'[u] = rpc[u] /\ out'[u] = out[u]
    BY <1>1, <2>1 DEF LoopStep, Begin, LoopTop, JobDone, WaitCtrl, Reap, IdleCtrl, RunnerGone,
       Exit, Continue, runnerVars
  <2>2. ASSUME NEW g \in Runs, g # u, RunnerStep(g) \/ ProviderStep(g)
        PROVE  pc'[u] = pc[u] /\ rpc'[u] = rpc[u] /\ out'[u] = out[u]
    BY <1>1, <2>2 DEF RunnerStep, ProviderStep, Acquire, BypassSemaphore, KilledWaiting, Send,
       PreJobHooks, PreExecHooks, AwaitStarted, AwaitSync, Terminate, PostHooks, Return,
       ProviderStart, ProviderEnd, Timeout, HookFails, loopVars
  <2> QED
    BY <1>2, <2>1, <2>2 DEF JobStep, Release, runnerVars, loopVars
<1>3. CASE HTTPBranch
  <2>1. UNCHANGED <<rpc, out>> /\ (UNCHANGED pc \/ (hcmd \in Starting /\ \E g \in Runs : GoRun(g)))
    BY <1>3 DEF HTTPBranch, runnerVars
  <2> QED
    BY <1>1, <2>1 DEF GoRun
<1>4. CASE ~JobStep /\ ~HTTPBranch
  <2>1. CASE WorkerStep \/ Handle
    BY <1>4, <2>1 DEF WorkerStep, Handle, HTTPStep, HTTPSend, HTTPEval, HTTPAwait,
       SendCtrl, SchedRecv, SchedLookup, SchedCheck, SchedPush, SchedPop, ReceiveMsg,
       mjVars, loopVars, runnerVars
  <2>2. CASE UpdateStatus \/ UpdateSchedInfo \/ StatusUpdated \/ SchedInfoUpdated
    BY <2>2 DEF UpdateStatus, UpdateSchedInfo, StatusUpdated, SchedInfoUpdated, PostRequest,
       wVars, mjVars, loopVars, runnerVars
  <2>3. ASSUME NEW c \in Clients,
               \/ Take(c) \/ Deliver(c) \/ Delivered(c)
               \/ \E cmd \in Cmds, k \in Jobs : ClientCmd(c, cmd, k)
        PROVE  UNCHANGED <<pc, rpc, out>>
    BY <2>3 DEF Take, HTTPCmd, Deliver, Delivered, ClientCmd, wVars, mjVars, loopVars, runnerVars
  <2> QED
    BY <2>1, <2>2, <2>3 DEF LocalStep
<1>5. CASE JobStep /\ ~UNCHANGED <<mVars, netVars>>
  <2>1. UNCHANGED workerVars
    BY <1>5 DEF JobStep
  <2>2. ~Handle /\ ~WorkerStep
    <3>1. ~WorkerStep
      BY <1>5 DEF WorkerStep
    <3>2. ASSUME Handle PROVE FALSE
      <4>1. hpc' # hpc
        <5>1. hpc \in {"branch", "send", "eval", "await"}
          BY <3>2 DEF Handle, HTTPStep, HTTPBranch, HTTPSend, HTTPEval, HTTPAwait
        <5> QED
          BY <3>2, <5>1 DEF Handle, HTTPStep, HTTPBranch, HTTPSend, HTTPEval, HTTPAwait, HTTPReturn
      <4> QED
        BY <2>1, <4>1 DEF workerVars, httpVars
    <3> QED
      BY <3>1, <3>2
  <2>3. CASE UpdateStatus \/ UpdateSchedInfo \/ StatusUpdated \/ SchedInfoUpdated
    BY <2>3 DEF UpdateStatus, UpdateSchedInfo, StatusUpdated, SchedInfoUpdated, PostRequest,
       wVars, mjVars, loopVars, runnerVars
  <2>4. ASSUME NEW c \in Clients,
               \/ Take(c) \/ Deliver(c) \/ Delivered(c)
               \/ \E cmd \in Cmds, k \in Jobs : ClientCmd(c, cmd, k)
        PROVE  UNCHANGED <<pc, rpc, out>>
    BY <2>4 DEF Take, HTTPCmd, Deliver, Delivered, ClientCmd, wVars, mjVars, loopVars, runnerVars
  <2> QED
    BY <2>2, <2>3, <2>4 DEF LocalStep
<1> QED
  BY <1>2, <1>3, <1>4, <1>5

\* A run of a job that stays ready tells until it has sent.
LEMMA TellKept ==
    ASSUME BaseInv, ~Booting, LocalStep, NEW u \in Runs, Tells(u),
           state[Job(u)] = "ready", state'[Job(u)] = "ready"
    PROVE  Tells(u)' \/ (Send(u) /\ UNCHANGED workerVars)
<1>1. /\ WInv /\ ControlTypes /\ pc \in [Runs -> LoopPC] /\ rpc \in [Runs -> RunnerPC]
      /\ out \in [Runs -> jobMessage \cup {NoMsg}] /\ Job(u) \in Jobs
  BY HasControlTypes, RunsAssumption DEF BaseInv, WorkerInv, WInv, MJInv, MJTypeOK, Job
<1>2. \A g \in Runs : Message(g, "PreSyncing", FALSE) # NoMsg
  BY NullAssumption, MessageType
<1>3. rpc[u] \in {"none", "sem", "done"} => out[u] = NoMsg
  BY <1>1 DEF WInv, MJInv, QuietRunner
<1>4. CASE LoopStep(u)
  <2>1. CASE Begin(u) \/ LoopTop(u)
    BY <1>1, <2>1 DEF Begin, LoopTop, Tells
  <2>2. ~JobDone(u)
    BY <1>3 DEF JobDone, RunnerGone, Tells
  <2>3. CASE WaitCtrl(u)
    <3>1. TakesBusy(u) /\ UNCHANGED <<rpc, out>>
      BY <1>1, <2>3, TakesLemma DEF WaitCtrl, runnerVars
    <3>2. pc'[u] \in {"wait", "restarting"}
      BY <1>1, <3>1 DEF TakesBusy, Moves, ControlTypes
    <3> QED
      BY <3>1, <3>2 DEF Tells, TakesBusy
  <2>4. CASE Reap(u)
    BY <1>1, <2>4 DEF Reap, Tells, Continue, Exit, Killed
  <2>5. ~IdleCtrl(u)
    BY DEF IdleCtrl, Tells
  <2> QED
    BY <1>4, <2>1, <2>2, <2>3, <2>4, <2>5 DEF LoopStep
<1>5. CASE RunnerStep(u) /\ ~Send(u)
  <2>1. UNCHANGED pc
    BY <1>5 DEF RunnerStep, Acquire, BypassSemaphore, KilledWaiting, PreJobHooks, PreExecHooks,
       AwaitStarted, AwaitSync, Terminate, PostHooks, Return, loopVars
  <2>2. CASE pc[u] # "wait"
    BY <2>1, <2>2 DEF Tells
  <2>3. CASE pc[u] = "wait"
    <3>1. CASE Acquire(u) \/ BypassSemaphore(u)
      <4>1. out'[u] = Message(u, "PreSyncing", FALSE)
        BY <1>1, <3>1 DEF Acquire, BypassSemaphore
      <4> QED
        BY <1>2, <2>1, <2>3, <4>1 DEF Tells
    <3>2. ~KilledWaiting(u)
      BY <2>3 DEF KilledWaiting, Killed
    <3>3. CASE ~Acquire(u) /\ ~BypassSemaphore(u)
      <4>1. out[u] = NoMsg /\ rpc[u] # "sem"
        BY <1>5, <3>2, <3>3 DEF RunnerStep, PreJobHooks, PreExecHooks, AwaitStarted, AwaitSync,
           Terminate, PostHooks, Return, At
      <4> QED
        BY <2>3, <4>1 DEF Tells
    <3> QED
      BY <3>1, <3>3
  <2> QED
    BY <2>2, <2>3
<1>6. CASE ProviderStep(u)
  <2>1. UNCHANGED <<pc, out>> /\ rpc[u] # "sem"
    BY <1>6 DEF ProviderStep, ProviderStart, ProviderEnd, Timeout, At, loopVars
  <2> QED
    BY <2>1 DEF Tells
<1>7. CASE pc'[u] = pc[u] /\ rpc'[u] = rpc[u] /\ out'[u] = out[u]
  BY <1>7 DEF Tells
<1>8. pc[u] # "off"
  BY DEF Tells
<1> QED
  BY <1>4, <1>5, <1>6, <1>7, <1>8, RunMoves

LEMMA DueReportKept ==
    ASSUME BaseInv, Serial, ~Booting, LocalStep, NEW j \in Jobs,
           state[j] = "ready", state'[j] = "ready", ReportDue(j)
    PROVE  ReportDue(j)'
<1>1. ASSUME NEW g \in Runs, Job(g) = j, Tells(g) PROVE ReportDue(j)'
  <2>1. CASE Tells(g)'
    BY <1>1, <2>1 DEF ReportDue, Job
  <2>2. CASE Send(g)
    <3>1. WInv /\ out[g].name = j
      BY <1>1, <2>2 DEF BaseInv, WorkerInv, OutInv, Send
    <3>2. Len(managerChan) + 1 \in 1..Len(managerChan')
      /\ managerChan'[Len(managerChan) + 1].name = j
      BY <2>2, <3>1, SendQueue
    <3> QED
      BY <3>2 DEF ReportDue
  <2> QED
    BY <1>1, <2>1, <2>2, TellKept
<1>2. CASE \E i \in 1..Len(managerChan) : managerChan[i].name = j
  BY <1>2, QueueKept
<1>3. CASE Unwritten /\ smsg.name = j
  BY <1>3, UnwrittenKept DEF ReportDue
<1> QED
  BY <1>1, <1>2, <1>3 DEF ReportDue
-----------------------------------------------------------------------------
(***************************************************************************)
(* What is stored as stopped.                                              *)
(***************************************************************************)

\* The steps of the two processes, seen from the invariants of what is stored:
\* before the boot they say nothing.
LEMMA Steps ==
    ASSUME BaseInv, Serial, [SysNext]_sysVars
    PROVE  \/ Booting'
           \/ Booting /\ Boot
           \/ /\ ~Booting
              /\ \/ LocalStep
                 \/ \E h \in Threads : ManagerStep(h)
                 \/ UNCHANGED sysVars
<1>1. CASE Crash
  BY <1>1, CrashStep DEF BaseInv
<1>2. CASE UNCHANGED sysVars
  BY <1>2 DEF sysVars, wVars, workerVars, schedVars, Booting
<1>3. ASSUME NEW h \in Threads, ManagerStep(h)
      PROVE  Booting' \/ (~Booting /\ \E k \in Threads : ManagerStep(k))
  BY <1>3 DEF ManagerStep, wVars, workerVars, schedVars, Booting
<1>4. CASE ~panicked /\ WorkerStep
  BY <1>4, BaseWorker DEF LocalStep
<1>5. CASE ~panicked /\ Reporting
  <2>1. CASE RegisterWorker
    BY <2>1 DEF RegisterWorker, PostRequest, wVars, workerVars, schedVars, Booting
  <2>2. CASE Registered \/ BootLock
    BY <2>2, EarlySteps DEF BaseInv
  <2>3. CASE ServerUp
    <3>1. Booting
      BY <2>3 DEF ServerUp, BaseInv, LinkInv
    <3> QED
      BY <2>3, <3>1 DEF ServerUp, wVars, workerVars, schedVars, Booting
  <2>4. CASE Boot
    BY <2>4 DEF Boot, Booting
  <2>5. CASE UpdateStatus \/ StatusUpdated \/ UpdateSchedInfo \/ SchedInfoUpdated
    <3>1. ~Booting
      BY <2>5 DEF UpdateStatus, StatusUpdated, UpdateSchedInfo, SchedInfoUpdated, Booting
    <3> QED
      BY <1>5, <2>5, <3>1 DEF LocalStep
  <2> QED
    BY <1>5, <2>1, <2>2, <2>3, <2>4, <2>5 DEF Reporting
<1>6. CASE ~panicked /\ Handle
  BY <1>6, BaseHandle DEF LocalStep
<1>7. ASSUME ~panicked, NEW c \in Clients,
             \/ \E cmd \in Cmds, j \in Jobs : ClientCmd(c, cmd, j)
             \/ Deliver(c) \/ Take(c) \/ Delivered(c)
      PROVE  Booting' \/ (~Booting /\ LocalStep)
  <2>1. CASE Take(c)
    BY <1>7, <2>1, TakeStep DEF BaseInv, LocalStep
  <2>2. CASE ~Take(c)
    <3>1. UNCHANGED spc
      BY <1>7, <2>2 DEF ClientCmd, Deliver, Delivered, wVars, workerVars, schedVars
    <3> QED
      BY <1>7, <3>1 DEF Booting, LocalStep
  <2> QED
    BY <2>1, <2>2
<1> QED
  BY <1>1, <1>2, <1>3, <1>4, <1>5, <1>6, <1>7 DEF SysNext, Commands, SysRest

\* Outside the manager nobody writes a record or takes one in hand.
LEMMA LocalCopies ==
    ASSUME BaseInv, Serial, LocalStep, NEW j \in Jobs
    PROVE  Copies(j)' \subseteq Copies(j)
<1>1. MgrTypes /\ LinkInv
  BY DEF BaseInv
<1>2. ASSUME UNCHANGED <<status, cur>>,
             \A p \in Reporters : \/ mgrpc'[p] = mgrpc[p] /\ req'[p] = req[p]
                                  \/ mgrpc'[p] \notin {"compute", "write"}
      PROVE  Copies(j)' \subseteq Copies(j)
  <2>1. ASSUME NEW p \in Holding(j)' PROVE p \in Holding(j) /\ p \in Reporters
    BY <1>2, <2>1 DEF Holding, Mgr!Key
  <2> QED
    BY <1>2, <2>1 DEF Copies
<1>3. CASE UNCHANGED <<status, cur, mgrpc, req>>
  BY <1>2, <1>3
<1>4. CASE UpdateStatus \/ UpdateSchedInfo
  <2>1. PICK r : PostRequest(r) /\ r.kind \in {"job", "sched"}
    BY <1>4 DEF UpdateStatus, UpdateSchedInfo, StatusReport, Schedules
  <2>2. PICK p \in Reporters : Mgr!Accept(p, r)
    BY <2>1 DEF PostRequest
  <2>3. p \in Threads /\ Reporters \subseteq Threads
    BY DEF Threads
  <2>4. mgrpc'[p] = "validate"
    BY <1>1, <2>1, <2>2, <2>3 DEF Mgr!Accept, Mgr!Entry, MgrTypes
  <2>5. UNCHANGED <<status, cur>>
    BY <2>2 DEF Mgr!Accept, Mgr!dbVars
  <2> QED
    BY <1>2, <2>4, <2>5 DEF Serial
<1>5. ASSUME NEW c \in Clients, Delivered(c) \/ \E cmd \in Cmds, k \in Jobs : ClientCmd(c, cmd, k)
      PROVE  Copies(j)' \subseteq Copies(j)
  <2>1. c \notin Reporters /\ c \in Threads /\ Reporters \subseteq Threads
    BY SystemAssumption DEF Threads
  <2>2. \A p \in Reporters : mgrpc'[p] = mgrpc[p] /\ req'[p] = req[p] /\ cur'[p] = cur[p]
    BY <1>1, <1>5, <2>1 DEF Delivered, Mgr!Post, Mgr!Respond, ClientCmd, Mgr!Accept, MgrTypes
  <2>3. UNCHANGED status
    BY <1>5 DEF Delivered, Mgr!Post, ClientCmd, Mgr!Accept, Mgr!dbVars
  <2>4. ASSUME NEW p \in Holding(j)' PROVE p \in Holding(j) /\ p \in Reporters
    BY <2>2, <2>4 DEF Holding, Mgr!Key
  <2> QED
    BY <2>2, <2>3, <2>4 DEF Copies
<1> QED
  BY <1>3, <1>4, <1>5 DEF LocalStep, WorkerStep, Handle, Take, Deliver, StatusUpdated,
     SchedInfoUpdated, mVars

LEMMA StopKept ==
    ASSUME BaseInv, Serial, ~Booting, LocalStep, NEW j \in Jobs, StopOK(j)
    PROVE  StopOK(j)'
<1>1. CASE state'[j] \in {"paused", "disabled"}
  BY <1>1 DEF StopOK
<1>2. CASE state'[j] \notin {"paused", "disabled"}
  <2>1. CASE Due(j, Stops)
    <3>1. Due(j, Stops)'
      BY <1>2, <2>1, DueKept
    <3> QED
      BY <3>1 DEF StopOK
  <2>2. CASE state[j] = "ready" /\ ReportDue(j)
    <3>1. state'[j] = "ready"
      BY <1>2, <2>2, StateMoves
    <3> QED
      BY <2>2, <3>1, DueReportKept DEF StopOK
  <2>3. CASE state[j] \in {"paused", "disabled"}
    BY <1>2, <2>3, StateMoves DEF StopOK
  <2> QED
    BY <2>1, <2>2, <2>3 DEF StopOK
<1> QED
  BY <1>1, <1>2

\* A handler of the manager takes nothing away from the commands that are due,
\* and from the reports only the one that it answers.
LEMMA HandlerDue ==
    ASSUME BaseInv, NEW h \in Threads, ManagerStep(h), NEW j \in Jobs
    PROVE  /\ \A K : Due(j, K) => Due(j, K)'
           /\ Unwritten /\ ~Unwritten' => spc = "update" /\ via = h /\ mgrpc'[h] = "idle"
           /\ Unwritten' => Unwritten
<1>1. UNCHANGED <<wVars, netVars>> /\ MgrInv
  BY BaseMgr DEF ManagerStep
<1>2. /\ mgrpc[h] \notin {"idle", "post"}
      /\ \A t \in Threads : t # h => mgrpc'[t] = mgrpc[t] /\ req'[t] = req[t]
  BY <1>1, HandlerFrame
<1>3. ASSUME NEW K, Due(j, K) PROVE Due(j, K)'
  <2>1. CASE DuePost(j, K)
    <3>1. PICK c \in Clients : /\ mgrpc[c] = "post" /\ wcmd[c] \in {"none", "sent"}
                               /\ req[c].mirror = j /\ req[c].kind \in K
      BY <2>1 DEF DuePost
    <3>2. c \in Threads /\ c # h
      BY <1>2, <3>1 DEF Threads
    <3>3. DuePost(j, K)'
      BY <1>1, <1>2, <3>1, <3>2 DEF DuePost, netVars
    <3> QED
      BY <3>3 DEF Due
  <2>2. CASE DueCmd(j, K) \/ DueCtrl(j, K)
    BY <1>1, <2>2 DEF Due, DueCmd, DueCtrl, wVars, workerVars, httpVars, mjVars, jobVars
  <2> QED
    BY <1>3, <2>1, <2>2 DEF Due
<1>4. UNCHANGED <<spc, via>>
  BY <1>1 DEF wVars, workerVars, schedVars, netVars
<1>5. via # None => via \in Threads
  BY <1>1 DEF MgrInv, LinkInv, Threads
<1>6. Unwritten /\ ~Unwritten' => spc = "update" /\ via = h /\ mgrpc'[h] = "idle"
  BY <1>2, <1>4, <1>5 DEF Unwritten, Idle
<1>7. Unwritten' => Unwritten
  BY <1>2, <1>4, <1>5 DEF Unwritten, Idle
<1> QED
  BY <1>3, <1>6, <1>7

\* The report that an answer ends has been stored.
LEMMA AnswerShows ==
    ASSUME BaseInv, Serial, ~Booting, NEW h \in Threads, ManagerStep(h), spc = "update",
           via = h, mgrpc'[h] = "idle", NEW j \in Jobs, smsg.name = j
    PROVE  /\ \A m \in Copies(j)' : Shown(m, j) = StatusReport(smsg).status
           /\ StatusReport(smsg) \in JobReports
<1>1. MgrInv /\ WInv
  BY BaseMgr DEF BaseInv, WorkerInv
<1>2. h # None /\ mgrpc[h] # "idle"
  BY <1>1, HandlerFrame, SystemAssumption DEF Threads
<1>3. h \in Reporters /\ workers[WorkerID] # None /\ req[h] = StatusReport(smsg)
  BY <1>1, <1>2 DEF MgrInv, LinkInv, Idle
<1>4. StatusReport(smsg) \in JobReports /\ StatusReport(smsg).mirror = j
  BY <1>1, ReportType DEF WInv, ControlInv, LockInv
<1> QED
  BY <1>1, <1>3, <1>4, AnswerStores

LEMMA StopHandler ==
    ASSUME BaseInv, StopInv, Serial, ~Booting, NEW h \in Threads, ManagerStep(h)
    PROVE  StopInv'
<1> SUFFICES ASSUME NEW j \in Jobs, NEW m \in Copies(j)',
                    Shown(m, j) \in {"paused", "disabled"}
             PROVE  StopOK(j)'
  BY DEF StopInv
<1>1. UNCHANGED <<wVars, netVars>> /\ MgrInv
  BY BaseMgr DEF ManagerStep
<1>2. CopyStep(h)
  BY <1>1, ReporterSteps, ClientSteps DEF Threads
<1>3. ASSUME StopOK(j) PROVE StopOK(j)'
  <2>1. CASE state[j] \in {"paused", "disabled"}
    BY <1>1, <2>1 DEF StopOK, wVars, mjVars, jobVars
  <2>2. CASE Due(j, Stops)
    BY <2>2, HandlerDue DEF StopOK
  <2>3. CASE state[j] = "ready" /\ ReportDue(j)
    <3>1. UNCHANGED <<state, pc, rpc, out, managerChan, smsg>>
      BY <1>1 DEF wVars, mjVars, jobVars, loopVars, runnerVars, chanVars, workerVars, schedVars
    <3>2. CASE ReportDue(j)'
      BY <2>3, <3>1, <3>2 DEF StopOK
    <3>3. CASE ~ReportDue(j)'
      <4>1. Unwritten /\ smsg.name = j /\ ~Unwritten'
        BY <2>3, <3>1, <3>3 DEF ReportDue, Tells
      <4>2. \A n \in Copies(j)' : Shown(n, j) = StatusReport(smsg).status
            /\ StatusReport(smsg) \in JobReports
        BY <4>1, HandlerDue, AnswerShows
      <4> QED
        BY <4>2 DEF JobReports
    <3> QED
      BY <3>2, <3>3
  <2> QED
    BY <1>3, <2>1, <2>2, <2>3 DEF StopOK
<1>4. CASE \E n \in Copies(j) : Shown(m, j) = Shown(n, j)
  BY <1>3, <1>4 DEF StopInv
<1>5. CASE /\ h \in Clients /\ mgrpc[h] = "write" /\ mgrpc'[h] = "post"
           /\ req[h].mirror = j /\ req'[h] = req[h]
  <2>1. req[h].kind \in Stops
    BY <1>1, <1>5 DEF MgrInv, ClientInv, ClientOK, Stops
  <2>2. wcmd[h] = "none"
    BY <1>1, <1>5 DEF MgrInv, PostInv
  <2>3. DuePost(j, Stops)'
    BY <1>1, <1>5, <2>1, <2>2 DEF DuePost, netVars
  <2> QED
    BY <2>3 DEF StopOK, Due
<1>6. CASE req[h] \in JobReports /\ Shown(m, j) = req[h].status
  BY <1>6 DEF JobReports
<1> QED
  BY <1>2, <1>4, <1>5, <1>6 DEF CopyStep
\* When the boot reads what is stored, no report is being handled.
LEMMA BootCopies ==
    ASSUME BaseInv, Boot, NEW j \in Jobs, NEW m \in Copies(j)'
    PROVE  Known(j) = Shown(m, j)
<1>1. spc = "fetch" /\ UNCHANGED mVars /\ LinkInv
  BY DEF Boot, BaseInv
<1>2. via = None /\ workers[WorkerID] # None
  BY <1>1 DEF LinkInv
<1>3. \A p \in Reporters : Idle(p)
  BY <1>1, <1>2 DEF LinkInv
<1>4. m = status[<<j, WorkerID>>]
  BY <1>1, <1>3 DEF Copies, Holding, Idle, mVars
<1> QED
  BY <1>2, <1>4 DEF Known, Stored, Shown

LEMMA StopBoot ==
    ASSUME BaseInv, Boot
    PROVE  StopInv'
<1> SUFFICES ASSUME NEW j \in Jobs, NEW m \in Copies(j)',
                    Shown(m, j) \in {"paused", "disabled"}
             PROVE  StopOK(j)'
  BY DEF StopInv
<1>1. state'[j] = Shown(m, j)
  BY BootCopies, BootStates
<1> QED
  BY <1>1 DEF StopOK

\* What a step that changes nothing leaves alone.
LEMMA StopFrame ==
    ASSUME StopInv, UNCHANGED sysVars
    PROVE  StopInv'
<1> USE DEF sysVars, wVars, workerVars, mjVars, jobVars, loopVars, runnerVars, chanVars,
        httpVars, schedVars, mVars, netVars
<1>1. UNCHANGED Booting
  BY DEF Booting
<1>2. ASSUME NEW j \in Jobs PROVE UNCHANGED Copies(j)
  BY DEF Copies, Holding, Mgr!Key
<1>3. ASSUME NEW j \in Jobs, NEW K PROVE Due(j, K) => Due(j, K)'
  BY DEF Due, DuePost, DueCmd, DueCtrl
<1>4. ASSUME NEW j \in Jobs PROVE ReportDue(j) => ReportDue(j)'
  BY DEF ReportDue, Tells, Unwritten, Idle
<1>5. ASSUME NEW j \in Jobs, StopOK(j) PROVE StopOK(j)'
  BY <1>3, <1>4, <1>5 DEF StopOK
<1> QED
  BY <1>1, <1>2, <1>5 DEF StopInv

LEMMA StopStep ==
    ASSUME BaseInv, StopInv, Serial, [SysNext]_sysVars
    PROVE  StopInv'
<1>1. CASE Booting'
  BY <1>1 DEF StopInv
<1>2. CASE ~Booting /\ LocalStep
  <2>1. ASSUME NEW j \in Jobs, NEW m \in Copies(j)', Shown(m, j) \in {"paused", "disabled"}
        PROVE  StopOK(j)'
    <3>1. m \in Copies(j)
      BY <1>2, LocalCopies
    <3>2. StopOK(j)
      BY <1>2, <2>1, <3>1 DEF StopInv
    <3> QED
      BY <1>2, <3>2, StopKept
  <2> QED
    BY <2>1 DEF StopInv
<1> QED
  BY <1>1, <1>2, StopBoot, StopHandler, StopFrame, Steps

LEMMA StopInvariance == Serial => (SysSpec => [](BaseInv /\ StopInv))
<1> SUFFICES ASSUME Serial PROVE SysSpec => [](BaseInv /\ StopInv)
  OBVIOUS
<1>1. SysInit => StopInv
  BY DEF SysInit, WorkerStarts, StopInv, Booting
<1>2. BaseInv /\ [SysNext]_sysVars => BaseInv'
  BY BaseStep, BaseFrame
<1>3. BaseInv /\ StopInv /\ [SysNext]_sysVars => StopInv'
  BY StopStep
<1> QED
  BY <1>1, <1>2, <1>3, BaseInit, PTL DEF SysSpec

\* Nothing is due once nothing is under way.
LEMMA RestNothingDue ==
    ASSUME AtRest, NEW j \in Jobs, NEW K \in SUBSET Stops, ctrlChan[j] = NoCtrl, hpc = "idle"
    PROVE  ~Due(j, K)
BY StopCtrls DEF AtRest, Idle, Threads, Due, DuePost, DueCmd, DueCtrl, Stops, NoCtrl

LEMMA RestNothingTold ==
    ASSUME NEW j \in Jobs, QuietFor(j)
    PROVE  ~ReportDue(j)
<1>1. \A g \in Runs : Job(g) = j => ~Tells(g)
  BY DEF QuietFor, RunsOf, Tells
<1>2. Len(managerChan) = 0
  BY DEF QuietFor
<1> QED
  BY <1>1, <1>2 DEF ReportDue, Unwritten, QuietFor

\* What is stored as stopped is stopped, for any number of commands and
\* clients, wherever the worker dies: the write of handleClientCmd, the command
\* on its way to the control loop, the reports of a run that is not over and the
\* schedule report that writes back a record it has read (StoppedAgreement).
THEOREM StoredStopsHold == Serial => (SysSpec => []StoppedAgreement)
<1> SUFFICES ASSUME Serial PROVE SysSpec => []StoppedAgreement
  OBVIOUS
<1>1. StopInv => StoppedAgreement
  <2> SUFFICES ASSUME StopInv, NEW j \in Jobs, AtRest, QuietFor(j),
                      Stored(j) \in {"paused", "disabled"}
               PROVE  state[j] \in {"paused", "disabled"}
    BY DEF StoppedAgreement
  <2>1. ~Booting /\ hpc = "idle" /\ ctrlChan[j] = NoCtrl
    BY DEF AtRest, Booting, QuietFor
  <2>2. status[<<j, WorkerID>>] \in Copies(j)
        /\ Shown(status[<<j, WorkerID>>], j) = Stored(j)
    BY DEF Copies, Shown, Stored
  <2>3. StopOK(j)
    BY <2>1, <2>2 DEF StopInv
  <2> QED
    BY <2>1, <2>3, RestNothingDue, RestNothingTold DEF StopOK
<1> QED
  BY <1>1, StopInvariance, PTL
-----------------------------------------------------------------------------
(***************************************************************************)
(* What is shown of a run.                                                 *)
(***************************************************************************)

\* A run gets to work with its report in the queue.
LEMMA WorkBegins ==
    ASSUME BaseInv, ~Booting, LocalStep, NEW u \in Runs, Working(u)'
    PROVE  \/ Working(u)
           \/ Send(u) /\ rpc[u] \in {"start", "sync"} /\ UNCHANGED workerVars
<1>1. /\ WInv /\ ControlTypes /\ pc \in [Runs -> LoopPC] /\ rpc \in [Runs -> RunnerPC]
      /\ out \in [Runs -> jobMessage \cup {NoMsg}] /\ Job(u) \in Jobs
  BY HasControlTypes, RunsAssumption DEF BaseInv, WorkerInv, WInv, MJInv, MJTypeOK, Job
<1>2. pc'[u] = "wait" /\ rpc'[u] \in {"start", "sync"} /\ out'[u] = NoMsg
  BY DEF Working
<1>3. \A st \in {"PreSyncing", "Syncing", "Success", "Failed"}, b \in BOOLEAN :
          Message(u, st, b) # NoMsg
  BY NullAssumption, MessageType
<1>4. CASE LoopStep(u)
  <2>1. UNCHANGED out /\ rpc' \in {rpc, [rpc EXCEPT ![u] = "sem"], [rpc EXCEPT ![u] = "none"]}
    BY <1>4 DEF LoopStep, Begin, LoopTop, JobDone, WaitCtrl, Reap, IdleCtrl, RunnerGone, runnerVars
  <2>2. UNCHANGED rpc /\ rpc[u] # "done" /\ rpc[u] # "none"
    BY <1>1, <1>2, <2>1
  <2>3. ~JobDone(u) /\ ~Reap(u)
    BY <2>2 DEF JobDone, Reap, RunnerGone
  <2>4. pc[u] # "loop" /\ pc[u] # "launched" /\ pc[u] # "idle"
    BY <1>1, <2>2 DEF WInv, MJInv, Joined
  <2>5. pc[u] = "wait"
    BY <1>4, <2>3, <2>4 DEF LoopStep, Begin, LoopTop, WaitCtrl, IdleCtrl
  <2> QED
    BY <1>2, <2>1, <2>2, <2>5 DEF Working
<1>5. CASE RunnerStep(u)
  <2>1. UNCHANGED pc
    BY <1>5 DEF RunnerStep, Acquire, BypassSemaphore, KilledWaiting, Send, PreJobHooks,
       PreExecHooks, AwaitStarted, AwaitSync, Terminate, PostHooks, Return, loopVars
  <2>2. CASE Send(u)
    <3>1. rpc[u] \in {"start", "sync"}
      BY <1>2, <2>2 DEF Send
    <3>2. UNCHANGED workerVars
      BY <1>1, <1>2, <2>2, <3>1, RunMoves DEF Send
    <3> QED
      BY <2>2, <3>1, <3>2
  <2>3. CASE AwaitStarted(u)
    BY <1>2, <2>1, <2>3 DEF AwaitStarted, At, Working
  <2>4. ~PreExecHooks(u)
    BY <1>1, <1>2, <1>3 DEF PreExecHooks, HookFails
  <2>5. /\ ~Acquire(u) /\ ~BypassSemaphore(u) /\ ~KilledWaiting(u) /\ ~PreJobHooks(u)
        /\ ~AwaitSync(u) /\ ~Terminate(u) /\ ~PostHooks(u) /\ ~Return(u)
    BY <1>1, <1>2 DEF Acquire, BypassSemaphore, KilledWaiting, PreJobHooks, AwaitSync,
       Terminate, PostHooks, Return, HookFails
  <2> QED
    BY <1>5, <2>2, <2>3, <2>4, <2>5 DEF RunnerStep
<1>6. CASE ProviderStep(u)
  <2>1. UNCHANGED <<pc, out>>
    BY <1>6 DEF ProviderStep, ProviderStart, ProviderEnd, Timeout, loopVars
  <2>2. rpc'[u] = rpc[u]
    BY <1>1, <1>2, <1>6 DEF ProviderStep, ProviderStart, ProviderEnd, Timeout
  <2> QED
    BY <1>2, <2>1, <2>2 DEF Working
<1>7. CASE pc'[u] = pc[u] /\ rpc'[u] = rpc[u] /\ out'[u] = out[u]
  BY <1>2, <1>7 DEF Working
<1> QED
  BY <1>2, <1>4, <1>5, <1>6, <1>7, RunMoves

\* While a run of j is at work nobody else reports on j.
LEMMA WorkAlone ==
    ASSUME BaseInv, ~Booting, NEW u \in Runs, Working(u), NEW g \in Runs, Send(g)
    PROVE  out[g].name # Job(u)
<1>1. WInv /\ OutInv
  BY DEF BaseInv, WorkerInv
<1>2. out[g] # NoMsg /\ g # u
  BY DEF Send, Working
<1>3. rpc[g] # "none"
  BY <1>1, <1>2 DEF WInv, MJInv, QuietRunner
<1>4. Live(g) /\ Live(u)
  BY <1>1, <1>3 DEF WInv, MJInv, Joined, Live, Working
<1>5. Job(g) # Job(u)
  BY <1>1, <1>2, <1>4 DEF WInv, ControlInv, Sole
<1> QED
  BY <1>1, <1>2, <1>5 DEF OutInv

\* A message is got from the queue.
LEMMA UnwrittenNew ==
    ASSUME BaseInv, Serial, ~Booting, LocalStep, ~Unwritten, Unwritten'
    PROVE  SchedRecv
<1>1. MgrTypes /\ LinkInv
  BY DEF BaseInv
<1>2. CASE UpdateStatus \/ UpdateSchedInfo
  <2>1. via = None /\ UNCHANGED spc
    BY <1>2 DEF UpdateStatus, UpdateSchedInfo, PostRequest, wVars, workerVars, schedVars
  <2>2. spc # "update"
    BY <2>1 DEF Unwritten
  <2> QED
    BY <2>1, <2>2 DEF Unwritten
<1>3. CASE StatusUpdated \/ SchedInfoUpdated
  BY <1>3 DEF StatusUpdated, SchedInfoUpdated, Unwritten
<1>4. CASE UNCHANGED <<spc, via>>
  <2>1. spc = "update" /\ via # None /\ Idle(via) /\ via \in Reporters
    BY <1>1, <1>4 DEF Unwritten, LinkInv
  <2>2. UNCHANGED mgrpc \/ \E c \in Clients : Delivered(c) \/ \E cmd \in Cmds, k \in Jobs : ClientCmd(c, cmd, k)
    BY <1>2, <1>3, <2>1 DEF LocalStep, WorkerStep, Handle, Take, Deliver, mVars, UpdateStatus, UpdateSchedInfo,
       PostRequest, StatusUpdated, SchedInfoUpdated
  <2>3. mgrpc'[via] = mgrpc[via]
    <3>1. CASE UNCHANGED mgrpc
      BY <3>1
    <3>2. ASSUME NEW c \in Clients, Delivered(c) \/ \E cmd \in Cmds, k \in Jobs : ClientCmd(c, cmd, k)
          PROVE  mgrpc'[via] = mgrpc[via]
      <4>1. via # c /\ via \in Threads
        BY <2>1, <3>2, SystemAssumption DEF Threads
      <4> QED
        BY <1>1, <3>2, <4>1 DEF Delivered, Mgr!Post, Mgr!Respond, ClientCmd, Mgr!Accept, MgrTypes
    <3> QED
      BY <2>2, <3>1, <3>2
  <2> QED
    BY <1>4, <2>1, <2>3 DEF Unwritten, Idle
<1>5. CASE SchedLookup \/ SchedCheck
  BY <1>5 DEF SchedLookup, SchedCheck, Unwritten
<1>6. CASE SchedPush \/ \E j \in Jobs : SchedPop(j)
  BY <1>6 DEF SchedPush, SchedPop, Unwritten
<1> QED
  BY <1>2, <1>3, <1>4, <1>5, <1>6 DEF LocalStep, WorkerStep, JobStep, workerVars, schedVars, netVars,
     Handle, HTTPStep, HTTPBranch, HTTPSend, HTTPEval, HTTPAwait, Take, HTTPCmd, Deliver, Delivered,
     ClientCmd, wVars
\* The state of a job whose run is at work.
LEMMA WorkReady ==
    ASSUME WInv, NEW u \in Runs, Working(u)
    PROVE  state[Job(u)] = "ready" /\ Job(u) \in Jobs
BY RunsAssumption DEF WInv, ControlInv, StateInv, StateOf, Working, Job

LEMMA ShowQueue ==
    ASSUME BaseInv, ~Booting, LocalStep, NEW u \in Runs, Working(u), NEW j \in Jobs, Job(u) = j
    PROVE  /\ NoneQueued(j) => NoneQueued(j)'
           /\ LastSyncing(j) =>
                 \/ LastSyncing(j)'
                 \/ /\ NoneQueued(j)' /\ Unwritten'
                    /\ smsg'.name = j /\ smsg'.status = "Syncing"
           /\ NoneQueued(j) /\ SchedRecv => smsg'.name # j
<1>1. WInv /\ managerChan \in Seq(jobMessage)
  BY DEF BaseInv, WorkerInv, WInv, MJInv, MJTypeOK
<1>2. CASE UNCHANGED managerChan
  <2>1. ~SchedRecv
    BY <1>1, <1>2, RecvQueue
  <2> QED
    BY <1>2, <2>1 DEF NoneQueued, LastSyncing
<1>3. ASSUME NEW g \in Runs, Send(g), UNCHANGED workerVars
      PROVE  /\ NoneQueued(j) => NoneQueued(j)'
             /\ LastSyncing(j) => LastSyncing(j)'
             /\ ~SchedRecv
  <2>1. out[g].name # j
    BY <1>3, WorkAlone
  <2>2. /\ Len(managerChan') = Len(managerChan) + 1 /\ Len(managerChan) \in Nat
        /\ managerChan'[Len(managerChan) + 1] = out[g]
        /\ \A i \in 1..Len(managerChan) : managerChan'[i] = managerChan[i]
    BY <1>1, <1>3, SendQueue
  <2>3. ~SchedRecv
    BY <1>3 DEF SchedRecv, workerVars, schedVars
  <2>4. NoneQueued(j) => NoneQueued(j)'
    BY <2>1, <2>2 DEF NoneQueued
  <2>5. LastSyncing(j) => LastSyncing(j)'
    <3>1. SUFFICES ASSUME NEW i \in 1..Len(managerChan),
                          managerChan[i].name = j, managerChan[i].status = "Syncing",
                          \A k \in (i + 1)..Len(managerChan) : managerChan[k].name # j
                   PROVE  LastSyncing(j)'
      BY DEF LastSyncing
    <3>2. i \in 1..Len(managerChan') /\ managerChan'[i] = managerChan[i]
      BY <2>2
    <3>3. \A k \in (i + 1)..Len(managerChan') : managerChan'[k].name # j
      BY <2>1, <2>2, <3>1
    <3> QED
      BY <3>1, <3>2, <3>3 DEF LastSyncing
  <2> QED
    BY <2>3, <2>4, <2>5
<1>4. CASE SchedRecv
  <2>1. /\ Len(managerChan) \in Nat \ {0} /\ Len(managerChan') = Len(managerChan) - 1
        /\ smsg' = managerChan[1] /\ spc' = "lookup"
        /\ \A i \in 1..Len(managerChan') : managerChan'[i] = managerChan[i + 1]
    BY <1>1, <1>4, RecvQueue
  <2>2. NoneQueued(j) => NoneQueued(j)' /\ smsg'.name # j
    BY <2>1 DEF NoneQueued
  <2>3. ASSUME NEW i \in 1..Len(managerChan),
               managerChan[i].name = j, managerChan[i].status = "Syncing",
               \A k \in (i + 1)..Len(managerChan) : managerChan[k].name # j
        PROVE  \/ LastSyncing(j)'
               \/ /\ NoneQueued(j)' /\ Unwritten'
                  /\ smsg'.name = j /\ smsg'.status = "Syncing"
    <3>1. CASE i = 1
      <4>1. NoneQueued(j)'
        BY <2>1, <2>3, <3>1 DEF NoneQueued
      <4> QED
        BY <2>1, <2>3, <3>1, <4>1 DEF Unwritten
    <3>2. CASE i # 1
      <4>1. i - 1 \in 1..Len(managerChan') /\ managerChan'[i - 1] = managerChan[i]
        BY <2>1, <3>2
      <4>2. \A k \in ((i - 1) + 1)..Len(managerChan') : managerChan'[k].name # j
        BY <2>1, <2>3, <3>2
      <4> QED
        BY <2>3, <4>1, <4>2 DEF LastSyncing
    <3> QED
      BY <3>1, <3>2
  <2> QED
    BY <2>2, <2>3 DEF LastSyncing
<1> QED
  BY <1>2, <1>3, <1>4, QueueMoves

LEMMA ShowLocal ==
    ASSUME BaseInv, BaseInv', ShowInv, Serial, ~Booting, ~Booting', LocalStep
    PROVE  ShowInv'
<1> SUFFICES ASSUME NEW u \in Runs, Working(u)', NEW j \in Jobs, Job(u) = j
             PROVE  ShownOrTold(j)'
  BY RunsAssumption DEF ShowInv, Job
<1>1. WInv
  BY DEF BaseInv, WorkerInv
<1>2. state'[j] = "ready"
  BY DEF BaseInv, WorkerInv, WInv, ControlInv, StateInv, StateOf, Working, Job
<1>3. CASE Send(u) /\ rpc[u] \in {"start", "sync"}
  <2>1. out[u].name = j /\ out[u].status = "Syncing"
    BY <1>3 DEF BaseInv, OutInv, Send
  <2>2. /\ Len(managerChan') = Len(managerChan) + 1 /\ Len(managerChan) \in Nat
        /\ managerChan'[Len(managerChan) + 1] = out[u]
    BY <1>1, <1>3, SendQueue
  <2>3. LastSyncing(j)'
    <3> DEFINE i == Len(managerChan')
    <3>1. i \in 1..Len(managerChan') /\ managerChan'[i] = out[u]
      BY <2>2
    <3>2. \A k \in (i + 1)..Len(managerChan') : managerChan'[k].name # j
      BY <2>2
    <3> QED
      BY <2>1, <3>1, <3>2 DEF LastSyncing
  <2> QED
    BY <2>3 DEF ShownOrTold
<1>4. CASE Working(u)
  <2>1. ShownOrTold(j) /\ state[j] = "ready"
    BY <1>1, <1>4, WorkReady DEF ShowInv
  <2>2. CASE Due(j, Stops)
    <3>1. Due(j, Stops)'
      BY <1>2, <2>2, DueKept
    <3> QED
      BY <3>1 DEF ShownOrTold
  <2>3. CASE LastSyncing(j)
    BY <1>4, <2>3, ShowQueue DEF ShownOrTold
  <2>4. CASE NoneQueued(j) /\ Unwritten /\ smsg.name = j /\ smsg.status = "Syncing"
    <3>1. NoneQueued(j)'
      BY <1>4, <2>4, ShowQueue
    <3>2. Unwritten' /\ smsg' = smsg
      BY <2>1, <2>4, UnwrittenKept
    <3> QED
      BY <2>4, <3>1, <3>2 DEF ShownOrTold
  <2>5. CASE /\ NoneQueued(j) /\ (Unwritten => smsg.name # j)
             /\ \A m \in Copies(j) : Shown(m, j) = "syncing"
    <3>1. NoneQueued(j)'
      BY <1>4, <2>5, ShowQueue
    <3>2. Unwritten' => smsg'.name # j
      <4>1. CASE Unwritten
        BY <2>5, <4>1, UnwrittenKept
      <4>2. CASE ~Unwritten
        BY <1>4, <2>5, <4>2, UnwrittenNew, ShowQueue
      <4> QED
        BY <4>1, <4>2
    <3>3. \A m \in Copies(j)' : Shown(m, j) = "syncing"
      BY <2>5, LocalCopies
    <3> QED
      BY <3>1, <3>2, <3>3 DEF ShownOrTold
  <2> QED
    BY <2>1, <2>2, <2>3, <2>4, <2>5 DEF ShownOrTold
<1> QED
  BY <1>3, <1>4, WorkBegins

\* The handler of a status report is that of the message that is unwritten.
LEMMA ReportOfVia ==
    ASSUME BaseInv, Serial, ~Booting, NEW h \in Reporters, ~Idle(h), req[h] \in JobReports
    PROVE  spc = "update" /\ via = h /\ req[h] = StatusReport(smsg)
<1>1. LinkInv /\ spc # "register"
  BY DEF BaseInv, Booting
<1>2. via # None /\ via \in Reporters
  BY <1>1 DEF LinkInv
<1>3. via = h
  BY <1>2 DEF Serial
<1>4. req[h].kind # "sched"
  BY DEF JobReports
<1> QED
  BY <1>1, <1>2, <1>3, <1>4 DEF LinkInv

LEMMA ShowHandler ==
    ASSUME BaseInv, ShowInv, Serial, ~Booting, NEW h \in Threads, ManagerStep(h)
    PROVE  ShowInv'
<1> SUFFICES ASSUME NEW u \in Runs, Working(u)', NEW j \in Jobs, Job(u) = j
             PROVE  ShownOrTold(j)'
  BY RunsAssumption DEF ShowInv, Job
<1>1. UNCHANGED <<wVars, netVars>> /\ MgrInv /\ WInv
  BY BaseMgr DEF ManagerStep, BaseInv, WorkerInv
<1>2. CopyStep(h)
  BY <1>1, ReporterSteps, ClientSteps DEF Threads
<1>3. UNCHANGED <<pc, rpc, out, managerChan, smsg, spc>>
  BY <1>1 DEF wVars, mjVars, loopVars, runnerVars, chanVars, workerVars, schedVars
<1>4. ShownOrTold(j)
  BY <1>3 DEF ShowInv, Working
<1>5. (NoneQueued(j) => NoneQueued(j)') /\ (LastSyncing(j) => LastSyncing(j)')
  BY <1>3 DEF NoneQueued, LastSyncing
<1>6. CASE Due(j, Stops)
  BY <1>6, HandlerDue DEF ShownOrTold
<1>7. CASE LastSyncing(j)
  BY <1>5, <1>7 DEF ShownOrTold
<1>8. CASE NoneQueued(j) /\ Unwritten /\ smsg.name = j /\ smsg.status = "Syncing"
  <2>1. CASE Unwritten'
    BY <1>3, <1>5, <1>8, <2>1 DEF ShownOrTold
  <2>2. CASE ~Unwritten'
    <3>1. /\ \A m \in Copies(j)' : Shown(m, j) = StatusReport(smsg).status
          /\ spc = "update"
      BY <1>8, <2>2, HandlerDue, AnswerShows
    <3>2. smsg \in jobMessage
      BY <1>1, <3>1 DEF WInv, ControlInv, LockInv
    <3>3. StatusReport(smsg).status = "syncing"
      BY <1>8, <3>2, ReportType
    <3> QED
      BY <1>5, <1>8, <2>2, <3>1, <3>3 DEF ShownOrTold
  <2> QED
    BY <2>1, <2>2
<1>9. CASE /\ NoneQueued(j) /\ (Unwritten => smsg.name # j)
           /\ \A m \in Copies(j) : Shown(m, j) = "syncing"
  <2>1. Unwritten' => smsg'.name # j
    BY <1>3, <1>9, HandlerDue
  <2>2. CASE Due(j, Stops)'
    BY <2>2 DEF ShownOrTold
  <2>3. CASE ~Due(j, Stops)'
    <3>1. ASSUME NEW m \in Copies(j)' PROVE Shown(m, j) = "syncing"
      <4>1. CASE \E n \in Copies(j) : Shown(m, j) = Shown(n, j)
        BY <1>9, <4>1
      <4>2. ~ /\ h \in Clients /\ mgrpc[h] = "write" /\ mgrpc'[h] = "post"
              /\ req[h].mirror = j /\ req'[h] = req[h]
        <5>1. SUFFICES ASSUME /\ h \in Clients /\ mgrpc[h] = "write" /\ mgrpc'[h] = "post"
                              /\ req[h].mirror = j /\ req'[h] = req[h]
                       PROVE  FALSE
          OBVIOUS
        <5>2. req[h].kind \in Stops
          BY <1>1, <5>1 DEF MgrInv, ClientInv, ClientOK, Stops
        <5>3. wcmd[h] = "none"
          BY <1>1, <5>1 DEF MgrInv, PostInv
        <5>4. DuePost(j, Stops)'
          BY <1>1, <5>1, <5>2, <5>3 DEF DuePost, netVars
        <5> QED
          BY <2>3, <5>4 DEF Due
      <4>3. ~ (h \in Reporters /\ mgrpc[h] = "write" /\ req[h] \in JobReports /\ req[h].mirror = j)
        <5>1. SUFFICES ASSUME h \in Reporters, mgrpc[h] = "write", req[h] \in JobReports,
                              req[h].mirror = j
                       PROVE  FALSE
          OBVIOUS
        <5>2. spc = "update" /\ via = h /\ req[h] = StatusReport(smsg)
          BY <5>1, ReportOfVia DEF Idle
        <5>3. Unwritten
          BY <5>1, <5>2 DEF Unwritten, Idle
        <5>4. smsg.name = j
          BY <5>1, <5>2 DEF StatusReport
        <5> QED
          BY <1>9, <5>3, <5>4
      <4> QED
        BY <1>2, <4>1, <4>2, <4>3 DEF CopyStep
    <3> QED
      BY <1>5, <1>9, <2>1, <3>1 DEF ShownOrTold
  <2> QED
    BY <2>2, <2>3
<1> QED
  BY <1>4, <1>6, <1>7, <1>8, <1>9 DEF ShownOrTold

LEMMA ShowFrame ==
    ASSUME ShowInv, UNCHANGED sysVars
    PROVE  ShowInv'
<1> USE DEF sysVars, wVars, workerVars, mjVars, jobVars, loopVars, runnerVars, chanVars,
        httpVars, schedVars, mVars, netVars
<1>1. UNCHANGED Booting
  BY DEF Booting
<1>2. ASSUME NEW j \in Jobs PROVE UNCHANGED Copies(j)
  BY DEF Copies, Holding, Mgr!Key
<1>3. ASSUME NEW j \in Jobs, NEW K PROVE Due(j, K) => Due(j, K)'
  BY DEF Due, DuePost, DueCmd, DueCtrl
<1>4. UNCHANGED Unwritten /\ UNCHANGED smsg
  BY DEF Unwritten, Idle
<1>5. ASSUME NEW j \in Jobs, ShownOrTold(j) PROVE ShownOrTold(j)'
  <2>1. (NoneQueued(j) => NoneQueued(j)') /\ (LastSyncing(j) => LastSyncing(j)')
    BY DEF NoneQueued, LastSyncing
  <2> QED
    BY <1>2, <1>3, <1>4, <1>5, <2>1 DEF ShownOrTold
<1>6. ASSUME NEW g \in Runs, Working(g)' PROVE Working(g)
  BY <1>6 DEF Working
<1> QED
  BY <1>1, <1>5, <1>6, RunsAssumption DEF ShowInv, Job

LEMMA ShowStep ==
    ASSUME BaseInv, BaseInv', ShowInv, Serial, [SysNext]_sysVars
    PROVE  ShowInv'
<1>1. CASE Booting'
  BY <1>1 DEF ShowInv
<1>2. CASE Boot
  <2>1. pc' \in [Runs -> {"off", "launched"}]
    BY <1>2 DEF Boot
  <2> QED
    BY <2>1 DEF ShowInv, Working
<1> QED
  BY <1>1, <1>2, ShowLocal, ShowHandler, ShowFrame, Steps

LEMMA ShowInvariance == Serial => (SysSpec => []ShowInv)
<1> SUFFICES ASSUME Serial PROVE SysSpec => []ShowInv
  OBVIOUS
<1>1. SysInit => ShowInv
  BY DEF SysInit, WorkerStarts, ShowInv, Booting
<1>2. BaseInv /\ BaseInv' /\ ShowInv /\ [SysNext]_sysVars => ShowInv'
  BY ShowStep
<1> QED
  BY <1>1, <1>2, BaseInvariance, PTL DEF SysSpec

\* The manager shows the sync that is in progress, for any number of commands
\* and clients and whatever the worker's earlier lives have left: the Syncing
\* report is the last one stored, and only a stop that is on its way may have
\* been written over it (RunningShown).
THEOREM SyncIsShown == Serial => (SysSpec => []RunningShown)
<1> SUFFICES ASSUME Serial PROVE SysSpec => []RunningShown
  OBVIOUS
<1>1. BaseInv /\ ShowInv => RunningShown
  <2> SUFFICES ASSUME BaseInv, ShowInv, NEW g \in Runs, AtRest, managerChan = <<>>,
                      ctrlChan[Job(g)] = NoCtrl, pc[g] = "wait", At(g, "sync")
               PROVE  Stored(Job(g)) = "syncing"
    BY DEF RunningShown
  <2>1. ~Booting /\ WInv /\ hpc = "idle" /\ Job(g) \in Jobs
    BY RunsAssumption DEF BaseInv, WorkerInv, AtRest, Booting, WInv, ControlInv, LockInv, Job
  <2>2. ShownOrTold(Job(g))
    BY <2>1 DEF ShowInv, Working, At
  <2>3. ~Due(Job(g), Stops)
    BY <2>1, RestNothingDue
  <2>4. Len(managerChan) = 0
    OBVIOUS
  <2>5. ~LastSyncing(Job(g)) /\ ~Unwritten
    BY <2>4 DEF LastSyncing, Unwritten, AtRest
  <2>6. Shown(status[<<Job(g), WorkerID>>], Job(g)) = "syncing"
    BY <2>2, <2>3, <2>5 DEF ShownOrTold, Copies
  <2> QED
    BY <2>6 DEF Shown, Stored
<1> QED
  BY <1>1, BaseInvariance, ShowInvariance, PTL
-----------------------------------------------------------------------------
(***************************************************************************)
(* Which commands are over.                                                *)
(***************************************************************************)

\* The steps that are no control loop's and no handler's.
LEMMA ControlFixed ==
    ASSUME BaseInv, Serial, [SysNext]_sysVars, ~Crash, ~(LocalStep /\ ~Booting)
    PROVE  UNCHANGED <<ctrlChan, httpVars>>
<1> USE DEF wVars, workerVars, mjVars, jobVars
<1>1. CASE UNCHANGED sysVars
  BY <1>1 DEF sysVars
<1>2. ASSUME NEW h \in Threads, ManagerStep(h) PROVE UNCHANGED <<ctrlChan, httpVars>>
  BY <1>2 DEF ManagerStep
<1>3. CASE ~panicked /\ (WorkerStep \/ Handle)
  BY <1>3, BaseWorker, BaseHandle DEF LocalStep
<1>4. CASE ~panicked /\ Reporting
  BY <1>4 DEF Reporting, RegisterWorker, PostRequest, Registered, ServerUp, BootLock, Boot,
     UpdateStatus, StatusUpdated, UpdateSchedInfo, SchedInfoUpdated
<1>5. ASSUME ~panicked, NEW c \in Clients,
             \/ \E cmd \in Cmds, j \in Jobs : ClientCmd(c, cmd, j)
             \/ Deliver(c) \/ Take(c) \/ Delivered(c)
      PROVE  UNCHANGED <<ctrlChan, httpVars>>
  <2>1. ~Take(c)
    BY <1>5, TakeStep DEF LocalStep, BaseInv
  <2> QED
    BY <1>5, <2>1 DEF ClientCmd, Deliver, Delivered
<1> QED
  BY <1>1, <1>2, <1>3, <1>4, <1>5 DEF SysNext, Commands, SysRest

\* A message gets into ctrlChan by the handler's send and by the tick.
LEMMA CtrlSources ==
    ASSUME BaseInv, Serial, [SysNext]_sysVars, NEW j \in Jobs
    PROVE  \/ ctrlChan'[j] \in {ctrlChan[j], NoCtrl, "jobStart"}
           \/ hpc = "send" /\ hjob = j /\ ctrlChan'[j] = Ctrl[hcmd]
<1>1. CASE Crash
  BY <1>1 DEF Crash
<1>2. CASE LocalStep /\ ~Booting
  BY <1>2, CtrlMoves DEF HTTPSend
<1> QED
  BY <1>1, <1>2, ControlFixed

\* A handler of the worker begins with the command of a client.
LEMMA CmdSources ==
    ASSUME BaseInv, Serial, [SysNext]_sysVars
    PROVE  \/ hcmd' = "none"
           \/ hcmd' = hcmd /\ (hpc = "idle" => hpc' = "idle")
           \/ \E c \in Clients : ~Idle(c) /\ hcmd' = req[c].kind
<1>1. CASE Crash
  BY <1>1 DEF Crash
<1>2. CASE LocalStep
  <2>1. ASSUME NEW c \in Clients, Take(c) PROVE ~Idle(c) /\ hcmd' = req[c].kind
    BY <2>1 DEF Take, HTTPCmd, BaseInv, PostInv, Idle
  <2>2. CASE Handle
    BY <2>2 DEF Handle, HTTPStep, HTTPBranch, HTTPSend, HTTPEval, HTTPAwait, HTTPReturn
  <2> QED
    BY <1>2, <2>1, <2>2, NoHandler DEF httpVars
<1> QED
  BY <1>1, <1>2, ControlFixed DEF httpVars

\* The handler of a command in the manager begins with a command of tunasynctl,
\* and there are MaxCmds of them.
LEMMA ClientSources ==
    ASSUME BaseInv, Serial, [SysNext]_sysVars
    PROVE  \/ /\ ncmds < MaxCmds /\ ncmds' = ncmds + 1 /\ UNCHANGED runVars
              /\ \E c \in Clients : \E cmd \in Cmds :
                    /\ req'[c].kind = cmd
                    /\ \A d \in Clients : d # c => mgrpc'[d] = mgrpc[d] /\ req'[d] = req[d]
           \/ /\ ncmds' = ncmds
              /\ \A c \in Clients : mgrpc'[c] # "idle" => mgrpc[c] # "idle" /\ req'[c] = req[c]
<1> USE DEF wVars, workerVars
<1>1. MgrTypes /\ MgrInv /\ Clients \subseteq Threads
  BY BaseMgr DEF Threads, BaseInv
<1>2. CASE UNCHANGED sysVars
  BY <1>2 DEF sysVars, mVars
<1>3. ASSUME NEW h \in Threads, ManagerStep(h)
      PROVE  /\ ncmds' = ncmds
             /\ \A c \in Clients : mgrpc'[c] # "idle" => mgrpc[c] # "idle" /\ req'[c] = req[c]
  <2>1. ncmds' = ncmds
    BY <1>3 DEF ManagerStep
  <2> QED
    BY <1>1, <1>3, <2>1, HandlerFrame
<1>4. CASE Crash
  BY <1>4 DEF Crash, mVars
<1>5. CASE WorkerStep \/ Handle
  BY <1>5 DEF WorkerStep, Handle, JobStep, mVars
<1>6. ASSUME NEW r, PostRequest(r)
      PROVE  /\ ncmds' = ncmds
             /\ \A c \in Clients : mgrpc'[c] # "idle" => mgrpc[c] # "idle" /\ req'[c] = req[c]
  <2>1. PICK p \in Reporters : Mgr!Accept(p, r)
    BY <1>6 DEF PostRequest
  <2>2. p \notin Clients
    BY SystemAssumption
  <2> QED
    BY <1>1, <1>6, <2>1, <2>2 DEF PostRequest, Mgr!Accept, MgrTypes
<1>7. CASE Reporting
  BY <1>6, <1>7 DEF Reporting, RegisterWorker, Registered, ServerUp, BootLock, Boot,
     UpdateStatus, StatusUpdated, UpdateSchedInfo, SchedInfoUpdated, mVars
<1>8. ASSUME NEW c \in Clients, NEW cmd \in Cmds, NEW j \in Jobs, ClientCmd(c, cmd, j)
      PROVE  /\ ncmds < MaxCmds /\ ncmds' = ncmds + 1 /\ UNCHANGED runVars
             /\ req'[c].kind = cmd
             /\ \A d \in Clients : d # c => mgrpc'[d] = mgrpc[d] /\ req'[d] = req[d]
  BY <1>1, <1>8 DEF ClientCmd, Mgr!Accept, Request, MgrTypes, runVars
<1>9. ASSUME NEW c \in Clients, Deliver(c) \/ Take(c)
      PROVE  ncmds' = ncmds /\ UNCHANGED <<mgrpc, req>>
  BY <1>9 DEF Deliver, Take, mVars
<1>10. ASSUME NEW c \in Clients, Delivered(c)
       PROVE  /\ ncmds' = ncmds
              /\ \A d \in Clients : mgrpc'[d] # "idle" => mgrpc[d] # "idle" /\ req'[d] = req[d]
  BY <1>1, <1>10 DEF Delivered, Mgr!Post, Mgr!Respond, MgrTypes
<1> QED
  BY <1>2, <1>3, <1>4, <1>5, <1>7, <1>8, <1>9, <1>10 DEF SysNext, Commands, SysRest
\* The state of a job changes when its control loop takes a message.
LEMMA StateTaken ==
    ASSUME BaseInv, ~Booting, LocalStep, NEW j \in Jobs, state'[j] # state[j]
    PROVE  \E g \in Runs : /\ Job(g) = j /\ pc[g] \in {"wait", "idle"}
                           /\ ctrlChan'[j] = NoCtrl /\ UNCHANGED workerVars
<1>1. WInv /\ mpc = "idle"
  BY DEF BaseInv, WorkerInv
<1>2. ASSUME NEW g \in Runs, LoopStep(g)
      PROVE  Job(g) = j /\ pc[g] \in {"wait", "idle"} /\ ctrlChan'[j] = NoCtrl
  <2>1. Job(g) = j /\ ctrlChan'[j] = NoCtrl
    BY <1>1, <1>2, LoopTakes
  <2>2. ~Begin(g) /\ ~LoopTop(g) /\ ~JobDone(g) /\ ~Reap(g)
    BY DEF Begin, LoopTop, JobDone, Reap, jobVars
  <2> QED
    BY <1>2, <2>1, <2>2 DEF LoopStep, WaitCtrl, IdleCtrl
<1>3. ASSUME NEW g \in Runs PROVE ~RunnerStep(g) /\ ~ProviderStep(g)
  BY DEF RunnerStep, ProviderStep, Acquire, BypassSemaphore, KilledWaiting, Send,
     PreJobHooks, PreExecHooks, AwaitStarted, AwaitSync, Terminate, PostHooks, Return,
     ProviderStart, ProviderEnd, Timeout, jobVars
<1>4. CASE JobStep
  BY <1>2, <1>3, <1>4 DEF JobStep, Release, jobVars
<1>5. CASE ~JobStep
  <2>1. ~WorkerStep /\ ~Handle
    BY <1>5 DEF WorkerStep, Handle, HTTPStep, HTTPBranch, HTTPSend, HTTPEval, HTTPAwait,
       SendCtrl, SchedRecv, SchedLookup, SchedCheck, SchedPush, SchedPop, ReceiveMsg,
       mjVars, jobVars
  <2>2. ~UpdateStatus /\ ~UpdateSchedInfo /\ ~StatusUpdated /\ ~SchedInfoUpdated
    BY DEF UpdateStatus, UpdateSchedInfo, StatusUpdated, SchedInfoUpdated, PostRequest,
       wVars, mjVars, jobVars
  <2>3. ASSUME NEW c \in Clients,
               \/ Take(c) \/ Deliver(c) \/ Delivered(c)
               \/ \E cmd \in Cmds, k \in Jobs : ClientCmd(c, cmd, k)
        PROVE  FALSE
    BY <2>3 DEF Take, HTTPCmd, Deliver, Delivered, ClientCmd, wVars, mjVars, jobVars
  <2> QED
    BY <2>1, <2>2, <2>3 DEF LocalStep
<1> QED
  BY <1>4, <1>5

\* A disabled job that is left alone stays disabled ...
LEMMA DisabledStays ==
    ASSUME BaseInv, ~Booting, LocalStep, DisabledIdle, NEW j \in Jobs, state[j] = "disabled"
    PROVE  state'[j] = "disabled"
<1>1. SUFFICES ASSUME state'[j] # state[j] PROVE FALSE
  OBVIOUS
<1>2. PICK g \in Runs : Job(g) = j /\ pc[g] \in {"wait", "idle"}
  BY <1>1, StateTaken
<1> QED
  BY <1>2 DEF DisabledIdle

\* ... and is left alone while no starting command is handled.
LEMMA DisabledIdleStays ==
    ASSUME BaseInv, BaseInv', Serial, [SysNext]_sysVars, DisabledIdle, hcmd \notin Starting
    PROVE  DisabledIdle'
<1> USE DEF wVars, workerVars, mjVars, jobVars, loopVars
<1>1. CASE Crash
  BY <1>1 DEF Crash, DisabledIdle
<1>2. CASE Boot
  <2>1. WInv' /\ ctrlChan' = [j \in Jobs |-> NoCtrl] /\ hpc' = "idle"
    <3>1. Unborn
      BY <1>2 DEF Boot, BaseInv, WorkerInv, Booting
    <3>2. ~Booting'
      BY <1>2 DEF Boot, Booting
    <3> QED
      BY <1>2, <3>1, <3>2 DEF Boot, BaseInv, WorkerInv, Unborn, QuietInit, httpVars
  <2>2. ASSUME NEW g \in Runs, state'[Job(g)] = "disabled" PROVE pc'[g] \in {"off", "leaving"}
    <3>1. ctrlChan'[Job(g)] = NoCtrl
      BY <2>1, RunsAssumption DEF Job
    <3>2. ~Reviving(g)'
      BY <2>1, <3>1 DEF Reviving, Job, NoCtrl
    <3> QED
      BY <2>1, <2>2, <3>2 DEF WInv, ControlInv, DisabledInv, Live, Job
  <2> QED
    BY <2>2 DEF DisabledIdle, Job
<1>3. CASE ~Booting /\ LocalStep
  <2> SUFFICES ASSUME NEW u \in Runs, NEW j \in Jobs, Job(u) = j, state'[j] = "disabled"
               PROVE  pc'[u] \in {"off", "leaving"}
    BY RunsAssumption DEF DisabledIdle, Job
  <2>1. pc \in [Runs -> LoopPC] /\ WInv
    BY <1>3 DEF BaseInv, WorkerInv, WInv, MJInv, MJTypeOK
  <2>2. CASE state[j] = "disabled"
    <3>1. pc[u] \in {"off", "leaving"}
      BY <2>2 DEF DisabledIdle
    <3>2. CASE LoopStep(u)
      BY <2>1, <3>1, <3>2 DEF LoopStep, Begin, LoopTop, JobDone, WaitCtrl, Reap, IdleCtrl,
         Killed, Continue, Exit
    <3>3. CASE RunnerStep(u) \/ ProviderStep(u)
      BY <3>1, <3>3 DEF RunnerStep, ProviderStep, Acquire, BypassSemaphore, KilledWaiting, Send,
         PreJobHooks, PreExecHooks, AwaitStarted, AwaitSync, Terminate, PostHooks, Return,
         ProviderStart, ProviderEnd, Timeout
    <3> QED
      BY <1>3, <3>1, <3>2, <3>3, RunMoves
  <2>3. CASE state[j] # "disabled"
    <3>1. ctrlChan[j] = "jobDisable"
      BY <1>3, <2>3, StateMoves
    <3>2. hpc \in {"eval", "await"}
      BY <2>1, <3>1 DEF WInv, ControlInv, PendingInv
    <3>3. ctrlChan'[j] = NoCtrl /\ UNCHANGED workerVars
      BY <1>3, <2>3, StateTaken
    <3>4. ~Reviving(u)'
      BY <3>2, <3>3 DEF Reviving, Job, NoCtrl, httpVars
    <3>5. WInv'
      <4>1. ~Booting'
        BY <1>3, <3>3 DEF Booting, schedVars
      <4> QED
        BY <4>1 DEF BaseInv, WorkerInv
    <3> QED
      BY <3>4, <3>5 DEF WInv, ControlInv, DisabledInv, Live, Job
  <2> QED
    BY <2>2, <2>3
<1>4. CASE UNCHANGED <<state, pc>>
  BY <1>4 DEF DisabledIdle
<1>5. ASSUME NEW h \in Threads, ManagerStep(h) PROVE UNCHANGED <<state, pc>>
  BY <1>5 DEF ManagerStep
<1>6. ASSUME ~panicked, Reporting, ~Boot, ~(~Booting /\ LocalStep) PROVE UNCHANGED <<state, pc>>
  BY <1>6 DEF Reporting, RegisterWorker, PostRequest, Registered, ServerUp, BootLock,
     UpdateStatus, StatusUpdated, UpdateSchedInfo, SchedInfoUpdated
<1>7. ASSUME NEW c \in Clients,
             \/ \E cmd \in Cmds, j \in Jobs : ClientCmd(c, cmd, j)
             \/ Deliver(c) \/ Take(c) \/ Delivered(c)
      PROVE  UNCHANGED <<state, pc>>
  BY <1>7 DEF ClientCmd, Deliver, Take, HTTPCmd, Delivered
<1>8. CASE ~panicked /\ (WorkerStep \/ Handle)
  BY <1>3, <1>8, BaseWorker, BaseHandle DEF LocalStep
<1>9. CASE UNCHANGED sysVars
  BY <1>4, <1>9 DEF sysVars
<1> QED
  BY <1>1, <1>2, <1>3, <1>4, <1>5, <1>6, <1>7, <1>8, <1>9 DEF SysNext, Commands, SysRest

LEMMA StopsStay ==
    ASSUME BaseInv, Serial, [SysNext]_sysVars, StopsOver, ncmds \in Nat
    PROVE  StopsOver'
<1>1. MaxCmds \in Nat
  BY WorkerAssumption
<1>2. "stop" \notin Cmds \/ ncmds' >= MaxCmds
  BY <1>1, ClientSources DEF StopsOver
<1>3. ASSUME NEW c \in Clients, mgrpc'[c] # "idle" PROVE req'[c].kind # "stop"
  BY <1>1, <1>3, ClientSources DEF StopsOver, Idle
<1>4. hcmd' # "stop"
  BY CmdSources DEF StopsOver
<1>5. ASSUME NEW j \in Jobs PROVE ctrlChan'[j] # "jobStop"
  <2>1. ASSUME hpc = "send" PROVE Ctrl[hcmd] # "jobStop"
    <3>1. ~Booting
      BY <2>1 DEF BaseInv, WorkerInv, Unborn
    <3>2. hcmd \in CmdVerb \ {"ping", "stop"}
      BY <2>1, <3>1 DEF BaseInv, WorkerInv, WInv, WTypeOK, ControlInv, LockInv, StopsOver
    <3> QED
      BY <3>2 DEF Ctrl, CmdVerb
  <2> QED
    BY <2>1, CtrlSources DEF StopsOver, NoCtrl
<1> QED
  BY <1>2, <1>3, <1>4, <1>5 DEF StopsOver, Idle

LEMMA StartsStay ==
    ASSUME BaseInv, BaseInv', Serial, [SysNext]_sysVars, StartsOver, ncmds \in Nat
    PROVE  StartsOver'
<1>1. MaxCmds \in Nat
  BY WorkerAssumption
<1>2. "start" \notin Cmds \/ ncmds' >= MaxCmds
  BY <1>1, ClientSources DEF StartsOver
<1>3. ASSUME NEW c \in Clients, mgrpc'[c] # "idle" PROVE req'[c].kind # "start"
  BY <1>1, <1>3, ClientSources DEF StartsOver, Idle
<1>4. hcmd' \notin Starting
  <2>1. ASSUME NEW c \in Clients, ~Idle(c) PROVE req[c].kind \notin Starting
    <3>1. req[c].kind \in {"start", "stop", "disable"}
      BY <2>1, SystemAssumption DEF BaseInv, ClientInv, ClientOK, Idle, ClientRequests
    <3> QED
      BY <2>1, <3>1 DEF StartsOver, Starting
  <2> QED
    BY <2>1, CmdSources DEF StartsOver, Starting
<1>5. DisabledIdle'
  BY DisabledIdleStays DEF StartsOver
<1> QED
  BY <1>2, <1>3, <1>4, <1>5 DEF StartsOver, Idle

\* The one command is a start, a stop or a disable.
LEMMA FirstGiven ==
    ASSUME BaseInv, BaseInv', Serial, [SysNext]_sysVars, NoneGiven
    PROVE  StopsOver' \/ StartsOver' \/ NoneGiven'
<1>1. MaxCmds \in Nat /\ ncmds \in Nat
  BY WorkerAssumption DEF NoneGiven
<1>2. DisabledIdle'
  BY DisabledIdleStays DEF NoneGiven, Starting
<1>3. hcmd' = "none" /\ hpc' = "idle"
  <2>1. hcmd' = "none"
    BY CmdSources DEF NoneGiven
  <2>2. hpc' = "idle"
    <3>1. CASE ~Booting'
      BY <2>1, <3>1 DEF BaseInv, WorkerInv, WInv, ControlInv, LockInv
    <3>2. CASE Booting'
      BY <3>2 DEF BaseInv, WorkerInv, Unborn
    <3> QED
      BY <3>1, <3>2
  <2> QED
    BY <2>1, <2>2
<1>4. ASSUME NEW j \in Jobs PROVE ctrlChan'[j] # "jobStop"
  BY CtrlSources DEF NoneGiven, NoCtrl
<1>5. CASE /\ ncmds' = ncmds
           /\ \A c \in Clients : mgrpc'[c] # "idle" => mgrpc[c] # "idle" /\ req'[c] = req[c]
  <2>1. \A c \in Clients : mgrpc'[c] = "idle"
    BY <1>5 DEF NoneGiven, Idle
  <2>2. NoneGiven'
    BY <1>2, <1>3, <1>4, <1>5, <2>1 DEF NoneGiven, Idle
  <2> QED
    BY <2>2
<1>6. ASSUME ncmds < MaxCmds, ncmds' = ncmds + 1, NEW c \in Clients, NEW cmd \in Cmds,
             req'[c].kind = cmd,
             \A d \in Clients : d # c => mgrpc'[d] = mgrpc[d] /\ req'[d] = req[d]
      PROVE  StopsOver' \/ StartsOver'
  <2>1. ncmds' >= MaxCmds
    BY <1>1, <1>6 DEF NoneGiven
  <2>2. \A d \in Clients : mgrpc'[d] # "idle" => req'[d].kind = cmd
    BY <1>6 DEF NoneGiven, Idle
  <2>3. CASE cmd # "stop"
    BY <1>3, <1>4, <2>1, <2>2, <2>3 DEF StopsOver, Idle
  <2>4. CASE cmd = "stop"
    BY <1>2, <1>3, <2>1, <2>2, <2>4 DEF StartsOver, Starting, Idle
  <2> QED
    BY <2>3, <2>4
<1> QED
  BY <1>5, <1>6, ClientSources

LEMMA VerbStep ==
    ASSUME BaseInv, BaseInv', Serial, [SysNext]_sysVars, VerbInv
    PROVE  VerbInv'
<1>1. ncmds \in Nat /\ ncmds' \in Nat
  BY ClientSources DEF VerbInv
<1> QED
  BY <1>1, StopsStay, StartsStay, FirstGiven DEF VerbInv

LEMMA VerbInit == Unmixed /\ SysInit => VerbInv
<1> SUFFICES ASSUME Unmixed, SysInit PROVE VerbInv
  OBVIOUS
<1>1. MaxCmds \in Nat /\ ncmds = 0 /\ DisabledIdle
  BY WorkerAssumption DEF SysInit, WorkerStarts, DisabledIdle
<1>2. /\ \A c \in Clients : Idle(c)
      /\ hpc = "idle" /\ hcmd = "none"
      /\ \A j \in Jobs : ctrlChan[j] # "jobStop"
  BY DEF SysInit, WorkerStarts, QuietInit, Idle, Threads, NoCtrl
<1> QED
  BY <1>1, <1>2 DEF Unmixed, VerbInv, StopsOver, StartsOver, NoneGiven, Starting
\* A start that revives a disabled job is the last word on it, but for another
\* disable.
LEMMA DisableKept ==
    ASSUME BaseInv, Serial, ~Booting, LocalStep, [SysNext]_sysVars, VerbInv,
           NEW j \in Jobs, DisableOK(j)
    PROVE  DisableOK(j)'
<1>1. CASE state'[j] = "disabled"
  BY <1>1 DEF DisableOK
<1>2. CASE state'[j] # "disabled"
  <2>1. StopsOver => StopsOver' /\ ctrlChan[j] # "jobStop"
    BY StopsStay DEF VerbInv, StopsOver
  <2>2. CASE Due(j, {"disable"})
    <3>1. Due(j, {"disable"})'
      BY <1>2, <2>2, DueKept DEF Stops
    <3> QED
      BY <3>1 DEF DisableOK
  <2>3. CASE state[j] = "disabled"
    <3>1. ~DisabledIdle
      BY <1>2, <2>3, DisabledStays
    <3>2. StopsOver
      BY <3>1 DEF VerbInv, StartsOver, NoneGiven
    <3> QED
      BY <1>2, <2>1, <2>3, <3>2, StateMoves DEF DisableOK
  <2>4. CASE StopsOver /\ state[j] = "ready" /\ ReportDue(j)
    <3>1. state'[j] = "ready"
      BY <1>2, <2>1, <2>4, StateMoves
    <3> QED
      BY <2>1, <2>4, <3>1, DueReportKept DEF DisableOK
  <2> QED
    BY <2>2, <2>3, <2>4 DEF DisableOK
<1> QED
  BY <1>1, <1>2

LEMMA DisableHandler ==
    ASSUME BaseInv, DisableInv, VerbInv, Serial, ~Booting, NEW h \in Threads, ManagerStep(h),
           [SysNext]_sysVars
    PROVE  DisableInv'
<1> SUFFICES ASSUME NEW j \in Jobs, NEW m \in Copies(j)', Shown(m, j) = "disabled"
             PROVE  DisableOK(j)'
  BY DEF DisableInv
<1>1. UNCHANGED <<wVars, netVars>> /\ MgrInv
  BY BaseMgr DEF ManagerStep
<1>2. CopyStep(h)
  BY <1>1, ReporterSteps, ClientSteps DEF Threads
<1>3. ASSUME DisableOK(j) PROVE DisableOK(j)'
  <2>1. CASE state[j] = "disabled"
    BY <1>1, <2>1 DEF DisableOK, wVars, mjVars, jobVars
  <2>2. CASE Due(j, {"disable"})
    BY <2>2, HandlerDue DEF DisableOK
  <2>3. CASE StopsOver /\ state[j] = "ready" /\ ReportDue(j)
    <3>1. UNCHANGED <<state, pc, rpc, out, managerChan, smsg>>
      BY <1>1 DEF wVars, mjVars, jobVars, loopVars, runnerVars, chanVars, workerVars, schedVars
    <3>2. CASE ReportDue(j)'
      <4>1. StopsOver'
        BY <2>3, StopsStay DEF VerbInv
      <4> QED
        BY <2>3, <3>1, <3>2, <4>1 DEF DisableOK
    <3>3. CASE ~ReportDue(j)'
      <4>1. Unwritten /\ smsg.name = j /\ ~Unwritten'
        BY <2>3, <3>1, <3>3 DEF ReportDue, Tells
      <4>2. \A n \in Copies(j)' : Shown(n, j) = StatusReport(smsg).status
            /\ StatusReport(smsg) \in JobReports
        BY <4>1, HandlerDue, AnswerShows
      <4> QED
        BY <4>2 DEF JobReports
    <3> QED
      BY <3>2, <3>3
  <2> QED
    BY <1>3, <2>1, <2>2, <2>3 DEF DisableOK
<1>4. CASE \E n \in Copies(j) : Shown(m, j) = Shown(n, j)
  BY <1>3, <1>4 DEF DisableInv
<1>5. CASE /\ h \in Clients /\ mgrpc[h] = "write" /\ mgrpc'[h] = "post"
           /\ req[h].mirror = j /\ req'[h] = req[h]
           /\ Shown(m, j) \in {"none", Mgr!NewStatus[req[h].kind]}
  <2>1. req[h].kind \in {"stop", "disable"}
    BY <1>1, <1>5 DEF MgrInv, ClientInv, ClientOK
  <2>2. req[h].kind = "disable"
    BY <1>5, <2>1, NewStatuses
  <2>3. wcmd[h] = "none"
    BY <1>1, <1>5 DEF MgrInv, PostInv
  <2>4. DuePost(j, {"disable"})'
    BY <1>1, <1>5, <2>2, <2>3 DEF DuePost, netVars
  <2> QED
    BY <2>4 DEF DisableOK, Due
<1>6. CASE req[h] \in JobReports /\ Shown(m, j) = req[h].status
  BY <1>6 DEF JobReports
<1> QED
  BY <1>2, <1>4, <1>5, <1>6 DEF CopyStep

LEMMA DisableStep ==
    ASSUME BaseInv, DisableInv, VerbInv, Serial, [SysNext]_sysVars
    PROVE  DisableInv'
<1>1. CASE Booting'
  BY <1>1 DEF DisableInv
<1>2. CASE ~Booting /\ LocalStep
  <2>1. ASSUME NEW j \in Jobs, NEW m \in Copies(j)', Shown(m, j) = "disabled"
        PROVE  DisableOK(j)'
    <3>1. m \in Copies(j)
      BY <1>2, LocalCopies
    <3>2. DisableOK(j)
      BY <1>2, <2>1, <3>1 DEF DisableInv
    <3> QED
      BY <1>2, <3>2, DisableKept
  <2> QED
    BY <2>1 DEF DisableInv
<1>3. CASE Boot
  <2>1. ASSUME NEW j \in Jobs, NEW m \in Copies(j)', Shown(m, j) = "disabled"
        PROVE  state'[j] = "disabled"
    BY <1>3, <2>1, BootCopies, BootStates
  <2> QED
    BY <2>1 DEF DisableInv, DisableOK
<1>4. CASE ~Booting /\ UNCHANGED sysVars
  <2> USE DEF sysVars, wVars, workerVars, mjVars, jobVars, loopVars, runnerVars, chanVars,
          httpVars, schedVars, mVars, netVars
  <2>1. ASSUME NEW j \in Jobs PROVE UNCHANGED Copies(j)
    BY <1>4 DEF Copies, Holding, Mgr!Key
  <2>2. ASSUME NEW j \in Jobs, NEW K PROVE Due(j, K) => Due(j, K)'
    BY <1>4 DEF Due, DuePost, DueCmd, DueCtrl
  <2>3. ASSUME NEW j \in Jobs PROVE ReportDue(j) => ReportDue(j)'
    BY <1>4 DEF ReportDue, Tells, Unwritten, Idle
  <2>4. StopsOver => StopsOver'
    BY StopsStay DEF VerbInv
  <2>5. ASSUME NEW j \in Jobs, DisableOK(j) PROVE DisableOK(j)'
    BY <1>4, <2>2, <2>3, <2>4, <2>5 DEF DisableOK
  <2> QED
    BY <1>4, <2>1, <2>5 DEF DisableInv
<1> QED
  BY <1>1, <1>2, <1>3, <1>4, DisableHandler, Steps

LEMMA DisableInvariance == Serial /\ Unmixed => (SysSpec => [](VerbInv /\ DisableInv))
<1> SUFFICES ASSUME Serial, Unmixed PROVE SysSpec => [](VerbInv /\ DisableInv)
  OBVIOUS
<1>1. SysInit => VerbInv /\ DisableInv
  BY VerbInit DEF SysInit, WorkerStarts, DisableInv, Booting
<1>2. BaseInv /\ BaseInv' /\ VerbInv /\ [SysNext]_sysVars => VerbInv'
  BY VerbStep
<1>3. BaseInv /\ VerbInv /\ DisableInv /\ [SysNext]_sysVars => DisableInv'
  BY DisableStep
<1> QED
  BY <1>1, <1>2, <1>3, BaseInvariance, PTL DEF SysSpec

\* What the manager stores and what the worker does agree once nothing is under
\* way, for any number of jobs and clients and any number of commands, as long
\* as those do not both start and stop jobs: a job that is stored as disabled
\* has no goroutine and one that is stored as paused does not run by itself
\* (QuietAgreement).
THEOREM StoredStatesHold == Serial /\ Unmixed => (SysSpec => []QuietAgreement)
<1> SUFFICES ASSUME Serial, Unmixed PROVE SysSpec => []QuietAgreement
  OBVIOUS
<1>1. StoppedAgreement /\ DisableInv => QuietAgreement
  <2> SUFFICES ASSUME StoppedAgreement, DisableInv, NEW j \in Jobs, AtRest, QuietFor(j), ~panicked
               PROVE  /\ Stored(j) = "disabled" => state[j] = "disabled"
                      /\ Stored(j) = "paused" => state[j] \in {"paused", "disabled"}
    BY DEF QuietAgreement
  <2>1. ~Booting /\ hpc = "idle" /\ ctrlChan[j] = NoCtrl
    BY DEF AtRest, Booting, QuietFor
  <2>2. status[<<j, WorkerID>>] \in Copies(j)
        /\ Shown(status[<<j, WorkerID>>], j) = Stored(j)
    BY DEF Copies, Shown, Stored
  <2>3. ASSUME Stored(j) = "disabled" PROVE state[j] = "disabled"
    <3>1. DisableOK(j)
      BY <2>1, <2>2, <2>3 DEF DisableInv
    <3>2. ~Due(j, {"disable"})
      BY <2>1, RestNothingDue DEF Stops
    <3> QED
      BY <3>1, <3>2, RestNothingTold DEF DisableOK
  <2> QED
    BY <2>3 DEF StoppedAgreement
<1> QED
  BY <1>1, StoredStopsHold, DisableInvariance, PTL

-----------------------------------------------------------------------------
\* A job is never driven by two goroutines at a time, also when the worker dies
\* and boots again and its commands come from the manager's handlers
\* (OneRunPerJob).
THEOREM OneRunInSystem == Serial => (SysSpec => []OneRunPerJob)
<1> SUFFICES ASSUME Serial PROVE SysSpec => []OneRunPerJob
  OBVIOUS
<1>1. BaseInv => OneRunPerJob
  <2> SUFFICES ASSUME BaseInv, NEW j \in Jobs PROVE Cardinality(RunsOf(j)) <= 1
    BY DEF OneRunPerJob
  <2>1. \A g, h \in RunsOf(j) : g = h
    <3>1. CASE Booting
      BY <3>1 DEF BaseInv, WorkerInv, Unborn, RunsOf
    <3>2. CASE ~Booting
      BY <3>2 DEF BaseInv, WorkerInv, WInv, ControlInv, Sole, RunsOf, Live
    <3> QED
      BY <3>1, <3>2
  <2>2. CASE RunsOf(j) = {}
    BY <2>2, FS_EmptySet
  <2>3. CASE RunsOf(j) # {}
    <3>1. PICK g : g \in RunsOf(j)
      BY <2>3
    <3>2. RunsOf(j) = {g}
      BY <2>1, <3>1
    <3> QED
      BY <3>2, FS_Singleton
  <2> QED
    BY <2>2, <2>3
<1> QED
  BY <1>1, BaseInvariance, PTL
=============================================================================
