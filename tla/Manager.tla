------------------------------ MODULE Manager ------------------------------
(***************************************************************************)
(* The manager's HTTP handlers and its database (manager/server.go,        *)
(* manager/db.go, manager/middleware.go).                                  *)
(*                                                                         *)
(* Every request runs in a goroutine of its own.  A handler that changes a *)
(* stored mirror status reads the record in one section of rwmu, works on  *)
(* its copy, and writes the whole record back in a later section.  The     *)
(* sections under rwmu.Lock hold one database operation and are one step;  *)
(* those under RLock also refresh the worker record, a read and a write,   *)
(* and other readers get in between.                                       *)
(***************************************************************************)
EXTENDS Naturals, Sequences

CONSTANTS
    Threads,    \* the request goroutines that may be in progress
    Workers,
    Mirrors,
    Requests,   \* the requests clients and workers send
    MaxTime,    \* bound on the clock
    None        \* an absent record, or nothing

Sync == {"none", "failed", "success", "syncing", "pre-syncing", "paused",
         "disabled"}

Sizes == {"", "unknown", "known"}

\* The messages of a worker: registerWorker, updateStatus and updateSchedInfo.
Registration == [kind : {"register"}, worker : Workers]
StatusReport ==
    [kind : {"job"}, worker : Workers, mirror : Mirrors, status : Sync, size : Sizes]
ScheduleReport ==
    [kind : {"sched"}, worker : Workers, schedules : Seq([mirror : Mirrors, time : Nat])]

\* The messages of tunasynctl, ClientCmd and others.
ClientCmd ==
    [kind : {"start", "stop", "disable"}, worker : Workers, mirror : Mirrors]
SizeMsg == [kind : {"size"}, worker : Workers, mirror : Mirrors, size : Sizes]
Removal == [kind : {"delete"}, worker : Workers] \cup [kind : {"flush"}]

RequestType ==
    Registration \cup StatusReport \cup ScheduleReport \cup ClientCmd
      \cup SizeMsg \cup Removal

Time == 0..MaxTime

MirrorStatus ==
    [Name : Mirrors \cup {""}, Status : Sync, LastUpdate : Time,
     LastStarted : Time, LastEnded : Time, Scheduled : Time, Size : Sizes]

WorkerStatus == [LastOnline : Time, LastRegister : Time]

ASSUME ManagerAssumption ==
    /\ MaxTime \in Nat \ {0}
    /\ Requests \subseteq RequestType
    /\ \A r \in Requests : r.kind = "sched" =>
           r.schedules # <<>> /\ \A i \in 1..Len(r.schedules) : r.schedules[i].time \in Time
    /\ None \notin MirrorStatus \cup WorkerStatus

VARIABLES
    workers,    \* the worker bucket
    status,     \* the status bucket, by mirror and worker
    clock,
    pc,         \* pc[h]: where goroutine h is
    req,        \* req[h]: its request
    cur,        \* cur[h]: its copy of a mirror status
    worker,     \* worker[h]: RefreshWorker's copy of the worker record
    readers     \* the goroutines inside an RLock section

dbVars == <<workers, status>>
mgrVars == <<dbVars, clock, pc, req, cur, worker, readers>>

PC == {"idle", "validate", "change", "get", "put", "read", "compute", "write",
       "lookup", "cmdread", "post"}

\* The record that json.Unmarshal never touched.
Zero == [Name |-> "", Status |-> "none", LastUpdate |-> 0, LastStarted |-> 0,
         LastEnded |-> 0, Scheduled |-> 0, Size |-> ""]

\* The key of the mirror status that h is working on: updateSchedulesOfWorker
\* takes one schedule after the other.
Key(h) ==
    <<IF req[h].kind = "sched" THEN Head(req[h].schedules).mirror ELSE req[h].mirror,
      req[h].worker>>

MgrInit ==
    /\ workers = [w \in Workers |-> None]
    /\ status = [k \in Mirrors \X Workers |-> None]
    /\ clock = 1
    /\ pc = [h \in Threads |-> "idle"]
    /\ req = [h \in Threads |-> None]
    /\ cur = [h \in Threads |-> None]
    /\ worker = [h \in Threads |-> None]
    /\ readers = {}

-----------------------------------------------------------------------------
\* The first step of each route: the middleware, the handler's first section,
\* or its only one.
Entry == [job |-> "validate", size |-> "validate", sched |-> "validate",
          delete |-> "validate", start |-> "lookup", stop |-> "lookup",
          disable |-> "lookup", register |-> "change", flush |-> "change"]

Accept(h, r) ==
    /\ pc[h] = "idle"
    /\ req' = [req EXCEPT ![h] = r]
    /\ pc' = [pc EXCEPT ![h] = Entry[r.kind]]
    /\ UNCHANGED <<dbVars, clock, cur, worker, readers>>

\* Goroutine h is done with its request.
Respond(h) ==
    /\ pc' = [pc EXCEPT ![h] = "idle"]
    /\ req' = [req EXCEPT ![h] = None]
    /\ cur' = [cur EXCEPT ![h] = None]
    /\ worker' = [worker EXCEPT ![h] = None]

Goto(h, where) ==
    /\ pc' = [pc EXCEPT ![h] = where]
    /\ UNCHANGED req

\* h is done with one record: the next schedule of its list, if it has one, or
\* the response.
Finish(h) ==
    \/ /\ req[h].kind = "sched" /\ Len(req[h].schedules) > 1
       /\ req' = [req EXCEPT ![h].schedules = Tail(@)]
       /\ pc' = [pc EXCEPT ![h] = "get"]
       /\ cur' = [cur EXCEPT ![h] = None]
       /\ worker' = [worker EXCEPT ![h] = None]
    \/ ~(req[h].kind = "sched" /\ Len(req[h].schedules) > 1) /\ Respond(h)

\* workerIDValidator looks the worker up without a lock.
Validate(h) ==
    /\ pc[h] = "validate"
    /\ \/ workers[req[h].worker] = None /\ Respond(h)
       \/ /\ workers[req[h].worker] # None
          /\ Goto(h, IF req[h].kind = "delete" THEN "change" ELSE "get")
          /\ UNCHANGED <<cur, worker>>
    /\ UNCHANGED <<dbVars, clock, readers>>

\* registerWorker takes no lock.
Register(h) ==
    /\ pc[h] = "change" /\ req[h].kind = "register"
    /\ workers' = [workers EXCEPT ![req[h].worker] =
                       [LastOnline |-> clock, LastRegister |-> clock]]
    /\ Respond(h)
    /\ UNCHANGED <<status, clock, readers>>

\* deleteWorker leaves the statuses of the worker's mirrors where they are.
DeleteWorker(h) ==
    /\ pc[h] = "change" /\ req[h].kind = "delete" /\ readers = {}
    /\ workers' = [workers EXCEPT ![req[h].worker] = None]
    /\ Respond(h)
    /\ UNCHANGED <<status, clock, readers>>

\* FlushDisabledJobs also deletes the records without a name, which commands
\* for unknown mirrors leave behind.
FlushDisabledJobs(h) ==
    LET flushed(m) == m # None /\ (m.Status = "disabled" \/ m.Name = "") IN
    /\ pc[h] = "change" /\ req[h].kind = "flush" /\ readers = {}
    /\ status' = [k \in DOMAIN status |->
                      IF flushed(status[k]) THEN None ELSE status[k]]
    /\ Respond(h)
    /\ UNCHANGED <<workers, clock, readers>>

-----------------------------------------------------------------------------
(***************************************************************************)
(* updateJobOfWorker, updateMirrorSize and updateSchedulesOfWorker: the    *)
(* RLock section (RefreshWorker, then GetMirrorStatus), the computation,   *)
(* the Lock section.                                                       *)
(***************************************************************************)

\* Mutant: RefreshWorker is called before RLock.
RefreshGet_NoLock(h) ==
    /\ pc[h] = "get"
    /\ worker' = [worker EXCEPT ![h] = workers[req[h].worker]]
    /\ Goto(h, "put")
    /\ UNCHANGED <<dbVars, clock, cur, readers>>

RefreshGet(h) ==
    /\ pc[h] = "get"
    /\ readers' = readers \cup {h}
    /\ worker' = [worker EXCEPT ![h] = workers[req[h].worker]]
    /\ Goto(h, "put")
    /\ UNCHANGED <<dbVars, clock, cur>>

RefreshPut(h) ==
    /\ pc[h] = "put"
    /\ \/ worker[h] = None /\ UNCHANGED workers
       \/ /\ worker[h] # None
          /\ workers' = [workers EXCEPT ![req[h].worker] =
                             [worker[h] EXCEPT !.LastOnline = clock]]
    /\ Goto(h, "read")
    /\ UNCHANGED <<status, clock, cur, worker, readers>>

\* GetMirrorStatus and RUnlock.  Without a record updateJobOfWorker goes on
\* with the zero value; the other two give up on the record.
Read(h) ==
    /\ pc[h] = "read"
    /\ readers' = readers \ {h}
    /\ \/ /\ status[Key(h)] = None /\ req[h].kind # "job"
          /\ Finish(h)
       \/ /\ status[Key(h)] # None \/ req[h].kind = "job"
          /\ cur' = [cur EXCEPT ![h] = IF status[Key(h)] = None
                                       THEN Zero ELSE status[Key(h)]]
          /\ Goto(h, "compute")
          /\ UNCHANGED worker
    /\ UNCHANGED <<dbVars, clock>>

Meaningful(size) == size # "" /\ size # "unknown"

\* The size updateJobOfWorker stores.
KeptSize(old, new) == IF Meaningful(old) /\ ~Meaningful(new) THEN old ELSE new

Ended == {"success", "failed"}

\* Mutant: the start of a sync sets last_update.
JobStatus_SyncingUpdates(old, r) ==
    [Name |-> r.mirror,
     Status |-> r.status,
     LastStarted |-> IF r.status = "pre-syncing" /\ old.Status # "pre-syncing"
                     THEN clock ELSE old.LastStarted,
     LastUpdate |-> IF r.status \in {"pre-syncing", "success"} THEN clock ELSE old.LastUpdate,
     LastEnded |-> IF r.status \in Ended THEN clock ELSE old.LastEnded,
     Scheduled |-> 0,
     Size |-> KeptSize(old.Size, r.size)]

\* Mutant: a report does not take a mirror out of disabled.
JobStatus_KeepsDisabled(old, r) ==
    [Name |-> r.mirror,
     Status |-> IF old.Status = "disabled" THEN old.Status ELSE r.status,
     LastStarted |-> IF r.status = "pre-syncing" /\ old.Status # "pre-syncing"
                     THEN clock ELSE old.LastStarted,
     LastUpdate |-> IF r.status = "success" THEN clock ELSE old.LastUpdate,
     LastEnded |-> IF r.status \in Ended THEN clock ELSE old.LastEnded,
     Scheduled |-> 0,
     Size |-> KeptSize(old.Size, r.size)]

\* The record updateJobOfWorker stores.  The worker sends no times, so the
\* next schedule falls back to zero.
JobStatus(old, r) ==
    [Name |-> r.mirror,
     Status |-> r.status,
     LastStarted |-> IF r.status = "pre-syncing" /\ old.Status # "pre-syncing"
                     THEN clock ELSE old.LastStarted,
     LastUpdate |-> IF r.status = "success" THEN clock ELSE old.LastUpdate,
     LastEnded |-> IF r.status \in Ended THEN clock ELSE old.LastEnded,
     Scheduled |-> 0,
     Size |-> KeptSize(old.Size, r.size)]

\* The condition of updateMirrorSize, which every size satisfies.
AcceptedSize(size) == size # "" \/ size # "unknown"

\* The work on the copy.  updateSchedulesOfWorker compares two time.Time
\* structs with ==, which may tell equal instants apart: with equal times it
\* skips the write or does it.
Compute(h) ==
    LET r == req[h] IN
    /\ pc[h] = "compute"
    /\ \/ /\ r.kind = "job"
          /\ cur' = [cur EXCEPT ![h] = JobStatus(@, r)]
          /\ Goto(h, "write") /\ UNCHANGED worker
       \/ /\ r.kind = "size"
          /\ cur' = [cur EXCEPT ![h].Size = IF AcceptedSize(r.size) THEN r.size ELSE @]
          /\ Goto(h, "write") /\ UNCHANGED worker
       \/ /\ r.kind = "sched"
          /\ cur' = [cur EXCEPT ![h].Scheduled = Head(r.schedules).time]
          /\ Goto(h, "write") /\ UNCHANGED worker
       \/ r.kind = "sched" /\ cur[h].Scheduled = Head(r.schedules).time /\ Finish(h)
    /\ UNCHANGED <<dbVars, clock, readers>>

\* UpdateMirrorStatus under Lock.
Write(h) ==
    /\ pc[h] = "write" /\ readers = {}
    /\ status' = [status EXCEPT ![Key(h)] = cur[h]]
    /\ \/ req[h].kind \in {"job", "size", "sched"} /\ Finish(h)
       \/ /\ req[h].kind \in {"stop", "disable"}
          /\ Goto(h, "post") /\ UNCHANGED <<cur, worker>>
    /\ UNCHANGED <<workers, clock, readers>>

-----------------------------------------------------------------------------
(***************************************************************************)
(* handleClientCmd.                                                        *)
(***************************************************************************)

\* GetWorker in an RLock section of its own.
Lookup(h) ==
    /\ pc[h] = "lookup"
    /\ \/ workers[req[h].worker] = None /\ Respond(h)
       \/ /\ workers[req[h].worker] # None
          /\ Goto(h, "cmdread")
          /\ UNCHANGED <<cur, worker>>
    /\ UNCHANGED <<dbVars, clock, readers>>

NewStatus == [stop |-> "paused", disable |-> "disabled"]

\* GetMirrorStatus in a second one: a missing record becomes the zero value.
\* Stop and disable change the copy and store it.
CmdRead(h) ==
    LET old == IF status[Key(h)] = None THEN Zero ELSE status[Key(h)] IN
    /\ pc[h] = "cmdread"
    /\ \/ req[h].kind = "start" /\ Goto(h, "post") /\ UNCHANGED cur
       \/ /\ req[h].kind # "start"
          /\ cur' = [cur EXCEPT ![h] = [old EXCEPT !.Status = NewStatus[req[h].kind]]]
          /\ Goto(h, "write")
    /\ UNCHANGED <<dbVars, clock, worker, readers>>

\* PostJSON to the worker, which succeeds or not: the answer to the client
\* differs, the database does not.
Post(h) ==
    /\ pc[h] = "post"
    /\ Respond(h)
    /\ UNCHANGED <<dbVars, clock, readers>>

-----------------------------------------------------------------------------
Tick ==
    /\ clock < MaxTime
    /\ clock' = clock + 1
    /\ UNCHANGED <<dbVars, pc, req, cur, worker, readers>>

\* The process dies and comes back: the database is all that is left.
Restart ==
    /\ pc' = [h \in Threads |-> "idle"]
    /\ req' = [h \in Threads |-> None]
    /\ cur' = [h \in Threads |-> None]
    /\ worker' = [h \in Threads |-> None]
    /\ readers' = {}
    /\ UNCHANGED <<dbVars, clock>>

Step(h) ==
    \/ \E r \in Requests : Accept(h, r)
    \/ Validate(h) \/ Register(h) \/ DeleteWorker(h) \/ FlushDisabledJobs(h)
    \/ RefreshGet(h) \/ RefreshPut(h) \/ Read(h) \/ Compute(h) \/ Write(h)
    \/ Lookup(h) \/ CmdRead(h) \/ Post(h)

MgrNext == (\E h \in Threads : Step(h)) \/ Tick \/ Restart

MgrSpec == MgrInit /\ [][MgrNext]_mgrVars

-----------------------------------------------------------------------------
\* Every variable has its type.
MgrTypeOK ==
    /\ workers \in [Workers -> WorkerStatus \cup {None}]
    /\ status \in [Mirrors \X Workers -> MirrorStatus \cup {None}]
    /\ clock \in Time
    /\ pc \in [Threads -> PC]
    /\ req \in [Threads -> RequestType \cup {None}]
    /\ cur \in [Threads -> MirrorStatus \cup {None}]
    /\ worker \in [Threads -> WorkerStatus \cup {None}]
    /\ readers \subseteq Threads

\* Whatever handlers overlap, a stored status never claims a successful update
\* later than the last time a sync ended, nor one in the future: every record
\* is computed from one snapshot and one reading of the clock.
TimesOrdered ==
    \A k \in DOMAIN status :
        status[k] # None =>
            /\ status[k].LastUpdate <= status[k].LastEnded
            /\ status[k].LastEnded <= clock

\* A worker comes into existence by registering and in no other way: the
\* refresh of a worker record never brings back a worker that was deleted
\* while the refresh was under way.
NoResurrection ==
    [][\A w \in Workers :
          workers[w] = None /\ workers'[w] # None =>
              \E h \in Threads : pc[h] = "change" /\ req[h].kind = "register"]_mgrVars

-----------------------------------------------------------------------------
(***************************************************************************)
(* Statements of the documentation that the code does not keep.  The       *)
(* README gives the constants under which TLC refutes each.                *)
(***************************************************************************)

\* The step stores k on behalf of a request of one of these kinds.
StoredBy(k, kinds) ==
    \E h \in Threads : /\ pc[h] = "write" /\ pc'[h] # "write"
                        /\ Key(h) = k /\ req[h].kind \in kinds

\* "Only successful syncing needs last_update": the last_update of a stored
\* status changes only when a success is reported.
OnlySuccessMovesLastUpdate ==
    [][\A k \in DOMAIN status :
          (/\ status[k] # None /\ status'[k] # None
           /\ status'[k].LastUpdate # status[k].LastUpdate)
              => StoredBy(k, {"job"}) /\ status'[k].Status = "success"]_mgrVars

\* "Only message with meaningful size updates the mirror size": a size that is
\* known stays known.
KnownSizeKept ==
    [][\A k \in DOMAIN status :
          (status[k] # None /\ status'[k] # None /\ Meaningful(status[k].Size))
              => Meaningful(status'[k].Size)]_mgrVars

\* "even if the job did not disable successfully, this status should be set as
\* disabled": what a client disabled stays disabled until the worker reports a
\* new status of the job or another command comes in.
DisabledSticks ==
    [][\A k \in DOMAIN status :
          (/\ status[k] # None /\ status'[k] # None
           /\ status[k].Status = "disabled" /\ status'[k].Status # "disabled")
              => StoredBy(k, {"job", "stop"})]_mgrVars
=============================================================================
