---------------------------- MODULE WorkerBoot ----------------------------
(***************************************************************************)
(* The first part of Worker.runSchedule (worker/worker.go): the worker     *)
(* fetches the mirror list the manager stores and from it sets the state   *)
(* of every job, launches its Run and fills the schedule queue.  It holds  *)
(* w.L throughout, so that only the clock moves beside it.  After that the *)
(* loop and the control handler use the queue.                             *)
(***************************************************************************)
EXTENDS ScheduleQueue

CONSTANTS
    Names,       \* the mirror names the manager may know for this worker
    Interval,    \* Interval[j]: provider.Interval()
    LastUpdates  \* the LastUpdate times the manager may store

Status == {"disabled", "paused", "other"}

MirrorStatus == [Status : Status, LastUpdate : LastUpdates]

ASSUME BootAssumption ==
    /\ Jobs \subseteq Names
    /\ LastUpdates \subseteq Nat
    /\ \A j \in Jobs, t \in LastUpdates : t + Interval[j] \in Times

VARIABLES
    phase,       \* "fetch", "list", "new", "loop" or "running"
    stored,      \* the manager's mirror list
    mirrorList,  \* the fetched entries not handled yet
    unset,       \* the jobs not met in the list so far
    state,       \* state[j]: the job's state field
    launched     \* launched[j]: how many times go job.Run was called

bootVars == <<phase, stored, mirrorList, unset, state, launched>>

BootInit ==
    /\ SQInit
    /\ phase = "fetch"
    /\ stored \in UNION {[D -> MirrorStatus] : D \in SUBSET Names}
    /\ mirrorList = <<>>
    /\ unset = {}
    /\ state = [j \in Jobs |-> "none"]
    /\ launched = [j \in Jobs |-> 0]

-----------------------------------------------------------------------------
\* fetchJobStatus: on an error it logs and returns an empty list.
Fetch ==
    /\ phase = "fetch"
    /\ mirrorList' \in {stored, <<>>}
    /\ unset' = Jobs
    /\ phase' = "list"
    /\ UNCHANGED <<sqVars, stored, state, launched>>

Run(j) == launched' = [launched EXCEPT ![j] = @ + 1]

SetState(j, s) == state' = [state EXCEPT ![j] = s]

\* One pass of the loop over the fetched list.
Handle(m) ==
    /\ phase = "list" /\ m \in DOMAIN mirrorList
    /\ mirrorList' = Without(mirrorList, {m})
    /\ unset' = unset \ {m}
    /\ \/ /\ m \notin Jobs
          /\ UNCHANGED <<state, launched, list, jobs, now, given>>
       \/ /\ m \in Jobs /\ mirrorList[m].Status = "disabled"
          /\ SetState(m, "disabled")
          /\ UNCHANGED <<launched, list, jobs, now, given>>
       \/ /\ m \in Jobs /\ mirrorList[m].Status = "paused"
          /\ SetState(m, "paused") /\ Run(m)
          /\ UNCHANGED <<list, jobs, now, given>>
       \/ /\ m \in Jobs /\ mirrorList[m].Status = "other"
          /\ SetState(m, "none") /\ Run(m)
          /\ AddJob(mirrorList[m].LastUpdate + Interval[m], m)
    /\ UNCHANGED <<phase, stored>>

ListDone ==
    /\ phase = "list" /\ DOMAIN mirrorList = {}
    /\ phase' = "new"
    /\ UNCHANGED <<sqVars, stored, mirrorList, unset, state, launched>>

\* Mutant: the jobs missing from the list are run but not scheduled.
HandleNew_NoSchedule(j) ==
    /\ phase = "new" /\ j \in unset
    /\ unset' = unset \ {j}
    /\ SetState(j, "none") /\ Run(j)
    /\ UNCHANGED <<sqVars, phase, stored, mirrorList>>

\* Mutant: the second loop goes over all jobs.
HandleNew_AllJobs(j) ==
    /\ phase = "new" /\ j \in Jobs /\ launched[j] < 2
    /\ now \notin DOMAIN list
    /\ unset' = unset \ {j}
    /\ SetState(j, "none") /\ Run(j)
    /\ AddJob(now, j)
    /\ UNCHANGED <<phase, stored, mirrorList>>

\* A job the manager does not know runs as soon as possible.  The clock is not
\* taken to hit, to the nanosecond, a time the queue already holds.
HandleNew(j) ==
    /\ phase = "new" /\ j \in unset
    /\ now \notin DOMAIN list
    /\ unset' = unset \ {j}
    /\ SetState(j, "none") /\ Run(j)
    /\ AddJob(now, j)
    /\ UNCHANGED <<phase, stored, mirrorList>>

NewDone ==
    /\ phase = "new" /\ unset = {}
    /\ phase' = "loop"
    /\ UNCHANGED <<sqVars, stored, mirrorList, unset, state, launched>>

Clock == phase \notin {"loop", "running"} /\ Tick /\ UNCHANGED bootVars

\* The loop adds, pops and removes jobs; times collide no more than above.
Use ==
    /\ phase \in {"loop", "running"} /\ phase' = "running"
    /\ DistinctNext
    /\ UNCHANGED <<stored, mirrorList, unset, state, launched>>

\* The bounded clock has run out.
Booted ==
    /\ now = MaxTime
    /\ UNCHANGED <<sqVars, bootVars>>

BootNext ==
    \/ Fetch \/ ListDone \/ NewDone
    \/ \E m \in Names : Handle(m)
    \/ \E j \in Jobs : HandleNew(j)
    \/ Clock \/ Use \/ Booted

BootSpec == BootInit /\ [][BootNext]_<<sqVars, bootVars>>

\* The stored update times and the intervals give every job its own time.
DistinctStored ==
    \A m, n \in DOMAIN stored \cap Jobs :
        stored[m].LastUpdate + Interval[m] = stored[n].LastUpdate + Interval[n] => m = n

DistinctInit == BootInit /\ DistinctStored

DistinctBootSpec == DistinctInit /\ [][BootNext]_<<sqVars, bootVars>>

-----------------------------------------------------------------------------
\* The comments of runSchedule, "Fetch mirror list stored in the manager, put
\* it on the scheduled time": once the loop starts, every job that is neither
\* disabled nor paused is in the queue, otherwise nothing would ever start it.
ActiveJobsScheduled ==
    phase = "loop" =>
        \A j \in Jobs : state[j] = "none" => TimesOf(j) # {}

\* The boot launches one Run per job, and none for a job it found disabled.
OneRunEach ==
    phase = "loop" =>
        \A j \in Jobs : launched[j] = IF state[j] = "disabled" THEN 0 ELSE 1

-----------------------------------------------------------------------------
(***************************************************************************)
(* A statement of the documentation that the code does not keep.  The      *)
(* README gives the constants under which TLC refutes it.                  *)
(***************************************************************************)

\* "if it's disabled, ignore it": a job that the manager stores as disabled is
\* not launched.
DisabledIgnored ==
    \A j \in Jobs \cap DOMAIN stored :
        stored[j].Status = "disabled" => launched[j] = 0
=============================================================================
