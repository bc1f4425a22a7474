--------------------------- MODULE ScheduleQueue ---------------------------
(***************************************************************************)
(* The schedule queue (worker/schedule.go): a skip list from times to jobs *)
(* and, beside it, the set of names that are supposed to be in it.  Every  *)
(* operation but GetJobs runs under the queue's own mutex and is one step. *)
(***************************************************************************)
EXTENDS Naturals

CONSTANTS
    Jobs,
    Never,     \* neither a time nor a job
    MaxTime    \* bound on the clock and on the times jobs are added for

ASSUME TimeAssumption == MaxTime \in Nat /\ Never \notin Nat \cup Jobs

VARIABLES
    list,      \* q.list: a function from times to jobs
    jobs,      \* q.jobs: the names with value true
    now,       \* the clock time.Now() reads
    given      \* the job the last call returned, or Never

sqVars == <<list, jobs, now, given>>

Times == 0..MaxTime

SQInit ==
    /\ list = <<>>
    /\ jobs = {}
    /\ now = 0
    /\ given = Never

-----------------------------------------------------------------------------
TimesOf(j) == {t \in DOMAIN list : list[t] = j}

Without(f, times) == [t \in DOMAIN f \ times |-> f[t]]

\* The entry unsafeRemove deletes: the first one of job j, if there is one.
First(j) == {t \in TimesOf(j) : \A u \in TimesOf(j) : t <= u}

\* Mutant: the job is added without removing its existing entry.
AddJob_KeepOld(t, j) ==
    /\ list' = [u \in DOMAIN list \cup {t} |-> IF u = t THEN j ELSE list[u]]
    /\ jobs' = jobs \cup {j}
    /\ given' = Never
    /\ UNCHANGED now

\* list.Set overwrites what the list holds for that very time.
AddJob(t, j) ==
    LET kept == IF j \in jobs THEN Without(list, First(j)) ELSE list
    IN  /\ list' = [u \in DOMAIN kept \cup {t} |-> IF u = t THEN j ELSE kept[u]]
        /\ jobs' = jobs \cup {j}
        /\ given' = Never
        /\ UNCHANGED now

\* Mutant: the time of the first entry is not compared with the clock.
Pop_NotDue(t) ==
    /\ t \in DOMAIN list
    /\ \A u \in DOMAIN list : t <= u
    /\ list' = Without(list, {t})
    /\ jobs' = jobs \ {list[t]}
    /\ given' = list[t]
    /\ UNCHANGED now

\* Mutant: the popped name stays in jobs.
Pop_KeepName(t) ==
    /\ t \in DOMAIN list
    /\ \A u \in DOMAIN list : t <= u
    /\ t < now
    /\ list' = Without(list, {t})
    /\ given' = list[t]
    /\ UNCHANGED <<jobs, now>>

\* Pop returns the job of the first entry, t, if t is before now.  It returns
\* nil, and changes nothing, otherwise.
Pop(t) ==
    /\ t \in DOMAIN list
    /\ \A u \in DOMAIN list : t <= u
    /\ t < now
    /\ list' = Without(list, {t})
    /\ jobs' = jobs \ {list[t]}
    /\ given' = list[t]
    /\ UNCHANGED now

\* Remove returns true and deletes the entry if the list has one.
Remove(j) ==
    /\ TimesOf(j) # {}
    /\ list' = Without(list, First(j))
    /\ jobs' = jobs \ {j}
    /\ given' = Never
    /\ UNCHANGED now

Tick ==
    /\ now < MaxTime
    /\ now' = now + 1
    /\ UNCHANGED <<list, jobs, given>>

QueueStep ==
    \/ \E t \in Times : Pop(t)
    \/ \E j \in Jobs : Remove(j)
    \/ Tick

SQNext == QueueStep \/ \E t \in Times, j \in Jobs : AddJob(t, j)

SQSpec == SQInit /\ [][SQNext]_sqVars

\* The queue when no two jobs are ever added for one instant.
DistinctNext ==
    QueueStep \/ \E t \in Times, j \in Jobs :
                     (t \in DOMAIN list => list[t] = j) /\ AddJob(t, j)

DistinctSpec == SQInit /\ [][DistinctNext]_sqVars

-----------------------------------------------------------------------------
SQTypeOK ==
    /\ DOMAIN list \subseteq Times
    /\ list \in [DOMAIN list -> Jobs]
    /\ jobs \subseteq Jobs
    /\ now \in Times
    /\ given \in Jobs \cup {Never}

\* Whatever is added, popped and removed, colliding times included, a job has
\* at most one entry, and the check of jobs in AddJob finds it: jobs never
\* misses a name that the list holds.
OneEntryPerJob ==
    /\ \A t, u \in DOMAIN list : list[t] = list[u] => t = u
    /\ \A t \in DOMAIN list : list[t] \in jobs

\* With distinct times nothing is lost either: the list holds exactly the
\* names in jobs.
NothingLost == jobs = {list[t] : t \in DOMAIN list}

AnyOf(S) == CHOOSE t \in S : TRUE

\* The next time of each job, as the abstract schedule sees it.
NextTime == [j \in Jobs |-> IF TimesOf(j) = {} THEN Never ELSE AnyOf(TimesOf(j))]

Abstract == INSTANCE Schedule WITH next <- NextTime

\* With distinct times the queue is the schedule the worker expects: AddJob
\* moves one job and no other, and Pop gives out the earliest due job.
ImplementsSchedule == Abstract!Spec
=============================================================================
