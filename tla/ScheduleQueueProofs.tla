------------------------- MODULE ScheduleQueueProofs -------------------------
(***************************************************************************)
(* Proofs about the ScheduleQueue module, for any set of jobs and times,   *)
(* and about the boot of the worker that fills the queue (WorkerBoot).     *)
(***************************************************************************)
EXTENDS WorkerBoot, TLAPS

SQInv == SQTypeOK /\ OneEntryPerJob

\* A job with at most one entry loses it, and nothing else, when its first
\* entry is deleted.
LEMMA FirstIsAll ==
    ASSUME SQInv, NEW j
    PROVE  First(j) = TimesOf(j)
BY TimeAssumption DEF SQInv, SQTypeOK, OneEntryPerJob, First, TimesOf, Times

\* What AddJob leaves of the old list is the entries of the other jobs.
LEMMA AddJobList ==
    ASSUME SQInv, NEW t \in Times, NEW j \in Jobs, AddJob(t, j)
    PROVE  /\ DOMAIN list' = (DOMAIN list \ TimesOf(j)) \cup {t}
           /\ list'[t] = j
           /\ \A u \in DOMAIN list' : u # t => list'[u] = list[u] /\ list[u] # j
<1> DEFINE kept == IF j \in jobs THEN Without(list, First(j)) ELSE list
<1>1. list' = [u \in DOMAIN kept \cup {t} |-> IF u = t THEN j ELSE kept[u]]
  BY DEF AddJob
<1>2. CASE j \in jobs
  <2>1. kept = [u \in DOMAIN list \ TimesOf(j) |-> list[u]]
    BY <1>2, FirstIsAll DEF Without
  <2> QED
    BY <1>1, <2>1 DEF TimesOf
<1>3. CASE j \notin jobs
  <2>1. TimesOf(j) = {}
    BY <1>3 DEF SQInv, OneEntryPerJob, TimesOf
  <2> QED
    BY <1>1, <1>3, <2>1 DEF TimesOf
<1> QED
  BY <1>2, <1>3

-----------------------------------------------------------------------------
LEMMA SQInitInv == SQInit => SQInv
BY TimeAssumption DEF SQInit, SQInv, SQTypeOK, OneEntryPerJob, Times

LEMMA AddJobInv ==
    ASSUME SQInv, NEW t \in Times, NEW j \in Jobs, AddJob(t, j)
    PROVE  SQInv'
<1>1. jobs' = jobs \cup {j} /\ now' = now /\ given' = Never
  BY DEF AddJob
<1>2. list' = [u \in DOMAIN list' |-> list'[u]]
  BY DEF AddJob
<1>a. /\ DOMAIN list' = (DOMAIN list \ TimesOf(j)) \cup {t}
      /\ list'[t] = j
      /\ \A u \in DOMAIN list' : u # t => list'[u] = list[u] /\ list[u] # j
  BY AddJobList
<1>b. \A u \in DOMAIN list' : u # t => u \in DOMAIN list
  BY <1>a
<1>3. SQTypeOK'
  <2>1. \A u \in DOMAIN list' : list'[u] \in Jobs
    BY <1>a, <1>b DEF SQInv, SQTypeOK
  <2>2. DOMAIN list' \subseteq Times
    BY <1>a, <1>b DEF SQInv, SQTypeOK
  <2> QED
    BY <1>1, <1>2, <2>1, <2>2 DEF SQInv, SQTypeOK, Times
<1>4. OneEntryPerJob'
  BY <1>a, <1>b, <1>1 DEF SQInv, OneEntryPerJob
<1> QED
  BY <1>3, <1>4 DEF SQInv

LEMMA QueueStepInv ==
    ASSUME SQInv, QueueStep
    PROVE  SQInv'
<1>1. ASSUME NEW t \in Times, Pop(t) PROVE SQInv'
  BY <1>1 DEF Pop, Without, SQInv, SQTypeOK, OneEntryPerJob
<1>2. ASSUME NEW j \in Jobs, Remove(j) PROVE SQInv'
  BY <1>2, FirstIsAll DEF Remove, Without, TimesOf, SQInv, SQTypeOK, OneEntryPerJob
<1>3. ASSUME Tick PROVE SQInv'
  BY <1>3, TimeAssumption DEF Tick, Times, SQInv, SQTypeOK, OneEntryPerJob
<1> QED
  BY <1>1, <1>2, <1>3 DEF QueueStep

LEMMA SQStepInv == SQInv /\ [SQNext]_sqVars => SQInv'
<1>1. ASSUME SQInv, UNCHANGED sqVars PROVE SQInv'
  BY <1>1 DEF sqVars, SQInv, SQTypeOK, OneEntryPerJob
<1> QED
  BY <1>1, AddJobInv, QueueStepInv DEF SQNext

\* Every job has at most one entry in the list and the names in jobs cover the
\* list, for any interleaving of AddJob, Pop and Remove and any times
\* (schedule.go).
THEOREM QueueConsistent == SQSpec => []OneEntryPerJob
<1>1. SQInv => OneEntryPerJob
  BY DEF SQInv
<1> QED
  BY <1>1, SQInitInv, SQStepInv, PTL DEF SQSpec

-----------------------------------------------------------------------------
(***************************************************************************)
(* With distinct times the queue implements the abstract schedule.         *)
(***************************************************************************)
LEMMA ChooseOnly ==
    ASSUME NEW T, NEW t, T = {t}
    PROVE  AnyOf(T) = t
BY DEF AnyOf

\* The entries of a job with an entry are that entry alone.
LEMMA EntryIsAll ==
    ASSUME SQInv, NEW t \in DOMAIN list
    PROVE  TimesOf(list[t]) = {t}
BY DEF SQInv, OneEntryPerJob, TimesOf

LEMMA NextTimeOf ==
    ASSUME SQInv
    PROVE  /\ \A t \in DOMAIN list : NextTime[list[t]] = t
           /\ \A j \in Jobs : TimesOf(j) = {} <=> NextTime[j] = Never
           /\ \A j \in Jobs : TimesOf(j) # {} => NextTime[j] \in TimesOf(j)
<1>1. ASSUME NEW t \in DOMAIN list PROVE NextTime[list[t]] = t /\ t \in TimesOf(list[t])
  BY EntryIsAll, ChooseOnly DEF NextTime, SQInv, SQTypeOK
<1>2. ASSUME NEW j \in Jobs, TimesOf(j) = {} PROVE NextTime[j] = Never
  BY <1>2 DEF NextTime
<1>3. ASSUME NEW j \in Jobs, TimesOf(j) # {}
      PROVE  NextTime[j] \in TimesOf(j) /\ NextTime[j] # Never
  <2>1. NextTime[j] \in TimesOf(j)
    BY <1>3 DEF NextTime, AnyOf
  <2> QED
    BY <2>1, TimeAssumption DEF SQInv, SQTypeOK, TimesOf, Times
<1> QED
  BY <1>1, <1>2, <1>3

LEMMA AddJobPuts ==
    ASSUME SQInv, NEW t \in Times, NEW j \in Jobs, AddJob(t, j),
           t \in DOMAIN list => list[t] = j
    PROVE  NextTime' = [NextTime EXCEPT ![j] = t]
<1>a. /\ DOMAIN list' = (DOMAIN list \ TimesOf(j)) \cup {t}
      /\ list'[t] = j
      /\ \A u \in DOMAIN list' : u # t => list'[u] = list[u] /\ list[u] # j
  BY AddJobList
<1>1. TimesOf(j)' = {t}
  BY <1>a DEF TimesOf
<1>2. ASSUME NEW k \in Jobs, k # j PROVE TimesOf(k)' = TimesOf(k)
  BY <1>a, <1>2 DEF TimesOf
<1>3. ASSUME NEW k \in Jobs PROVE NextTime'[k] = IF k = j THEN t ELSE NextTime[k]
  BY <1>1, <1>2, ChooseOnly DEF NextTime
<1> QED
  BY <1>3 DEF NextTime

\* Deleting the entries of one job, and only those, unschedules it.
LEMMA DeletePuts ==
    ASSUME SQInv, NEW j \in Jobs, list' = Without(list, TimesOf(j))
    PROVE  NextTime' = [NextTime EXCEPT ![j] = Never]
<1>1. TimesOf(j)' = {}
  BY DEF TimesOf, Without
<1>2. ASSUME NEW k \in Jobs, k # j PROVE TimesOf(k)' = TimesOf(k)
  BY <1>2 DEF TimesOf, Without
<1>3. ASSUME NEW k \in Jobs PROVE NextTime'[k] = IF k = j THEN Never ELSE NextTime[k]
  BY <1>1, <1>2 DEF NextTime
<1> QED
  BY <1>3 DEF NextTime

LEMMA StepRefines ==
    ASSUME SQInv, DistinctNext
    PROVE  Abstract!Next
<1>1. ASSUME NEW t \in Times, NEW j \in Jobs, AddJob(t, j), t \in DOMAIN list => list[t] = j
      PROVE  Abstract!Next
  <2>1. Abstract!Put(j, t)
    BY <1>1, AddJobPuts DEF Abstract!Put, AddJob
  <2> QED
    BY <2>1 DEF Abstract!Next, Times
<1>2. ASSUME NEW j \in Jobs, Remove(j) PROVE Abstract!Next
  <2>1. Abstract!Drop(j)
    BY <1>2, FirstIsAll, DeletePuts DEF Abstract!Drop, Remove
  <2> QED
    BY <2>1 DEF Abstract!Next
<1>3. ASSUME NEW t \in Times, Pop(t) PROVE Abstract!Next
  <2>1. list[t] \in Jobs /\ t \in DOMAIN list
    BY <1>3 DEF Pop, SQInv, SQTypeOK
  <2>2. TimesOf(list[t]) = {t}
    BY <2>1, EntryIsAll
  <2>3. NextTime[list[t]] = t /\ t # Never
    BY <2>1, NextTimeOf, TimeAssumption DEF Times
  <2>4. NextTime' = [NextTime EXCEPT ![list[t]] = Never]
    BY <1>3, <2>1, <2>2, DeletePuts DEF Pop
  <2>5. \A k \in Abstract!Scheduled : t <= NextTime[k]
    <3>1. ASSUME NEW k \in Jobs, NextTime[k] # Never PROVE NextTime[k] \in DOMAIN list
      BY <3>1, NextTimeOf DEF TimesOf
    <3> QED
      BY <1>3, <3>1 DEF Pop, Abstract!Scheduled
  <2>6. Abstract!Take(list[t])
    BY <1>3, <2>1, <2>3, <2>4, <2>5 DEF Pop, Abstract!Take, Abstract!Scheduled
  <2> QED
    BY <2>1, <2>6 DEF Abstract!Next
<1>4. ASSUME Tick PROVE Abstract!Next
  <2>1. NextTime' = NextTime
    BY <1>4 DEF Tick, NextTime, TimesOf
  <2> QED
    BY <1>4, <2>1 DEF Tick, Abstract!Next, Abstract!Advance
<1> QED
  BY <1>1, <1>2, <1>3, <1>4 DEF DistinctNext, QueueStep

LEMMA DistinctInv == DistinctSpec => []SQInv
<1>1. DistinctNext => SQNext
  BY DEF DistinctNext, SQNext
<1> QED
  BY <1>1, SQInitInv, SQStepInv, PTL DEF DistinctSpec

\* As long as no two jobs are added for one instant, the skip list and the set
\* of names together behave as the abstract schedule (schedule.go).
THEOREM QueueImplementsSchedule == DistinctSpec => ImplementsSchedule
<1>1. SQInit => Abstract!Init
  BY DEF SQInit, Abstract!Init, NextTime, TimesOf
<1>2. SQInv /\ [DistinctNext]_sqVars => [Abstract!Next]_Abstract!schedVars
  <2>1. ASSUME UNCHANGED sqVars PROVE UNCHANGED Abstract!schedVars
    BY <2>1 DEF sqVars, Abstract!schedVars, NextTime, TimesOf
  <2> QED
    BY <2>1, StepRefines
<1> QED
  BY <1>1, <1>2, DistinctInv, PTL DEF DistinctSpec, Abstract!Spec, ImplementsSchedule

\* Under the same condition the list holds exactly the jobs named in jobs, so
\* that no job drops out of the schedule unnoticed (AddJob, schedule.go).
THEOREM QueueLosesNothing == DistinctSpec => []NothingLost
<1>1. SQInit => NothingLost
  BY DEF SQInit, NothingLost
<1>2. ASSUME SQInv, NothingLost, [DistinctNext]_sqVars PROVE NothingLost'
  <2>1. ASSUME NEW t \in Times, NEW j \in Jobs, AddJob(t, j), t \in DOMAIN list => list[t] = j
        PROVE  NothingLost'
    <3>1. /\ DOMAIN list' = (DOMAIN list \ TimesOf(j)) \cup {t}
          /\ list'[t] = j
          /\ \A u \in DOMAIN list' : u # t => list'[u] = list[u] /\ list[u] # j
      BY <1>2, <2>1, AddJobList
    <3>2. jobs' = jobs \cup {j}
      BY <2>1 DEF AddJob
    <3>3. ASSUME NEW k \in jobs, k # j PROVE \E u \in DOMAIN list' : list'[u] = k
      <4>1. PICK u \in DOMAIN list : list[u] = k
        BY <1>2, <3>3 DEF NothingLost
      <4>2. u # t /\ u \in DOMAIN list'
        BY <2>1, <3>1, <3>3, <4>1 DEF TimesOf
      <4> QED
        BY <3>1, <4>1, <4>2
    <3>4. ASSUME NEW u \in DOMAIN list' PROVE list'[u] \in jobs'
      BY <1>2, <3>1, <3>2 DEF NothingLost
    <3> QED
      BY <3>1, <3>2, <3>3, <3>4 DEF NothingLost
  <2>2. ASSUME NEW t \in Times, Pop(t) PROVE NothingLost'
    BY <1>2, <2>2 DEF Pop, Without, NothingLost, SQInv, OneEntryPerJob
  <2>3. ASSUME NEW j \in Jobs, Remove(j) PROVE NothingLost'
    BY <1>2, <2>3, FirstIsAll DEF Remove, Without, TimesOf, NothingLost
  <2>4. ASSUME Tick \/ UNCHANGED sqVars PROVE NothingLost'
    BY <1>2, <2>4 DEF Tick, sqVars, NothingLost
  <2> QED
    BY <1>2, <2>1, <2>2, <2>3, <2>4 DEF DistinctNext, QueueStep
<1> QED
  BY <1>1, <1>2, DistinctInv, PTL DEF DistinctSpec
-----------------------------------------------------------------------------
(***************************************************************************)
(* The boot.                                                               *)
(***************************************************************************)

\* What the manager stores and what the boot keeps have their types.
BootTypeOK ==
    /\ \A m \in DOMAIN stored : stored[m].LastUpdate \in LastUpdates
    /\ unset \subseteq Jobs
    /\ state \in [Jobs -> {"none", "disabled", "paused"}]
    /\ launched \in [Jobs -> Nat]

\* The entries still to be handled are entries of the stored list, and their
\* jobs have not been met.
ToHandle ==
    /\ \A m \in DOMAIN mirrorList : m \in DOMAIN stored /\ mirrorList[m] = stored[m]
    /\ phase = "list" => DOMAIN mirrorList \cap Jobs \subseteq unset

\* A job that has not been met has not been launched, and one that has been met
\* is launched and named in the queue, as its state asks for.
Met ==
    /\ phase = "fetch" => \A j \in Jobs : launched[j] = 0
    /\ phase \in {"list", "new", "loop"} =>
          /\ \A j \in unset : launched[j] = 0
          /\ \A j \in Jobs \ unset :
                /\ launched[j] = IF state[j] = "disabled" THEN 0 ELSE 1
                /\ state[j] = "none" => j \in jobs
    /\ phase = "loop" => unset = {}

\* While the stored list is handled, the queue holds each job that has been met
\* at the time the stored list gives it.
StoredTimes ==
    /\ phase = "fetch" => DOMAIN list = {}
    /\ phase = "list" =>
          \A t \in DOMAIN list :
              /\ list[t] \in DOMAIN stored \cap Jobs /\ list[t] \notin unset
              /\ t = stored[list[t]].LastUpdate + Interval[list[t]]

BootInv ==
    /\ SQInv /\ BootTypeOK /\ DistinctStored /\ ToHandle /\ Met /\ StoredTimes

\* The initial states satisfy the invariant.
LEMMA BootInitInv == DistinctInit => BootInv
<1> SUFFICES ASSUME DistinctInit PROVE BootInv
  OBVIOUS
<1> USE DEF DistinctInit, BootInit
<1>1. SQInv
  BY SQInitInv
<1>2. BootTypeOK
  BY DEF BootTypeOK, MirrorStatus
<1>3. ToHandle /\ Met /\ StoredTimes
  BY DEF SQInit, ToHandle, Met, StoredTimes
<1> QED
  BY <1>1, <1>2, <1>3 DEF BootInv

\* A stored job that has not been met is put at a time that no other job has.
LEMMA HandleAdds ==
    ASSUME BootInv, NEW m \in Jobs, Handle(m), mirrorList[m].Status = "other"
    PROVE  /\ m \in unset /\ m \in DOMAIN stored /\ mirrorList[m] = stored[m]
           /\ stored[m].LastUpdate + Interval[m] \in Times
           /\ stored[m].LastUpdate + Interval[m] \notin DOMAIN list
           /\ AddJob(stored[m].LastUpdate + Interval[m], m)
           /\ state' = [state EXCEPT ![m] = "none"]
           /\ launched' = [launched EXCEPT ![m] = @ + 1]
<1>1. m \in unset /\ m \in DOMAIN stored /\ mirrorList[m] = stored[m] /\ phase = "list"
  BY DEF Handle, BootInv, ToHandle
<1>2. stored[m].LastUpdate + Interval[m] \in Times
  BY <1>1, BootAssumption DEF BootInv, BootTypeOK
<1>3. stored[m].LastUpdate + Interval[m] \notin DOMAIN list
  BY <1>1 DEF BootInv, StoredTimes, DistinctStored
<1>4. /\ AddJob(mirrorList[m].LastUpdate + Interval[m], m)
      /\ state' = [state EXCEPT ![m] = "none"]
      /\ launched' = [launched EXCEPT ![m] = @ + 1]
  BY DEF Handle, SetState, Run
<1> QED
  BY <1>1, <1>2, <1>3, <1>4

\* Every step of the worker is a step of the queue with distinct times, or
\* leaves the queue alone.
LEMMA BootStepQueue ==
    ASSUME BootInv, BootNext
    PROVE  [DistinctNext]_sqVars
<1>1. ASSUME NEW m \in Names, Handle(m) PROVE [DistinctNext]_sqVars
  <2>1. CASE m \in Jobs /\ mirrorList[m].Status = "other"
    BY <1>1, <2>1, HandleAdds DEF DistinctNext
  <2>2. CASE ~(m \in Jobs /\ mirrorList[m].Status = "other")
    BY <1>1, <2>2 DEF Handle, sqVars
  <2> QED
    BY <2>1, <2>2
<1>2. ASSUME NEW j \in Jobs, HandleNew(j) PROVE [DistinctNext]_sqVars
  BY <1>2 DEF HandleNew, DistinctNext, BootInv, SQInv, SQTypeOK
<1>3. ASSUME Clock PROVE [DistinctNext]_sqVars
  BY <1>3 DEF Clock, DistinctNext, QueueStep
<1> QED
  BY <1>1, <1>2, <1>3 DEF BootNext, Fetch, ListDone, NewDone, Use, Booted

\* A pass of the loop over the stored list preserves the invariant.
LEMMA HandleInv ==
    ASSUME BootInv, NEW m \in Names, Handle(m), SQInv'
    PROVE  BootInv'
<1> USE DEF BootInv
<1>0. /\ phase = "list" /\ phase' = "list" /\ stored' = stored
      /\ m \in DOMAIN mirrorList /\ unset' = unset \ {m}
      /\ DOMAIN mirrorList' = DOMAIN mirrorList \ {m}
      /\ \A n \in DOMAIN mirrorList' : mirrorList'[n] = mirrorList[n]
  BY DEF Handle, Without
<1>1. DistinctStored' /\ ToHandle'
  BY <1>0 DEF DistinctStored, ToHandle
<1>2. CASE m \notin Jobs
  <2>1. UNCHANGED <<state, launched, list, jobs>> /\ unset' = unset
    BY <1>0, <1>2 DEF Handle, BootTypeOK
  <2> QED
    BY <1>0, <1>1, <2>1 DEF BootTypeOK, Met, StoredTimes
<1>3. CASE m \in Jobs /\ mirrorList[m].Status = "other"
  <2> DEFINE t == stored[m].LastUpdate + Interval[m]
  <2>1. /\ m \in unset /\ m \in DOMAIN stored /\ t \in Times /\ t \notin DOMAIN list
        /\ AddJob(t, m)
        /\ state' = [state EXCEPT ![m] = "none"]
        /\ launched' = [launched EXCEPT ![m] = @ + 1]
    BY <1>3, HandleAdds
  <2>2. jobs' = jobs \cup {m}
    BY <2>1 DEF AddJob
  <2>3. /\ DOMAIN list' = (DOMAIN list \ TimesOf(m)) \cup {t}
        /\ list'[t] = m
        /\ \A u \in DOMAIN list' : u # t => list'[u] = list[u] /\ list[u] # m
    BY <1>3, <2>1, AddJobList
  <2>4. BootTypeOK'
    BY <1>0, <2>1 DEF BootTypeOK
  <2>5. Met'
    BY <1>0, <2>1, <2>2 DEF Met, BootTypeOK
  <2>6. StoredTimes'
    <3>1. ASSUME NEW u \in DOMAIN list'
          PROVE  /\ list'[u] \in DOMAIN stored \cap Jobs /\ list'[u] \notin unset'
                 /\ u = stored[list'[u]].LastUpdate + Interval[list'[u]]
      <4>1. CASE u = t
        BY <1>0, <1>3, <2>1, <2>3, <4>1
      <4>2. CASE u # t
        <5>1. u \in DOMAIN list /\ list'[u] = list[u]
          BY <2>3, <4>2
        <5> QED
          BY <1>0, <5>1 DEF StoredTimes
      <4> QED
        BY <4>1, <4>2
    <3> QED
      BY <1>0, <3>1 DEF StoredTimes
  <2> QED
    BY <1>1, <2>4, <2>5, <2>6
<1>4. CASE m \in Jobs /\ mirrorList[m].Status # "other"
  <2>1. /\ UNCHANGED <<list, jobs>>
        /\ \/ state' = [state EXCEPT ![m] = "disabled"] /\ launched' = launched
           \/ /\ state' = [state EXCEPT ![m] = "paused"]
              /\ launched' = [launched EXCEPT ![m] = @ + 1]
    BY <1>4 DEF Handle, SetState, Run
  <2>2. m \in unset
    BY <1>0, <1>4 DEF ToHandle
  <2>3. BootTypeOK'
    BY <1>0, <1>4, <2>1 DEF BootTypeOK
  <2>4. Met'
    BY <1>0, <1>4, <2>1, <2>2 DEF Met, BootTypeOK
  <2>5. StoredTimes'
    BY <1>0, <2>1 DEF StoredTimes
  <2> QED
    BY <1>1, <2>3, <2>4, <2>5
<1> QED
  BY <1>2, <1>3, <1>4

\* Every step preserves the invariant.
LEMMA BootStepInv == BootInv /\ [BootNext]_<<sqVars, bootVars>> => BootInv'
<1> SUFFICES ASSUME BootInv, [BootNext]_<<sqVars, bootVars>> PROVE BootInv'
  OBVIOUS
<1>0. SQInv'
  <2>1. DistinctNext => SQNext
    BY DEF DistinctNext, SQNext
  <2> QED
    BY <2>1, BootStepQueue, SQStepInv DEF BootInv
<1>1. CASE Fetch
  <2>1. \A n \in DOMAIN mirrorList' : n \in DOMAIN stored /\ mirrorList'[n] = stored[n]
    BY <1>1 DEF Fetch
  <2>2. DistinctStored' /\ ToHandle'
    BY <1>1, <2>1 DEF Fetch, BootInv, DistinctStored, ToHandle
  <2>3. BootTypeOK' /\ Met' /\ StoredTimes'
    BY <1>1 DEF Fetch, sqVars, BootInv, BootTypeOK, Met, StoredTimes
  <2> QED
    BY <1>0, <2>2, <2>3 DEF BootInv
<1>2. CASE \E m \in Names : Handle(m)
  BY <1>0, <1>2, HandleInv
<1>3. CASE \E j \in Jobs : HandleNew(j)
  <2>1. PICK j \in Jobs : HandleNew(j)
    BY <1>3
  <2>2. /\ phase = "new" /\ j \in unset /\ unset' = unset \ {j} /\ jobs' = jobs \cup {j}
        /\ state' = [state EXCEPT ![j] = "none"]
        /\ launched' = [launched EXCEPT ![j] = @ + 1]
        /\ UNCHANGED <<phase, stored, mirrorList>>
    BY <2>1 DEF HandleNew, SetState, Run, AddJob
  <2>3. BootTypeOK' /\ DistinctStored' /\ ToHandle' /\ StoredTimes'
    BY <2>2 DEF BootInv, BootTypeOK, DistinctStored, ToHandle, StoredTimes
  <2>4. Met'
    BY <2>2 DEF BootInv, BootTypeOK, Met
  <2> QED
    BY <1>0, <2>3, <2>4 DEF BootInv
<1>4. CASE ListDone \/ NewDone
  BY <1>0, <1>4 DEF ListDone, NewDone, sqVars, BootInv, BootTypeOK, DistinctStored,
                    ToHandle, Met, StoredTimes
<1>5. CASE Clock
  BY <1>0, <1>5 DEF Clock, Tick, bootVars, BootInv, BootTypeOK, DistinctStored,
                    ToHandle, Met, StoredTimes
<1>6. CASE Use
  BY <1>0, <1>6 DEF Use, BootInv, BootTypeOK, DistinctStored, ToHandle, Met, StoredTimes
<1>7. CASE UNCHANGED <<sqVars, bootVars>>
  BY <1>0, <1>7 DEF sqVars, bootVars, BootInv, BootTypeOK, DistinctStored, ToHandle,
                    Met, StoredTimes
<1> QED
  BY <1>1, <1>2, <1>3, <1>4, <1>5, <1>6, <1>7 DEF BootNext, Booted

\* With distinct stored times the boot, and the loop after it, use the queue
\* only as DistinctSpec allows, so that all that is proved of the queue holds of
\* the worker's (runSchedule, worker.go).
THEOREM BootKeepsTimesApart == DistinctBootSpec => DistinctSpec /\ []BootInv
<1>1. DistinctInit => SQInit
  BY DEF DistinctInit, BootInit
<1>2. BootInv /\ [BootNext]_<<sqVars, bootVars>> => [DistinctNext]_sqVars
  BY BootStepQueue DEF sqVars
<1> QED
  BY <1>1, <1>2, BootInitInv, BootStepInv, PTL DEF DistinctBootSpec, DistinctSpec

\* When the loop of runSchedule starts, every job that the boot found neither
\* disabled nor paused is in the queue: those of the stored list at the time it
\* gives them, none pushed out by another, and those missing from it.
THEOREM BootSchedules == DistinctBootSpec => []ActiveJobsScheduled
<1>1. BootInv /\ NothingLost => ActiveJobsScheduled
  BY DEF BootInv, Met, NothingLost, ActiveJobsScheduled, TimesOf
<1> QED
  BY <1>1, BootKeepsTimesApart, QueueLosesNothing, PTL

\* The boot of runSchedule launches exactly one Run of every job that is not
\* disabled: no job is in both of its loops, and none in neither.
THEOREM BootLaunchesOnce == DistinctBootSpec => []OneRunEach
<1>1. BootInv => OneRunEach
  BY DEF BootInv, Met, OneRunEach
<1> QED
  BY <1>1, BootKeepsTimesApart, PTL
=============================================================================
