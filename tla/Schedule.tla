------------------------------ MODULE Schedule ------------------------------
(***************************************************************************)
(* What the worker expects of its schedule: every job has at most one next *)
(* time, and a due job leaves the schedule earliest first.                 *)
(***************************************************************************)
EXTENDS Naturals

CONSTANTS Jobs, Never, MaxTime

VARIABLES next,  \* next[j]: when j is to run, or Never
          now,
          given  \* the job the schedule has just given out, or Never

schedVars == <<next, now, given>>

Init ==
    /\ next = [j \in Jobs |-> Never]
    /\ now = 0
    /\ given = Never

Put(j, t) ==
    /\ next' = [next EXCEPT ![j] = t]
    /\ given' = Never
    /\ UNCHANGED now

Drop(j) ==
    /\ next' = [next EXCEPT ![j] = Never]
    /\ given' = Never
    /\ UNCHANGED now

Scheduled == {j \in Jobs : next[j] # Never}

\* The earliest job leaves, once its time has passed.
Take(j) ==
    /\ j \in Scheduled
    /\ next[j] < now
    /\ \A k \in Scheduled : next[j] <= next[k]
    /\ next' = [next EXCEPT ![j] = Never]
    /\ given' = j
    /\ UNCHANGED now

Advance ==
    /\ now < MaxTime
    /\ now' = now + 1
    /\ UNCHANGED <<next, given>>

Next ==
    \/ \E j \in Jobs : Drop(j) \/ Take(j) \/ \E t \in 0..MaxTime : Put(j, t)
    \/ Advance

Spec == Init /\ [][Next]_schedVars
=============================================================================
