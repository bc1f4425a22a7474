----------------------------- MODULE MCManager -----------------------------
\* Small instances of Manager: one worker whose mirror m is reported on.
EXTENDS Manager, TLC

Job(s, z) == [kind |-> "job", worker |-> "w", mirror |-> "m", status |-> s, size |-> z]
Size(z) == [kind |-> "size", worker |-> "w", mirror |-> "m", size |-> z]
\* The schedules of two jobs, the first of which the manager does not store.
Sched(t) == [kind |-> "sched", worker |-> "w",
             schedules |-> <<[mirror |-> "x", time |-> t], [mirror |-> "m", time |-> t]>>]
Cmd(c) == [kind |-> c, worker |-> "w", mirror |-> "m"]
Wkr(k) == [kind |-> k, worker |-> "w"]
Flush == [kind |-> "flush"]

\* Overlapping requests of every kind (a stop differs from a disable only in
\* the status it stores).
MCConcurrent == {Job("pre-syncing", "unknown"), Job("success", "unknown"),
                 Size("unknown"), Sched(2), Cmd("start"), Cmd("disable"),
                 Wkr("register"), Wkr("delete"), Flush}

\* Request goroutines are interchangeable.
MCSymmetry == Permutations(Threads)
=============================================================================
