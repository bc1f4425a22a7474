------------------------------- MODULE Reload -------------------------------
(***************************************************************************)
(* Hot reloading of the mirror configuration: diffMirrorConfig             *)
(* (worker/config_diff.go), a merge of the two sorted lists, and           *)
(* ReloadMirrorConfig (worker/worker.go), which applies its result to      *)
(* w.jobs under w.L.                                                       *)
(*                                                                         *)
(* A mirrorConfig is a name and a setting that stands for all its other    *)
(* fields.  disableJob is one step here: module Worker shows what it takes *)
(* and that the job's goroutine has ended when it returns.                 *)
(***************************************************************************)
EXTENDS Naturals, Sequences, SequencesExt

CONSTANTS
    MaxName,     \* names are 1 .. MaxName, in the order of strings
    Settings,    \* the rest of a mirrorConfig
    MaxReloads   \* how many SIGHUPs arrive

Names == 1..MaxName
mirrorConfig == [name : Names, setting : Settings]

ASSUME ReloadAssumption == MaxName \in Nat /\ MaxReloads \in Nat

\* The mirror lists of configuration files: no name twice.
Configurations ==
    {c \in SUBSET mirrorConfig : \A x, y \in c : x.name = y.name => x = y}

VARIABLES
    cfg,         \* w.cfg.Mirrors
    jobs,        \* w.jobs: per name, the provider's configuration and the job
    newMirrors,  \* the argument of ReloadMirrorConfig
    oList, nList, i, j, operations,   \* of diffMirrorConfig
    phase,       \* where ReloadMirrorConfig is
    k,           \* the index of its loops over the difference
    reloads,     \* SIGHUPs so far
    before       \* history: jobs when the reload began

diffVars == <<oList, nList, i, j, operations>>
reloadVars == <<cfg, jobs, newMirrors, diffVars, phase, k, reloads, before>>

\* A job: its configuration, its state, whether a goroutine drives it and
\* whether it has an entry in the schedule.
Job(c, s, r, q) == [config |-> c, state |-> s, run |-> r, sched |-> q]

\* What a job of configuration c can be like between commands.
JobsOf(c) ==
    {Job(c, "none", TRUE, TRUE), Job(c, "ready", TRUE, TRUE),
     Job(c, "ready", TRUE, FALSE), Job(c, "paused", TRUE, FALSE),
     Job(c, "disabled", FALSE, FALSE)}

NamesOf(c) == {x.name : x \in c}
ConfigOf(c, n) == CHOOSE x \in c : x.name = n

ReloadInit ==
    /\ cfg \in Configurations
    /\ jobs \in [NamesOf(cfg) -> UNION {JobsOf(c) : c \in cfg}]
    /\ \A n \in NamesOf(cfg) : jobs[n] \in JobsOf(ConfigOf(cfg, n))
    /\ newMirrors = {}
    /\ oList = <<>> /\ nList = <<>> /\ i = 0 /\ j = 0 /\ operations = <<>>
    /\ phase = "idle" /\ k = 0 /\ reloads = 0
    /\ before = jobs

-----------------------------------------------------------------------------
(***************************************************************************)
(* diffMirrorConfig                                                        *)
(***************************************************************************)

\* sort.Sort of a list with the elements of c, by Less.
Sorted(c) ==
    {s \in BoundedSeq(c, MaxName) :
        ToSet(s) = c /\ \A x, y \in DOMAIN s : x < y => s[x].name < s[y].name}

\* The tail node, "~" and the greatest name: greater than all names.
Nil == [name |-> MaxName + 1, setting |-> "nil"]

Op(o, c) == <<[diffOp |-> o, mirCfg |-> c]>>

\* Mutant: no tail node is appended.
WithTail_None(s) == s

WithTail(s) == Append(s, Nil)

OpsOf(o, s) == [x \in DOMAIN s |-> [diffOp |-> o, mirCfg |-> s[x]]]

\* The call: lock, copy and sort both lists; if one is empty the result is
\* plain.
Begin(new) ==
    /\ phase = "idle" /\ reloads < MaxReloads
    /\ reloads' = reloads + 1
    /\ newMirrors' = new
    /\ before' = jobs
    /\ \E o \in Sorted(cfg), n \in Sorted(new) :
          \/ /\ cfg # {} /\ new # {}
             /\ oList' = WithTail(o) /\ nList' = WithTail(n)
             /\ i' = 1 /\ j' = 1
             /\ operations' = <<>>
             /\ phase' = "diff" /\ k' = 0
          \/ /\ cfg = {} \/ new = {}
             /\ operations' = OpsOf("delete", o) \o OpsOf("add", n)
             /\ phase' = "change" /\ k' = 1
             /\ UNCHANGED <<oList, nList, i, j>>
    /\ UNCHANGED <<cfg, jobs>>

\* One iteration of the merge.
Merge ==
    /\ phase = "diff" /\ i <= Len(oList) /\ j <= Len(nList)
    /\ LET o == oList[i]
           n == nList[j]
       IN  \/ /\ n.name < o.name
              /\ operations' = operations \o Op("add", n)
              /\ j' = j + 1 /\ UNCHANGED i
           \/ /\ o.name < n.name
              /\ operations' = operations \o Op("delete", o)
              /\ i' = i + 1 /\ UNCHANGED j
           \/ /\ o.name = n.name
              /\ operations' = IF o # n THEN operations \o Op("modify", n)
                                        ELSE operations
              /\ i' = i + 1 /\ j' = j + 1
    /\ UNCHANGED <<cfg, jobs, newMirrors, oList, nList, phase, k, reloads, before>>

MergeDone ==
    /\ phase = "diff" /\ (i > Len(oList) \/ j > Len(nList))
    /\ oList' = <<>> /\ nList' = <<>> /\ i' = 0 /\ j' = 0
    /\ phase' = "change" /\ k' = 1
    /\ UNCHANGED <<cfg, jobs, newMirrors, operations, reloads, before>>

-----------------------------------------------------------------------------
(***************************************************************************)
(* The loops of ReloadMirrorConfig.                                        *)
(***************************************************************************)

Without(f, n) == [m \in DOMAIN f \ {n} |-> f[m]]
With(f, n, v) == [m \in DOMAIN f \cup {n} |-> IF m = n THEN v ELSE f[m]]

\* Mutant: every modified job is started again.
Renewed_Starts(c, s) == Job(c, "none", TRUE, TRUE)

\* The job after disableJob, SetProvider and "re-schedule job according to its
\* previous state" s.
Renewed(c, s) ==
    CASE s = "disabled" -> Job(c, "disabled", FALSE, FALSE)
      [] s = "paused" -> Job(c, "paused", TRUE, FALSE)
      [] OTHER -> Job(c, "none", TRUE, TRUE)

\* The first loop: deletions and modifications.
Change ==
    /\ phase = "change" /\ k <= Len(operations)
    /\ LET op == operations[k]
           n == op.mirCfg.name
       IN  jobs' = IF op.diffOp = "add" \/ n \notin DOMAIN jobs THEN jobs
                   ELSE IF op.diffOp = "delete" THEN Without(jobs, n)
                   ELSE With(jobs, n, Renewed(op.mirCfg, jobs[n].state))
    /\ k' = k + 1
    /\ UNCHANGED <<cfg, newMirrors, diffVars, phase, reloads, before>>

ChangeDone ==
    /\ phase = "change" /\ k > Len(operations)
    /\ phase' = "add" /\ k' = 1
    /\ UNCHANGED <<cfg, jobs, newMirrors, diffVars, reloads, before>>

\* The second loop: new jobs are launched and scheduled at once.
Add ==
    /\ phase = "add" /\ k <= Len(operations)
    /\ LET op == operations[k]
       IN  jobs' = IF op.diffOp # "add" THEN jobs
                   ELSE With(jobs, op.mirCfg.name,
                             Job(op.mirCfg, "none", TRUE, TRUE))
    /\ k' = k + 1
    /\ UNCHANGED <<cfg, newMirrors, diffVars, phase, reloads, before>>

\* Mutant: the new list is not kept for the next reload.
Done_KeepConfig ==
    /\ phase = "add" /\ k > Len(operations)
    /\ phase' = "idle" /\ k' = 0
    /\ UNCHANGED <<cfg, jobs, newMirrors, diffVars, reloads, before>>

\* w.cfg.Mirrors = newMirrors, and unlock.
Done ==
    /\ phase = "add" /\ k > Len(operations)
    /\ cfg' = newMirrors
    /\ phase' = "idle" /\ k' = 0
    /\ UNCHANGED <<jobs, newMirrors, diffVars, reloads, before>>

NoMoreReloads == phase = "idle" /\ reloads = MaxReloads /\ UNCHANGED reloadVars

ReloadNext ==
    \/ \E new \in Configurations : Begin(new)
    \/ Merge \/ MergeDone \/ Change \/ ChangeDone \/ Add \/ Done
    \/ NoMoreReloads

ReloadSpec == ReloadInit /\ [][ReloadNext]_reloadVars

-----------------------------------------------------------------------------
(***************************************************************************)
(* Properties.                                                             *)
(***************************************************************************)

\* What the difference of two configurations is.
Difference(old, new) ==
    {[diffOp |-> "delete", mirCfg |-> o] : o \in {x \in old : x.name \notin NamesOf(new)}}
    \cup
    {[diffOp |-> "add", mirCfg |-> n] : n \in {x \in new : x.name \notin NamesOf(old)}}
    \cup
    {[diffOp |-> "modify", mirCfg |-> n] :
        n \in {x \in new : x.name \in NamesOf(old) /\ x \notin old}}

\* "a series of operations that if these operations are applied to oldList, a
\* newList equavuilance can be obtained": exactly the difference, and every
\* operation once.
DiffIsDifference ==
    phase = "change" => /\ ToSet(operations) = Difference(cfg, newMirrors)
                        /\ IsInjective(operations)

\* After any number of reloads the jobs are those of the configuration, each
\* with its provider made from it, and the configuration kept for the next
\* difference is the one that was loaded.
JobsMatchConfig ==
    phase = "idle" =>
        /\ {jobs[n].config : n \in DOMAIN jobs} = cfg
        /\ \A n \in DOMAIN jobs : jobs[n].config.name = n
        /\ reloads > 0 => cfg = newMirrors

\* "re-schedule job according to its previous state": a reload leaves a job
\* with the same configuration alone, does not wake a paused or disabled one,
\* and schedules every other job it touches.
ReloadKeepsStates ==
    phase = "idle" =>
        \A n \in DOMAIN jobs :
            \/ n \in DOMAIN before /\ jobs[n] = before[n]
            \/ /\ n \in DOMAIN before
               /\ before[n].state \in {"paused", "disabled"}
               /\ before[n].config # jobs[n].config
               /\ jobs[n] = [before[n] EXCEPT !.config = jobs[n].config]
            \/ /\ n \in DOMAIN before => /\ before[n].state \in {"none", "ready"}
                                         /\ before[n].config # jobs[n].config
               /\ jobs[n] = Job(jobs[n].config, "none", TRUE, TRUE)
=============================================================================
