------------------------------- MODULE Hooks -------------------------------
(***************************************************************************)
(* The hooks of a mirror job and the layered context of its provider: what *)
(* one run after the other does to the context (worker/context.go), to the *)
(* log directory (worker/loglimit_hook.go) and to the Btrfs snapshot       *)
(* (worker/btrfs_snapshot_hook.go), in the order runJobWrapper calls the   *)
(* hooks (worker/job.go) and newMirrorProvider adds them                   *)
(* (worker/provider.go).                                                   *)
(*                                                                         *)
(* The runner is the only goroutine that calls hooks; module MirrorJob has *)
(* what goes on around it.  The hooks are called one by one, because one   *)
(* that fails ends the run and leaves the rest undone.                     *)
(***************************************************************************)
EXTENDS Naturals, Sequences, SequencesExt, FiniteSets, FiniteSetsExt

CONSTANTS
    Enabled,     \* the optional hooks that are configured
    Retry,       \* provider.Retry()
    Keep,        \* log files that preExec keeps (9 in the code)
    Mishaps,     \* the <<stage, hook>> that may fail
    SameMinute,  \* whether a run may begin in the minute of the last log file
    MaxRuns,     \* runs that are looked at
    MaxMinute,   \* bound of the clock
    NoVal        \* no value: a key that a layer lacks, a file that is not there

\* The calls that can return an error, and provider.Terminate.
MayFail ==
    {<<"preJob", "zfs">>, <<"preJob", "btrfs">>,
     <<"preExec", "loglimit">>, <<"preExec", "docker">>, <<"preExec", "cgroup">>,
     <<"sync", "terminate">>, <<"postExec", "cgroup">>,
     <<"postSuccess", "btrfs">>, <<"postSuccess", "execOnSuccess">>,
     <<"postFail", "execOnFailure">>}

Optional == {"zfs", "btrfs", "docker", "cgroup", "execOnSuccess", "execOnFailure"}

ASSUME HooksAssumption ==
    /\ Enabled \subseteq Optional /\ Mishaps \subseteq MayFail
    /\ Retry \in Nat \ {0} /\ Keep \in Nat \ {0}
    /\ MaxRuns \in Nat /\ MaxMinute \in Nat /\ SameMinute \in BOOLEAN
    /\ NoVal \notin [minute : Nat, fail : BOOLEAN]

VARIABLES
    layers,    \* p.ctx, the bottom layer first: [log, volumes]; empty is nil
    dir,       \* the log files, the one modified first first: [name, of]
    latest,    \* where the link "latest" points
    work,      \* what the working directory holds
    snapshot,  \* what the Btrfs snapshot holds
    pc,        \* the stage of the run
    i,         \* the next hook of the stage
    retry,     \* the loop counter of runJobWrapper
    outcome,   \* syncErr and stopASAP: "ok", "fail" or "killed"
    run,       \* number of the run
    try,       \* number of the try, over all runs
    logged,    \* whether the try has opened its log file
    minute     \* the time, to the minute of a log file's name

hookVars == <<layers, dir, latest, work, snapshot, pc, i, retry, outcome, run,
              try, logged, minute>>

Stages == {"preJob", "preExec", "postExec", "postSuccess", "postFail"}

\* A log file: "<name>_<minute>.log", with ".fail" or not.
File(m) == [minute |-> m, fail |-> FALSE]
FailFile(f) == [f EXCEPT !.fail = TRUE]

\* The file of name f: there is one or none.
Named(f) == {n \in DOMAIN dir : dir[n].name = f}

\* The log directory without it.
Unlinked(f) == RemoveFirstMatch(dir, LAMBDA e : e.name = f)

\* provider.AddHook(h), if it is configured.
AddHook(h) == IF h \in Enabled THEN <<h>> ELSE <<>>

\* Mutant: the docker hook is added first.
HookList_DockerFirst ==
    AddHook("docker") \o <<"loglimit">> \o AddHook("zfs") \o AddHook("btrfs")
      \o AddHook("execOnSuccess") \o AddHook("execOnFailure")

\* provider.Hooks(), as newMirrorProvider adds them: the cgroup hook only
\* without the docker hook.
HookList ==
    <<"loglimit">> \o AddHook("zfs") \o AddHook("btrfs")
      \o (IF "docker" \in Enabled THEN <<"docker">> ELSE AddHook("cgroup"))
      \o AddHook("execOnSuccess") \o AddHook("execOnFailure")

\* Hooks or rHooks.
HooksOf(stage) ==
    IF stage \in {"preJob", "preExec"} THEN HookList ELSE Reverse(HookList)

-----------------------------------------------------------------------------
(***************************************************************************)
(* The context.                                                            *)
(***************************************************************************)

\* ctx.Get: the value in the topmost layer that has the key.
Get(ctx, key) ==
    LET has == {n \in DOMAIN ctx : ctx[n][key] # NoVal}
    IN IF has = {} THEN NoVal ELSE ctx[Max(has)][key]

LogFile == Get(layers, "log")
Volumes == Get(layers, "volumes")

\* p.EnterContext() and ctx.Set in the new layer.
EnterContext(layer) == layers' = Append(layers, layer)

\* p.ExitContext(): beyond the bottom layer, p.ctx becomes nil.
ExitContext == layers' = Front(layers)

-----------------------------------------------------------------------------
(***************************************************************************)
(* runJobWrapper.                                                          *)
(***************************************************************************)

\* What newCmdProvider and the others set: the log file "latest.log".
Bottom == [log |-> File(0), volumes |-> NoVal]

HooksInit ==
    /\ layers = <<Bottom>>
    /\ dir = <<>> /\ latest = NoVal
    /\ work = "none" /\ snapshot = "none"
    /\ pc = "idle" /\ i = 1 /\ retry = 0 /\ outcome = "ok"
    /\ run = 0 /\ try = 0 /\ logged = FALSE
    /\ minute = 1

\* The minute of the newest log file has passed.
NewMinute == \A n \in DOMAIN dir : dir[n].name.minute < minute

StartRun ==
    /\ pc = "idle" /\ run < MaxRuns
    /\ SameMinute \/ NewMinute
    /\ run' = run + 1 /\ retry' = 0
    /\ pc' = "preJob" /\ i' = 1
    /\ UNCHANGED <<layers, dir, latest, work, snapshot, outcome, try, logged, minute>>

EndRun == pc' = "idle" /\ i' = 1

\* The next call of runHooks is hook h at the given stage.
Calls(stage, h) ==
    /\ pc = stage /\ i <= Len(HookList)
    /\ HooksOf(stage)[i] = h

\* The call returns nil.
Returns == i' = i + 1 /\ UNCHANGED <<pc, retry, outcome, run, try, minute>>

\* runHooks: the call returns an error, and so does the run.
Fails(stage, h) ==
    /\ Calls(stage, h) /\ <<stage, h>> \in Mishaps
    /\ EndRun
    /\ UNCHANGED <<retry, outcome, run, try, minute>>

\* Mutant: one more is kept.
Pruned_OneMore ==
    SubSeq(dir, (IF Len(dir) > Keep + 1 THEN Len(dir) - Keep ELSE 1), Len(dir))

\* The log directory without the files beyond the newest Keep.
Pruned ==
    SubSeq(dir, (IF Len(dir) > Keep THEN Len(dir) - Keep + 1 ELSE 1), Len(dir))

LogLimitPreExec ==
    /\ Calls("preExec", "loglimit")
    /\ dir' = Pruned
    /\ latest' = File(minute)
    /\ logged' = FALSE
    /\ EnterContext([log |-> File(minute), volumes |-> NoVal])
    /\ Returns
    /\ UNCHANGED <<work, snapshot>>

\* Mutant: the layer is left after every execution as well.
LogLimitPostSuccess_PostExec ==
    /\ Calls("postSuccess", "loglimit") \/ Calls("postExec", "loglimit")
    /\ ExitContext
    /\ Returns
    /\ UNCHANGED <<dir, latest, work, snapshot, logged>>

LogLimitPostSuccess ==
    /\ Calls("postSuccess", "loglimit")
    /\ ExitContext
    /\ Returns
    /\ UNCHANGED <<dir, latest, work, snapshot, logged>>

\* Mutant: the log file keeps its name.
LogLimitPostFail_NoRename ==
    /\ Calls("postFail", "loglimit")
    /\ ExitContext
    /\ Returns
    /\ UNCHANGED <<dir, latest, work, snapshot, logged>>

\* os.Rename of the log file, over a ".fail" of the same minute, and the link.
LogLimitPostFail ==
    /\ Calls("postFail", "loglimit")
    /\ LET renamed(e) == IF e.name = LogFile THEN [e EXCEPT !.name = FailFile(@)] ELSE e
           others == IF Named(LogFile) = {} THEN dir ELSE Unlinked(FailFile(LogFile))
       IN dir' = [n \in DOMAIN others |-> renamed(others[n])]
    /\ latest' = FailFile(LogFile)
    /\ ExitContext
    /\ Returns
    /\ UNCHANGED <<work, snapshot, logged>>

\* The log file of the try becomes a volume of the container.
DockerPreExec ==
    /\ Calls("preExec", "docker")
    /\ EnterContext([log |-> NoVal, volumes |-> LogFile])
    /\ Returns
    /\ UNCHANGED <<dir, latest, work, snapshot, logged>>

DockerPostExec ==
    /\ Calls("postExec", "docker")
    /\ ExitContext
    /\ Returns
    /\ UNCHANGED <<dir, latest, work, snapshot, logged>>

\* A subvolume is made if there is no working directory yet.
BtrfsPreJob ==
    /\ Calls("preJob", "btrfs")
    /\ work' = IF work = "none" THEN "partial" ELSE work
    /\ Returns
    /\ UNCHANGED <<layers, dir, latest, snapshot, logged>>

\* Mutant: the snapshot is taken after every execution.
BtrfsPostSuccess_PostExec ==
    /\ Calls("postSuccess", "btrfs") \/ Calls("postExec", "btrfs")
    /\ snapshot' = work
    /\ Returns
    /\ UNCHANGED <<layers, dir, latest, work, logged>>

\* The old snapshot is deleted and a new one is made.
BtrfsPostSuccess ==
    /\ Calls("postSuccess", "btrfs")
    /\ snapshot' = work
    /\ Returns
    /\ UNCHANGED <<layers, dir, latest, work, logged>>

\* The calls that do nothing to this state: the methods of emptyHook, the checks
\* of the zfs hook, the cgroup, and the commands of the exec hooks.
Acting == {<<"preExec", "loglimit">>, <<"postSuccess", "loglimit">>,
           <<"postFail", "loglimit">>, <<"preExec", "docker">>,
           <<"postExec", "docker">>, <<"preJob", "btrfs">>,
           <<"postSuccess", "btrfs">>}

OtherHook ==
    /\ \E stage \in Stages, h \in Optional \cup {"loglimit"} :
           Calls(stage, h) /\ <<stage, h>> \notin Acting
    /\ Returns
    /\ UNCHANGED <<layers, dir, latest, work, snapshot, logged>>

\* The Btrfs hook can fail after the old snapshot is gone.  The others fail
\* before they change anything.
HookFails ==
    /\ \E stage \in Stages, h \in Optional \cup {"loglimit"} : Fails(stage, h)
    /\ \/ UNCHANGED snapshot
       \/ Calls("postSuccess", "btrfs") /\ snapshot' = "none"
    /\ UNCHANGED <<layers, dir, latest, work, logged>>

\* The last hook of a stage has returned.
StageDone ==
    /\ pc \in Stages /\ i > Len(HookList)
    /\ \/ pc = "preJob" /\ pc' = "preExec" /\ UNCHANGED <<retry, try>>
       \/ pc = "preExec" /\ pc' = "sync" /\ try' = try + 1 /\ UNCHANGED retry
       \/ pc = "postExec" /\ outcome = "ok" /\ pc' = "postSuccess"
          /\ UNCHANGED <<retry, try>>
       \/ pc = "postExec" /\ outcome # "ok" /\ pc' = "postFail"
          /\ UNCHANGED <<retry, try>>
       \/ pc = "postSuccess" /\ pc' = "idle" /\ UNCHANGED <<retry, try>>
       \/ /\ pc = "postFail"
          /\ retry' = retry + 1
          /\ pc' = IF outcome = "killed" \/ retry' = Retry THEN "idle" ELSE "preExec"
          /\ UNCHANGED try
    /\ i' = 1
    /\ UNCHANGED <<layers, dir, latest, work, snapshot, outcome, run, logged, minute>>

-----------------------------------------------------------------------------
(***************************************************************************)
(* The provider.                                                           *)
(***************************************************************************)

\* prepareLogFile opens p.LogFile() without O_TRUNC and the process writes from
\* its beginning: if a longer file of that name is there, its end remains.
OpenLog ==
    /\ pc = "sync" /\ ~logged
    /\ LET old == UNION {dir[n].of : n \in Named(LogFile)}
       IN \E rest \in {{}, old} :
              dir' = Append(Unlinked(LogFile), [name |-> LogFile, of |-> rest \cup {try}])
    /\ logged' = TRUE /\ work' = "partial"
    /\ UNCHANGED <<layers, latest, snapshot, pc, i, retry, outcome, run, try, minute>>

\* The sync ends, times out or is killed; one that did not start does not
\* succeed.
SyncEnds ==
    /\ pc = "sync"
    /\ \E o \in {"ok", "fail", "killed"} :
           /\ logged \/ o # "ok"
           /\ outcome' = o
           /\ work' = IF o = "ok" THEN "synced" ELSE work
    /\ pc' = "postExec" /\ i' = 1
    /\ UNCHANGED <<layers, dir, latest, snapshot, retry, run, try, logged, minute>>

\* Terminate returns an error after a timeout or a kill: the run ends there.
TerminateFails ==
    /\ pc = "sync" /\ logged /\ <<"sync", "terminate">> \in Mishaps
    /\ EndRun
    /\ UNCHANGED <<layers, dir, latest, work, snapshot, retry, outcome, run, try,
                   logged, minute>>

Tick ==
    /\ minute < MaxMinute /\ minute' = minute + 1
    /\ UNCHANGED <<layers, dir, latest, work, snapshot, pc, i, retry, outcome,
                   run, try, logged>>

\* No more runs are looked at.
Rest == pc = "idle" /\ UNCHANGED hookVars

HooksNext ==
    \/ StartRun \/ StageDone \/ HookFails \/ OtherHook
    \/ LogLimitPreExec \/ LogLimitPostSuccess \/ LogLimitPostFail
    \/ DockerPreExec \/ DockerPostExec
    \/ BtrfsPreJob \/ BtrfsPostSuccess
    \/ OpenLog \/ SyncEnds \/ TerminateFails
    \/ Tick \/ Rest

HooksSpec == HooksInit /\ [][HooksNext]_hookVars

-----------------------------------------------------------------------------
(***************************************************************************)
(* Properties.                                                             *)
(***************************************************************************)

\* ExitContext is never called on the bottom layer, whichever hooks failed in
\* this run or in an earlier one: p.ctx would be nil, and the next LogFile() or
\* WorkingDir() a nil dereference in the runner.
NeverBelowBottom == layers # <<>> /\ layers[1] = Bottom

\* While a try syncs, LogFile() is the file that "latest" points to and, with
\* docker, the one that is mounted into the container: a layer that an earlier
\* run left behind does not show through.
LogFileOfTry ==
    pc = "sync" =>
        /\ LogFile = latest
        /\ "docker" \in Enabled => Volumes = LogFile

\* The log that fail_on_match, size_pattern and the rsync size are looked up in
\* is the log of this try alone.
LogIsOwn ==
    pc = "sync" /\ logged => \A n \in Named(LogFile) : dir[n].of = {try}

\* The log limiter limits and loses nothing that is needed: there are never more
\* log files than it keeps and the one of the try, and between runs "latest"
\* points to one that exists, through renaming, removal of old files and hooks
\* that failed, unless the try opened no log.
LogDirKept ==
    /\ Len(dir) <= Keep + 1
    /\ pc = "idle" /\ logged => Named(latest) # {}

\* "keep the old snapshot": a snapshot is only ever of a mirror whose sync
\* succeeded, never of one that failed, was killed or is under way.
SnapshotIsSynced == snapshot \in {"none", "synced"}

-----------------------------------------------------------------------------
(***************************************************************************)
(* Statements of the documentation that the code does not keep.  The       *)
(* README gives the constants under which TLC refutes each.                *)
(***************************************************************************)

\* "when exits, the top layer poped and the storage returned to the state before
\* entering this context": between runs the context is the provider's own.
ContextRestored == pc = "idle" => layers = <<Bottom>>
=============================================================================
