------------------------------- MODULE Daemon -------------------------------
(***************************************************************************)
(* The worker process (startWorker of cmd/tunasync/tunasync.go): its main  *)
(* goroutine runs the worker, and a second one takes the signals.  SIGHUP  *)
(* loads the configuration files (LoadConfig of worker/config.go) and      *)
(* hands the mirrors to ReloadMirrorConfig; SIGINT and SIGTERM halt the    *)
(* worker.                                                                 *)
(*                                                                         *)
(* A configuration file is the sequence of its mirror entries, each before *)
(* its children.  The files are read one after the other and may be edited *)
(* while that goes on.  Modules Reload and Worker say what                 *)
(* ReloadMirrorConfig and Halt do.  Here each is one step, which completes *)
(* or waits for ever with w.L in hand.                                     *)
(***************************************************************************)
EXTENDS Naturals, Sequences, FiniteSets, FiniteSetsExt

CONSTANTS
    Fields,      \* the fields of a mirrorConfig, ChildMirrors and Env apart
    Values,      \* their values
    Empty,       \* the zero value of every field
    Broken,      \* a file that cannot be read or decoded
    MainFiles,   \* the contents that the main file may have ...
    Included,    \* ... and the one that include_mirrors matches
    MaxEdits, MaxSignals, MaxTerms   \* what the operator does

\* An entry: the number of the one around it, or 0, the fields it sets, and
\* whether it has a list of children.
MirrorEntry == [parent : Nat, fields : [Fields -> Values], hasChildren : BOOLEAN]

WellFormed(file) ==
    /\ file \in Seq(MirrorEntry)
    /\ \A n \in DOMAIN file : file[n].parent < n

ASSUME DaemonAssumption ==
    /\ MaxEdits \in Nat /\ MaxSignals \in Nat /\ MaxTerms \in Nat
    /\ \A file \in (MainFiles \cup Included) \ {Broken} : WellFormed(file)

VARIABLES
    disk,        \* the files: the main one and the included one
    sigChan,     \* the signal that waits, a sequence of at most one
    spc,         \* where the goroutine of the signals is
    conf,        \* the entries of MirrorsConf, of the files read so far
    read,        \* how many files it has read
    cfg,         \* w.cfg.Mirrors
    begun,       \* those whose job has had its Run launched, or is disabled
    exit,        \* w.exit is closed
    main,        \* the main goroutine: "register", "run", "returned" or "killed"
    panicked,
    stale,       \* history: the files were edited and no SIGHUP sent since
    edits, signals, terms

opVars == <<stale, edits, signals, terms>>
daemonVars == <<disk, sigChan, spc, conf, read, cfg, begun, exit, main, panicked, opVars>>

-----------------------------------------------------------------------------
(***************************************************************************)
(* The mirrors of a configuration.                                         *)
(***************************************************************************)

NoSettings == [f \in Fields |-> Empty]

\* mergo.Merge with WithOverride: a field that is not empty wins.  A field that
\* is set to its zero value is empty.
Merge(curMir, mirror) ==
    [f \in Fields |-> IF mirror[f] # Empty THEN mirror[f] ELSE curMir[f]]

\* What recursiveMirrors makes of each entry: a copy of its parent's result with
\* the entry's own fields merged in.
recursiveMirrors(entries) ==
    LET curMir[n \in DOMAIN entries] ==
            Merge(IF entries[n].parent = 0 THEN NoSettings
                  ELSE curMir[entries[n].parent],
                  entries[n].fields)
    IN  curMir

\* cfg.Mirrors: the entries without a list of children, not even an empty one.
\* (Its order does not matter: diffMirrorConfig sorts it.)
Leaves(entries) == {n \in DOMAIN entries : ~entries[n].hasChildren}

Mirrors(entries) ==
    LET curMir == recursiveMirrors(entries) IN {curMir[n] : n \in Leaves(entries)}

\* cfg.MirrorsConf = append(cfg.MirrorsConf, incMirCfg.Mirrors...)
AppendEntries(entries, more) ==
    entries \o [n \in DOMAIN more |->
                   [more[n] EXCEPT !.parent = IF @ = 0 THEN 0 ELSE @ + Len(entries)]]

AllEntries(files) == AppendEntries(files[1], files[2])

-----------------------------------------------------------------------------
\* The worker has loaded its configuration and registers with the manager; the
\* goroutine of the signals sleeps for a second before it asks for them.
DaemonInit ==
    /\ disk \in (MainFiles \ {Broken}) \X (Included \ {Broken})
    /\ sigChan = <<>> /\ spc = "sleep"
    /\ conf = <<>> /\ read = 0
    /\ cfg = Mirrors(AllEntries(disk))
    /\ begun = {}
    /\ exit = FALSE /\ main = "register" /\ panicked = FALSE
    /\ stale = FALSE
    /\ edits = 0 /\ signals = 0 /\ terms = 0

Alive == main \in {"register", "run"} /\ ~panicked

\* The operator edits a file.
Edit(i, file) ==
    /\ Alive /\ edits < MaxEdits /\ edits' = edits + 1
    /\ disk[i] # file
    /\ disk' = [disk EXCEPT ![i] = file]
    /\ stale' = TRUE
    /\ UNCHANGED <<sigChan, spc, conf, read, cfg, begun, exit, main, panicked, signals, terms>>

\* Mutant: a channel without a buffer, so that a signal that finds the goroutine
\* busy is lost.
Deliver_Unbuffered(s) ==
    IF spc = "sleep"
    THEN main' = "killed" /\ UNCHANGED sigChan
    ELSE /\ sigChan' = IF sigChan = <<>> /\ spc = "recv" THEN <<s>> ELSE sigChan
         /\ UNCHANGED main

\* A signal: before Notify it kills the process, afterwards the runtime puts it
\* into the channel unless the channel is full.
Deliver(s) ==
    IF spc = "sleep"
    THEN main' = "killed" /\ UNCHANGED sigChan
    ELSE /\ sigChan' = IF sigChan = <<>> THEN <<s>> ELSE sigChan
         /\ UNCHANGED main

\* SIGHUP, from the operator or, for the command "reload", from the worker's
\* own HTTP handler.
Hup ==
    /\ Alive /\ signals < MaxSignals /\ signals' = signals + 1
    /\ Deliver("hup")
    /\ stale' = FALSE
    /\ UNCHANGED <<disk, spc, conf, read, cfg, begun, exit, panicked, edits, terms>>

\* SIGINT or SIGTERM.
Term ==
    /\ Alive /\ terms < MaxTerms /\ terms' = terms + 1
    /\ Deliver("term")
    /\ UNCHANGED <<disk, spc, conf, read, cfg, begun, exit, panicked, stale, edits, signals>>

-----------------------------------------------------------------------------
(***************************************************************************)
(* The goroutine of the signals.                                           *)
(***************************************************************************)

\* time.Sleep and signal.Notify.
Listen ==
    /\ Alive /\ spc = "sleep" /\ spc' = "recv"
    /\ UNCHANGED <<disk, sigChan, conf, read, cfg, begun, exit, main, panicked, opVars>>

Receive ==
    /\ Alive /\ spc = "recv" /\ sigChan # <<>>
    /\ sigChan' = Tail(sigChan)
    /\ spc' = IF Head(sigChan) = "hup" THEN "load" ELSE "halt"
    /\ UNCHANGED <<disk, conf, read, cfg, begun, exit, main, panicked, opVars>>

\* LoadConfig: toml.DecodeFile of the next file.
DecodeFile ==
    /\ Alive /\ spc = "load" /\ read < Len(disk)
    /\ disk[read + 1] # Broken
    /\ read' = read + 1
    /\ conf' = AppendEntries(conf, disk[read + 1])
    /\ UNCHANGED <<disk, sigChan, spc, cfg, begun, exit, main, panicked, opVars>>

\* Mutant: the error ends the goroutine.
LoadFails_Return ==
    /\ Alive /\ spc = "load" /\ read < Len(disk)
    /\ disk[read + 1] = Broken
    /\ read' = 0 /\ conf' = <<>>
    /\ spc' = "ended"
    /\ UNCHANGED <<disk, sigChan, cfg, begun, exit, main, panicked, opVars>>

\* "Error loading config": everything stays as it is.
LoadFails ==
    /\ Alive /\ spc = "load" /\ read < Len(disk)
    /\ disk[read + 1] = Broken
    /\ read' = 0 /\ conf' = <<>>
    /\ spc' = "recv"
    /\ UNCHANGED <<disk, sigChan, cfg, begun, exit, main, panicked, opVars>>

\* w.ReloadMirrorConfig(newCfg.Mirrors), after the loop over MirrorsConf.  (Merge
\* returns an error only for arguments of different types.)  The jobs of mirrors
\* that are gone or changed are disabled, under w.L; this waits for the end of
\* their Runs.
Disabling == cfg \ Mirrors(conf)

ReloadMirrorConfig ==
    /\ Alive /\ spc = "load" /\ read = Len(disk)
    /\ Disabling \subseteq begun
    /\ cfg' = Mirrors(conf)
    /\ begun' = (begun \cap cfg') \cup (cfg' \ cfg)
    /\ read' = 0 /\ conf' = <<>>
    /\ spc' = "recv"
    /\ UNCHANGED <<disk, sigChan, exit, main, panicked, opVars>>

\* It never returns: m.disabled of a job whose Run has not begun is nil, always
\* so before the boot and for a moment after each launch; and a Run may wait for
\* room in managerChan, which the scheduler does not empty without w.L.
ReloadHangs ==
    /\ Alive /\ spc = "load" /\ read = Len(disk)
    /\ Disabling # {}
    /\ read' = 0 /\ conf' = <<>>
    /\ spc' = "stuck"
    /\ UNCHANGED <<disk, sigChan, cfg, begun, exit, main, panicked, opVars>>

\* w.Halt(), which closes w.exit when the jobs have ended; closing it twice is a
\* panic.
Halt ==
    /\ Alive /\ spc = "halt" /\ spc' = "recv"
    /\ panicked' = exit
    /\ exit' = TRUE
    /\ UNCHANGED <<disk, sigChan, conf, read, cfg, begun, main, opVars>>

\* It never returns: a Run waits for room in managerChan as above, or the jobHalt
\* of an earlier Halt is still in a ctrlChan.
HaltHangs ==
    /\ Alive /\ spc = "halt" /\ spc' = "stuck"
    /\ begun # {} \/ (exit /\ cfg # {})
    /\ UNCHANGED <<disk, sigChan, conf, read, cfg, begun, exit, main, panicked, opVars>>

\* The main goroutine has registered the worker, or tried to often enough, and
\* runSchedule sets the jobs up under w.L.
Boot ==
    /\ Alive /\ main = "register" /\ spc # "stuck"
    /\ main' = "run"
    /\ begun' = cfg
    /\ UNCHANGED <<disk, sigChan, spc, conf, read, cfg, exit, panicked, opVars>>

\* It sees that w.exit is closed, flushes the reports under w.L and leaves
\* runSchedule, and the process ends.
Return ==
    /\ Alive /\ main = "run" /\ exit /\ spc # "stuck"
    /\ main' = "returned"
    /\ UNCHANGED <<disk, sigChan, spc, conf, read, cfg, begun, exit, panicked, opVars>>

SignalStep ==
    \/ Listen \/ Receive \/ DecodeFile \/ LoadFails
    \/ ReloadMirrorConfig \/ ReloadHangs \/ Halt \/ HaltHangs

MainStep == Boot \/ Return

\* The process is gone, waits for a signal, or waits for ever.
DaemonRest ==
    /\ ~Alive \/ (spc = "recv" /\ sigChan = <<>>) \/ spc = "stuck"
    /\ UNCHANGED daemonVars

DaemonNext ==
    \/ \E file \in MainFiles : Edit(1, file)
    \/ \E file \in Included : Edit(2, file)
    \/ Hup \/ Term
    \/ SignalStep \/ MainStep
    \/ DaemonRest

\* Both goroutines are scheduled, and requests to the manager time out.  That a
\* reload or Halt completes is not assumed.
DaemonSpec ==
    /\ DaemonInit /\ [][DaemonNext]_daemonVars
    /\ WF_daemonVars(SignalStep) /\ WF_daemonVars(MainStep)

-----------------------------------------------------------------------------
(***************************************************************************)
(* Properties.                                                             *)
(***************************************************************************)

\* The entries on the way from the top of the file to entry n.
Lineage(entries, n) ==
    LET up[m \in {0} \cup DOMAIN entries] ==
            IF m = 0 THEN {} ELSE {m} \cup up[entries[m].parent]
    IN  up[n]

\* The mirrors that the files describe: each field of a leaf is given by the
\* innermost entry around it that gives it.
AsWritten(entries) ==
    {[f \in Fields |->
        LET givers == {m \in Lineage(entries, n) : entries[m].fields[f] # Empty}
        IN  IF givers = {} THEN Empty ELSE entries[Max(givers)].fields[f]] :
     n \in Leaves(entries)}

\* However SIGHUPs coalesce in the channel, whatever was edited while the files
\* were read and however many loads failed: when no signal waits and the files
\* have not been edited since the last SIGHUP, the worker runs the mirrors that
\* they describe.
LatestLoaded ==
    (/\ Alive /\ ~exit /\ spc = "recv" /\ sigChan = <<>> /\ ~stale
     /\ disk[1] # Broken /\ disk[2] # Broken)
        => cfg = AsWritten(AllEntries(disk))

\* A SIGTERM that got into the channel ends the worker, at whatever point of the
\* boot or of a reload it comes and however many loads have failed, unless the
\* reload before it or the Halt that it causes waits for a job for ever.
TermEndsWorker == (sigChan = <<"term">>) ~> (~Alive \/ spc = "stuck")
=============================================================================
