----------------------------- MODULE HooksProofs -----------------------------
(***************************************************************************)
(* Proofs about the hooks and the layered context, for any hooks, retries, *)
(* numbers of kept files and failures: context layers balance whichever    *)
(* hook fails, a try has its own log file, the log directory is bounded    *)
(* and snapshots are of synced mirrors.                                    *)
(***************************************************************************)
EXTENDS Hooks, SequenceTheorems, TLAPS

HookNames == Optional \cup {"loglimit"}
Files == [minute : Nat, fail : BOOLEAN]
Entries == [name : Files, of : SUBSET Nat]
Layers == [log : Files \cup {NoVal}, volumes : Files \cup {NoVal}]
Contents == {"none", "partial", "synced"}

\* Every variable has its type.
HooksTypeOK ==
    /\ layers \in Seq(Layers)
    /\ dir \in Seq(Entries)
    /\ latest \in Files \cup {NoVal}
    /\ work \in Contents /\ snapshot \in Contents
    /\ pc \in Stages \cup {"idle", "sync"}
    /\ i \in Nat /\ i >= 1 /\ i <= Len(HookList) + 1
    /\ retry \in Nat /\ run \in Nat /\ try \in Nat /\ minute \in Nat
    /\ outcome \in {"ok", "fail", "killed"}
    /\ logged \in BOOLEAN

\* The log limiter has entered its layer and not left it.
InTry ==
    \/ pc = "preExec" /\ i > 1
    \/ pc \in {"sync", "postExec"}
    \/ pc \in {"postSuccess", "postFail"} /\ i <= Len(HookList)

\* The docker hook has entered its layer and not left it.
Mounted ==
    \/ pc = "preExec" /\ \E n \in 1..(i - 1) : HookList[n] = "docker"
    \/ pc = "sync" /\ "docker" \in Enabled
    \/ pc = "postExec" /\ \E n \in i..Len(HookList) : HooksOf("postExec")[n] = "docker"

\* The topmost layers are those of the try, whatever is below them.
LayersOfTry ==
    InTry =>
        /\ latest \in Files /\ ~latest.fail
        /\ Mounted => /\ Len(layers) >= 3
                      /\ layers[Len(layers)] = [log |-> NoVal, volumes |-> latest]
                      /\ layers[Len(layers) - 1] = [log |-> latest, volumes |-> NoVal]
        /\ ~Mounted => /\ Len(layers) >= 2
                       /\ layers[Len(layers)] = [log |-> latest, volumes |-> NoVal]

\* A file system has no name twice.
NamesDistinct ==
    \A m, n \in DOMAIN dir : dir[m].name = dir[n].name => m = n

\* There is room for the log of a try that has not opened it.
DirBounded ==
    /\ Len(dir) <= Keep + 1
    /\ InTry /\ ~logged => Len(dir) <= Keep
    /\ pc = "preExec" /\ i > 1 => ~logged

\* The log that was opened last exists under the name "latest" points to.
LatestThere == logged => Named(latest) # {}

\* With runs in minutes of their own: the other successful logs are of earlier
\* minutes, so that the next log file is a new one.
LogsOlder ==
    ~SameMinute =>
        /\ pc \notin {"idle", "postSuccess"} =>
              \A n \in DOMAIN dir :
                  dir[n].name.fail \/ (InTry /\ dir[n].name = latest)
                      \/ dir[n].name.minute < minute
        /\ InTry /\ ~logged => Named(latest) = {}
        /\ pc = "sync" /\ logged => \A n \in Named(latest) : dir[n].of = {try}

\* A sync that succeeded has left the working directory synced.
WorkSynced ==
    pc = "postSuccess" \/ (pc = "postExec" /\ outcome = "ok") => work = "synced"

HooksInv ==
    /\ HooksTypeOK /\ NeverBelowBottom /\ LayersOfTry /\ NamesDistinct
    /\ DirBounded /\ LatestThere /\ LogsOlder /\ WorkSynced /\ SnapshotIsSynced

-----------------------------------------------------------------------------
(***************************************************************************)
(* What the proofs need of the operators.                                  *)
(***************************************************************************)

\* Adding one hook or none to a list without it that has a place for it.
LEMMA AddHookCases ==
    ASSUME NEW S, NEW s \in Seq(S), NEW h \in S, NEW x, x = <<>> \/ x = <<h>>
    PROVE  /\ s \o x \in Seq(S)
           /\ Len(s \o x) = Len(s) + Len(x) /\ Len(x) \in 0..1
           /\ \A n \in 1..Len(s) : (s \o x)[n] = s[n]
           /\ x = <<h>> => Len(x) = 1 /\ (s \o x)[Len(s) + 1] = h
           /\ x = <<>> => Len(x) = 0
<1>1. CASE x = <<>>
  BY <1>1
<1>2. CASE x = <<h>>
  BY <1>2
<1> QED
  BY <1>1, <1>2

\* The log limiter is the first of the hooks, and the docker hook is among them
\* once if it is configured.
LEMMA HookListFacts ==
    /\ HookList \in Seq(HookNames) /\ Len(HookList) >= 1
    /\ HookList[1] = "loglimit"
    /\ \A n \in 2..Len(HookList) : HookList[n] # "loglimit"
    /\ \A m, n \in 1..Len(HookList) :
          HookList[m] = "docker" /\ HookList[n] = "docker" => m = n
    /\ "docker" \in Enabled <=> \E n \in 1..Len(HookList) : HookList[n] = "docker"
<1> DEFINE D == IF "docker" \in Enabled THEN <<"docker">> ELSE AddHook("cgroup")
           s1 == <<"loglimit">> \o AddHook("zfs")
           s2 == s1 \o AddHook("btrfs")
           s3 == s2 \o D
           s4 == s3 \o AddHook("execOnSuccess")
           Before(s) == /\ s \in Seq(HookNames) /\ Len(s) >= 1 /\ s[1] = "loglimit"
                        /\ \A n \in 2..Len(s) : s[n] \notin {"loglimit", "docker"}
           After(s) == /\ s \in Seq(HookNames) /\ Len(s) >= 1 /\ s[1] = "loglimit"
                       /\ \A n \in 2..Len(s) : s[n] # "loglimit"
                       /\ \A m, n \in 1..Len(s) : s[m] = "docker" /\ s[n] = "docker" => m = n
                       /\ "docker" \in Enabled <=> \E n \in 1..Len(s) : s[n] = "docker"
<1>0. {"loglimit", "zfs", "btrfs", "docker", "cgroup", "execOnSuccess",
       "execOnFailure"} \subseteq HookNames
  BY DEF HookNames, Optional
<1>1. ASSUME NEW s, NEW h \in HookNames \ {"loglimit", "docker"}, Before(s)
      PROVE  Before(s \o AddHook(h))
  <2>1. AddHook(h) = <<>> \/ AddHook(h) = <<h>>
    BY DEF AddHook
  <2> QED
    BY <1>1, <2>1, AddHookCases
<1>2. ASSUME NEW s, NEW h \in HookNames \ {"loglimit", "docker"}, After(s)
      PROVE  After(s \o AddHook(h))
  <2>1. AddHook(h) = <<>> \/ AddHook(h) = <<h>>
    BY DEF AddHook
  <2> QED
    BY <1>2, <2>1, AddHookCases
<1>3. Before(<<"loglimit">>)
  BY <1>0
<1>4. Before(s2)
  <2>1. Before(s1)
    BY <1>0, <1>1, <1>3
  <2> HIDE DEF s1, Before
  <2> QED
    BY <1>0, <1>1, <2>1
<1>5. After(s3)
  <2> HIDE DEF s2
  <2>1. CASE "docker" \in Enabled
    <3>1. D = <<"docker">>
      BY <2>1
    <3> HIDE DEF D
    <3> QED
      BY <1>0, <1>4, <2>1, <3>1, AddHookCases
  <2>2. CASE "docker" \notin Enabled
    <3>1. D = <<>> \/ D = <<"cgroup">>
      BY <2>2 DEF AddHook
    <3> HIDE DEF D
    <3> QED
      BY <1>0, <1>4, <2>2, <3>1, AddHookCases
  <2> QED
    BY <2>1, <2>2
<1>6. After(s4)
  <2> HIDE DEF s3, After
  <2> QED
    BY <1>0, <1>2, <1>5
<1>7. After(s4 \o AddHook("execOnFailure"))
  <2> HIDE DEF s4, After
  <2> QED
    BY <1>0, <1>2, <1>6
<1>8. HookList = s4 \o AddHook("execOnFailure")
  BY DEF HookList
<1> QED
  BY <1>7, <1>8

\* Every hook of a post stage is that of the list, from its end.
LEMMA HooksOfFacts ==
    ASSUME NEW stage
    PROVE  IF stage \in {"preJob", "preExec"} THEN HooksOf(stage) = HookList
           ELSE \A n \in 1..Len(HookList) :
                   HooksOf(stage)[n] = HookList[(Len(HookList) - n) + 1]
BY HookListFacts DEF HooksOf, Reverse

\* Get finds the top layer, or the one below if the key is not set in the top.
LEMMA GetTop ==
    ASSUME NEW ctx \in Seq(Layers), NEW key \in {"log", "volumes"},
           NEW n \in 1..Len(ctx), ctx[n][key] # NoVal,
           \A m \in (n + 1)..Len(ctx) : ctx[m][key] = NoVal
    PROVE  Get(ctx, key) = ctx[n][key]
<1> DEFINE has == {m \in DOMAIN ctx : ctx[m][key] # NoVal}
<1>1. n \in has /\ \A m \in has : n >= m
  OBVIOUS
<1>2. \A m \in has : (\A y \in has : m >= y) => m = n
  BY <1>1
<1>3. Max(has) = n
  BY <1>1, <1>2 DEF Max
<1> QED
  BY <1>1, <1>3 DEF Get

\* Unlinking a file leaves the others, in their order.
LEMMA UnlinkedFacts ==
    ASSUME dir \in Seq(Entries), NamesDistinct, NEW f
    PROVE  /\ Unlinked(f) \in Seq(Entries)
           /\ Len(Unlinked(f)) <= Len(dir)
           /\ \A n \in DOMAIN Unlinked(f) :
                 \E m \in DOMAIN dir : Unlinked(f)[n] = dir[m] /\ dir[m].name # f
           /\ \A m \in DOMAIN dir : dir[m].name # f =>
                 \E n \in DOMAIN Unlinked(f) : Unlinked(f)[n] = dir[m]
           /\ \A m, n \in DOMAIN Unlinked(f) :
                 Unlinked(f)[m].name = Unlinked(f)[n].name => m = n
<1>1. CASE Named(f) = {}
  <2>1. Unlinked(f) = dir
    BY <1>1 DEF Unlinked, RemoveFirstMatch, Named
  <2> QED
    BY <1>1, <2>1 DEF Named, NamesDistinct
<1>2. CASE Named(f) # {}
  <2>1. PICK k \in 1..Len(dir) : dir[k].name = f
    BY <1>2 DEF Named
  <2>2. {n \in 1..Len(dir) : dir[n].name = f} = {k}
    BY <2>1 DEF NamesDistinct
  <2>3. Min({k}) = k
    BY DEF Min
  <2>4. Unlinked(f) = SubSeq(dir, 1, k - 1) \o SubSeq(dir, k + 1, Len(dir))
    BY <2>1, <2>2, <2>3 DEF Unlinked, RemoveFirstMatch, SelectInSeq, RemoveAt
  <2>5. /\ Unlinked(f) \in Seq(Entries)
        /\ Len(Unlinked(f)) = Len(dir) - 1
        /\ \A n \in 1..(Len(dir) - 1) :
              Unlinked(f)[n] = IF n < k THEN dir[n] ELSE dir[n + 1]
    <3>1. /\ SubSeq(dir, 1, k - 1) \in Seq(Entries)
          /\ Len(SubSeq(dir, 1, k - 1)) = k - 1
          /\ \A n \in 1..(k - 1) : SubSeq(dir, 1, k - 1)[n] = dir[n]
      <4>1. \A n \in 1..(k - 1) : dir[n] \in Entries
        OBVIOUS
      <4> QED
        BY <4>1, SubSeqProperties
    <3>2. /\ SubSeq(dir, k + 1, Len(dir)) \in Seq(Entries)
          /\ Len(SubSeq(dir, k + 1, Len(dir))) = Len(dir) - k
          /\ \A n \in 1..(Len(dir) - k) :
                SubSeq(dir, k + 1, Len(dir))[n] = dir[k + n]
      <4> DEFINE a == k + 1
                 b == Len(dir)
      <4>1. a \in Int /\ b \in Int /\ \A n \in a..b : dir[n] \in Entries
        OBVIOUS
      <4>2. b - a + 1 = Len(dir) - k /\ \A n \in Int : a + n - 1 = k + n
        OBVIOUS
      <4>3. (IF a <= b THEN b - a + 1 ELSE 0) = Len(dir) - k
        OBVIOUS
      <4> HIDE DEF a, b
      <4>4. /\ SubSeq(dir, a, b) \in Seq(Entries)
            /\ Len(SubSeq(dir, a, b)) = IF a <= b THEN b - a + 1 ELSE 0
            /\ \A n \in 1..(b - a + 1) : SubSeq(dir, a, b)[n] = dir[a + n - 1]
        BY <4>1, SubSeqProperties
      <4>5. \A n \in 1..(Len(dir) - k) : SubSeq(dir, a, b)[n] = dir[k + n]
        BY <4>2, <4>4
      <4> QED
        BY <4>3, <4>4, <4>5 DEF a, b
    <3> DEFINE s1 == SubSeq(dir, 1, k - 1)
               s2 == SubSeq(dir, k + 1, Len(dir))
    <3>3. /\ s1 \o s2 \in Seq(Entries)
          /\ Len(s1 \o s2) = Len(s1) + Len(s2)
          /\ \A n \in 1..(Len(s1) + Len(s2)) :
                (s1 \o s2)[n] = IF n <= Len(s1) THEN s1[n] ELSE s2[n - Len(s1)]
      BY <3>1, <3>2, ConcatProperties
    <3>4. Len(s1) = k - 1 /\ Len(s2) = Len(dir) - k
      BY <3>1, <3>2
    <3>5. \A n \in 1..(k - 1) : s1[n] = dir[n]
      BY <3>1
    <3>6. \A n \in 1..(Len(dir) - k) : s2[n] = dir[k + n]
      BY <3>2
    <3>7. Unlinked(f) = s1 \o s2
      BY <2>4
    <3> HIDE DEF s1, s2
    <3>8. ASSUME NEW n \in 1..(Len(dir) - 1)
          PROVE  Unlinked(f)[n] = IF n < k THEN dir[n] ELSE dir[n + 1]
      <4>1. CASE n < k
        BY <3>3, <3>4, <3>5, <3>7, <4>1
      <4>2. CASE ~(n < k)
        <5>1. (s1 \o s2)[n] = s2[n - (k - 1)]
          BY <3>3, <3>4, <4>2
        <5>2. n - (k - 1) \in 1..(Len(dir) - k) /\ k + (n - (k - 1)) = n + 1
          BY <4>2
        <5> QED
          BY <3>6, <3>7, <4>2, <5>1, <5>2
      <4> QED BY <4>1, <4>2
    <3>9. Len(s1) + Len(s2) = Len(dir) - 1
      BY <3>4
    <3> QED
      BY <3>3, <3>7, <3>8, <3>9
  <2>6. \A m \in 1..Len(dir) : dir[m].name # f =>
            \E n \in 1..(Len(dir) - 1) : Unlinked(f)[n] = dir[m]
    <3> SUFFICES ASSUME NEW m \in 1..Len(dir), dir[m].name # f
                 PROVE  \E n \in 1..(Len(dir) - 1) : Unlinked(f)[n] = dir[m]
      OBVIOUS
    <3>1. m # k
      BY <2>1
    <3>2. CASE m < k
      BY <2>5, <3>2
    <3>3. CASE m > k
      <4>1. m - 1 \in 1..(Len(dir) - 1) /\ Unlinked(f)[m - 1] = dir[m]
        BY <2>5, <3>3
      <4> QED BY <4>1
    <3> QED BY <3>1, <3>2, <3>3
  <2>7. \A n \in 1..(Len(dir) - 1) :
            \E m \in 1..Len(dir) : Unlinked(f)[n] = dir[m] /\ dir[m].name # f
    <3> SUFFICES ASSUME NEW n \in 1..(Len(dir) - 1)
                 PROVE  \E m \in 1..Len(dir) : Unlinked(f)[n] = dir[m] /\ dir[m].name # f
      OBVIOUS
    <3>1. \A m \in 1..Len(dir) : m # k => dir[m].name # f
      BY <2>1 DEF NamesDistinct
    <3>2. CASE n < k
      <4>1. n \in 1..Len(dir) /\ n # k /\ Unlinked(f)[n] = dir[n]
        BY <2>5, <3>2
      <4> QED BY <3>1, <4>1
    <3>3. CASE ~(n < k)
      <4>1. n + 1 \in 1..Len(dir) /\ n + 1 # k /\ Unlinked(f)[n] = dir[n + 1]
        BY <2>5, <3>3
      <4> QED BY <3>1, <4>1
    <3> QED BY <3>2, <3>3
  <2>8. \A m, n \in 1..(Len(dir) - 1) :
            Unlinked(f)[m].name = Unlinked(f)[n].name => m = n
    BY <2>5 DEF NamesDistinct
  <2>9. DOMAIN Unlinked(f) = 1..(Len(dir) - 1) /\ DOMAIN dir = 1..Len(dir)
    BY <2>5, LenProperties
  <2>10. Unlinked(f) \in Seq(Entries) /\ Len(Unlinked(f)) <= Len(dir)
    BY <2>5
  <2> QED
    BY <2>6, <2>7, <2>8, <2>9, <2>10
<1> QED
  BY <1>1, <1>2

-----------------------------------------------------------------------------
(***************************************************************************)
(* Which hook is called when.                                              *)
(***************************************************************************)

\* The log limiter comes first before the sync and last after it.
LEMMA LogLimitCalls ==
    ASSUME HooksTypeOK, NEW stage \in Stages, pc = stage, i <= Len(HookList)
    PROVE  /\ stage \in {"preJob", "preExec"} => (Calls(stage, "loglimit") <=> i = 1)
           /\ stage \notin {"preJob", "preExec"} =>
                 (Calls(stage, "loglimit") <=> i = Len(HookList))
<1>1. i \in 1..Len(HookList)
  BY HookListFacts DEF HooksTypeOK
<1>2. CASE stage \in {"preJob", "preExec"}
  BY <1>1, <1>2, HookListFacts, HooksOfFacts DEF Calls
<1>3. CASE stage \notin {"preJob", "preExec"}
  <2>1. HooksOf(stage)[i] = HookList[(Len(HookList) - i) + 1]
    BY <1>1, <1>3, HooksOfFacts
  <2>2. (Len(HookList) - i) + 1 \in 1..Len(HookList)
    BY <1>1, HookListFacts
  <2> QED
    BY <1>1, <1>3, <2>1, <2>2, HookListFacts DEF Calls
<1> QED
  BY <1>2, <1>3

\* The docker hook is called once before the sync and once after it.
LEMMA DockerCalls ==
    ASSUME HooksTypeOK
    PROVE  /\ Calls("preExec", "docker") =>
                 i > 1 /\ ~Mounted /\ \E n \in 1..i : HookList[n] = "docker"
           /\ Calls("postExec", "docker") =>
                 Mounted /\ ~\E n \in (i + 1)..Len(HookList) :
                                HooksOf("postExec")[n] = "docker"
<1>1. ASSUME Calls("preExec", "docker")
      PROVE  i > 1 /\ ~Mounted /\ \E n \in 1..i : HookList[n] = "docker"
  <2>1. pc = "preExec" /\ i \in 1..Len(HookList) /\ HookList[i] = "docker"
    BY <1>1, HookListFacts, HooksOfFacts DEF Calls, HooksTypeOK
  <2> QED
    BY <2>1, HookListFacts DEF Mounted
<1>2. ASSUME Calls("postExec", "docker")
      PROVE  Mounted /\ ~\E n \in (i + 1)..Len(HookList) :
                            HooksOf("postExec")[n] = "docker"
  <2>1. pc = "postExec" /\ i \in 1..Len(HookList) /\ HooksOf("postExec")[i] = "docker"
    BY <1>2, HookListFacts DEF Calls, HooksTypeOK
  <2>2. \A n \in 1..Len(HookList) :
            HooksOf("postExec")[n] = HookList[(Len(HookList) - n) + 1]
    BY HooksOfFacts
  <2>3. ASSUME NEW n \in (i + 1)..Len(HookList), HooksOf("postExec")[n] = "docker"
        PROVE  FALSE
    <3>1. n \in 1..Len(HookList) /\ n # i
      BY <2>1, HookListFacts
    <3>2. /\ (Len(HookList) - n) + 1 \in 1..Len(HookList)
          /\ (Len(HookList) - i) + 1 \in 1..Len(HookList)
      BY <2>1, <3>1, HookListFacts
    <3>3. (Len(HookList) - n) + 1 = (Len(HookList) - i) + 1
      BY <2>1, <2>2, <2>3, <3>1, <3>2, HookListFacts
    <3> QED
      BY <2>1, <3>1, <3>3, HookListFacts
  <2>4. Mounted
    BY <2>1, HookListFacts DEF Mounted
  <2> QED
    BY <2>3, <2>4
<1> QED
  BY <1>1, <1>2

\* Other calls neither mount nor unmount.
LEMMA MountedKept ==
    ASSUME HooksTypeOK, i <= Len(HookList), ~Calls(pc, "docker"), pc # "sync",
           pc' = pc, i' = i + 1
    PROVE  Mounted' <=> Mounted
<1>1. CASE pc = "preExec"
  <2>1. HookList[i] # "docker"
    BY <1>1, HookListFacts, HooksOfFacts DEF Calls, HooksTypeOK
  <2>2. \A n \in 1..i : n = i \/ n \in 1..(i - 1)
    BY DEF HooksTypeOK
  <2>3. \A n \in 1..(i - 1) : n \in 1..i
    BY DEF HooksTypeOK
  <2>4. i' - 1 = i
    BY DEF HooksTypeOK
  <2> QED
    BY <1>1, <2>1, <2>2, <2>3, <2>4 DEF Mounted
<1>2. CASE pc = "postExec"
  <2>1. HooksOf("postExec")[i] # "docker"
    BY <1>2 DEF Calls
  <2>2. \A n \in i..Len(HookList) : n = i \/ n \in (i + 1)..Len(HookList)
    BY HookListFacts DEF HooksTypeOK
  <2>3. \A n \in (i + 1)..Len(HookList) : n \in i..Len(HookList)
    BY HookListFacts DEF HooksTypeOK
  <2> QED
    BY <1>2, <2>1, <2>2, <2>3 DEF Mounted
<1> QED
  BY <1>1, <1>2 DEF Mounted

\* While the layer of the try is entered, LogFile() is what "latest" points to,
\* and what is mounted.
LEMMA LogFileIsLatest ==
    ASSUME HooksInv, InTry
    PROVE  LogFile = latest /\ (Mounted => Volumes = latest)
<1> DEFINE top == Len(layers)
<1>1. latest # NoVal
  BY HooksAssumption DEF HooksInv, LayersOfTry, Files
<1>2. layers \in Seq(Layers) /\ top \in Nat
  BY DEF HooksInv, HooksTypeOK
<1>3. CASE Mounted
  <2>1. /\ top >= 3 /\ layers[top] = [log |-> NoVal, volumes |-> latest]
        /\ layers[top - 1] = [log |-> latest, volumes |-> NoVal]
    BY <1>3 DEF HooksInv, LayersOfTry
  <2>2. LogFile = layers[top - 1].log
    <3>1. top - 1 \in 1..Len(layers) /\ layers[top - 1]["log"] # NoVal
      BY <1>1, <1>2, <2>1
    <3>2. \A m \in ((top - 1) + 1)..Len(layers) : layers[m]["log"] = NoVal
      BY <1>2, <2>1
    <3> QED BY <1>2, <3>1, <3>2, GetTop DEF LogFile
  <2>3. Volumes = layers[top].volumes
    <3>1. top \in 1..Len(layers) /\ layers[top]["volumes"] # NoVal
      BY <1>1, <1>2, <2>1
    <3>2. \A m \in (top + 1)..Len(layers) : layers[m]["volumes"] = NoVal
      BY <1>2
    <3> QED BY <1>2, <3>1, <3>2, GetTop DEF Volumes
  <2> QED
    BY <2>1, <2>2, <2>3
<1>4. CASE ~Mounted
  <2>1. top >= 2 /\ layers[top] = [log |-> latest, volumes |-> NoVal]
    BY <1>4 DEF HooksInv, LayersOfTry
  <2>2. LogFile = layers[top].log
    <3>1. top \in 1..Len(layers) /\ layers[top]["log"] # NoVal
      BY <1>1, <1>2, <2>1
    <3>2. \A m \in (top + 1)..Len(layers) : layers[m]["log"] = NoVal
      BY <1>2
    <3> QED BY <1>2, <3>1, <3>2, GetTop DEF LogFile
  <2> QED
    BY <1>4, <2>1, <2>2
<1> QED
  BY <1>3, <1>4
-----------------------------------------------------------------------------
(***************************************************************************)
(* The steps that move the run on and leave layers and logs alone.         *)
(***************************************************************************)

LEMMA ControlStep ==
    ASSUME HooksInv, HooksTypeOK', UNCHANGED <<layers, dir, latest, logged>>,
           minute' >= minute, try' = try \/ ~logged,
           InTry' => InTry /\ (Mounted' <=> Mounted),
           pc' = "preExec" /\ i' > 1 => pc = "preExec" /\ i > 1,
           pc' = "sync" /\ logged => pc = "sync",
           \/ pc' \in {"idle", "postSuccess"}
           \/ pc \notin {"idle", "postSuccess"} /\ (InTry => InTry')
           \/ SameMinute \/ NewMinute
    PROVE  /\ NeverBelowBottom' /\ LayersOfTry' /\ NamesDistinct'
           /\ DirBounded' /\ LatestThere' /\ LogsOlder'
<1>1. NeverBelowBottom' /\ NamesDistinct' /\ LatestThere'
  BY DEF HooksInv, NeverBelowBottom, NamesDistinct, LatestThere, Named
<1>2. LayersOfTry'
  BY DEF HooksInv, LayersOfTry
<1>3. DirBounded'
  BY DEF HooksInv, DirBounded
<1>4. ASSUME ~SameMinute, pc' \notin {"idle", "postSuccess"}, NEW n \in DOMAIN dir'
      PROVE  (dir[n].name.fail \/ (InTry /\ dir[n].name = latest)
                 \/ dir[n].name.minute < minute)'
  <2>0. n \in DOMAIN dir /\ dir[n] \in Entries
    BY <1>4 DEF HooksInv, HooksTypeOK
  <2>1. dir[n].name.minute \in Nat /\ minute \in Nat /\ minute' \in Nat
    BY <2>0 DEF HooksInv, HooksTypeOK, Entries, Files
  <2>2. CASE NewMinute
    BY <2>0, <2>1, <2>2 DEF NewMinute
  <2>3. CASE pc \notin {"idle", "postSuccess"} /\ (InTry => InTry')
    BY <1>4, <2>0, <2>1, <2>3 DEF HooksInv, LogsOlder
  <2> QED
    BY <1>4, <2>2, <2>3
<1>5. LogsOlder'
  <2>1. ~SameMinute /\ InTry' /\ ~logged' => Named(latest)' = {}
    BY DEF HooksInv, LogsOlder, Named
  <2>2. ~SameMinute /\ pc' = "sync" /\ logged' =>
            \A n \in Named(latest)' : dir'[n].of = {try'}
    BY DEF HooksInv, LogsOlder, Named
  <2> QED
    BY <1>4, <2>1, <2>2 DEF LogsOlder
<1> QED
  BY <1>1, <1>2, <1>3, <1>5

LEMMA StartRunInv == ASSUME HooksInv, StartRun PROVE HooksInv'
<1>1. HooksTypeOK'
  BY HookListFacts DEF HooksInv, HooksTypeOK, StartRun, Stages
<1>2. ~InTry'
  BY DEF StartRun, InTry
<1>3. /\ NeverBelowBottom' /\ LayersOfTry' /\ NamesDistinct'
      /\ DirBounded' /\ LatestThere' /\ LogsOlder'
  BY <1>1, <1>2, ControlStep DEF StartRun, HooksInv, HooksTypeOK
<1>4. WorkSynced' /\ SnapshotIsSynced'
  BY DEF HooksInv, StartRun, WorkSynced, SnapshotIsSynced
<1> QED
  BY <1>1, <1>3, <1>4 DEF HooksInv

LEMMA StageDoneInv == ASSUME HooksInv, StageDone PROVE HooksInv'
<1>0. /\ i > Len(HookList) /\ i' = 1 /\ pc \in Stages
      /\ UNCHANGED <<layers, dir, latest, work, snapshot, outcome, run, logged, minute>>
  BY DEF StageDone
<1>1. HooksTypeOK'
  BY HooksAssumption, HookListFacts DEF HooksInv, HooksTypeOK, StageDone, Stages
<1>2. InTry' => InTry /\ (Mounted' <=> Mounted)
  <2>1. CASE pc = "preExec" /\ pc' = "sync"
    <3>1. InTry
      BY <2>1, <1>0, HookListFacts DEF InTry, HooksInv, HooksTypeOK
    <3>2. i - 1 = Len(HookList)
      BY <1>0, HookListFacts DEF HooksInv, HooksTypeOK
    <3> QED
      BY <2>1, <3>1, <3>2, HookListFacts DEF Mounted
  <2>2. CASE pc = "postExec" /\ pc' \in {"postSuccess", "postFail"}
    BY <1>0, <2>2, HookListFacts DEF InTry, Mounted, HooksInv, HooksTypeOK
  <2> QED
    BY <1>0, <2>1, <2>2 DEF InTry, StageDone
<1>3. /\ NeverBelowBottom' /\ LayersOfTry' /\ NamesDistinct'
      /\ DirBounded' /\ LatestThere' /\ LogsOlder'
  <2>1. pc' = "sync" => ~logged
    BY <1>0, HookListFacts DEF StageDone, HooksInv, HooksTypeOK, DirBounded
  <2>2. try' = try \/ ~logged
    BY <1>0, <2>1 DEF StageDone
  <2>3. \/ pc' \in {"idle", "postSuccess"}
        \/ pc \notin {"idle", "postSuccess"} /\ (InTry => InTry')
    BY <1>0, HookListFacts DEF StageDone, InTry, HooksInv, HooksTypeOK
  <2> QED
    BY <1>0, <1>1, <1>2, <2>1, <2>2, <2>3, ControlStep DEF HooksInv, HooksTypeOK
<1>4. WorkSynced' /\ SnapshotIsSynced'
  BY DEF HooksInv, StageDone, WorkSynced, SnapshotIsSynced
<1> QED
  BY <1>1, <1>3, <1>4 DEF HooksInv
\* A call that returns nil and neither enters nor leaves a layer.
LEMMA PlainCall ==
    ASSUME HooksInv, NEW stage \in Stages, NEW h, Calls(stage, h), Returns,
           \/ h \notin {"loglimit", "docker"}
           \/ <<stage, h>> \notin Acting,
           HooksTypeOK', UNCHANGED <<layers, dir, latest, logged>>
    PROVE  /\ NeverBelowBottom' /\ LayersOfTry' /\ NamesDistinct'
           /\ DirBounded' /\ LatestThere' /\ LogsOlder'
<1>0. /\ pc = stage /\ i <= Len(HookList) /\ HooksOf(stage)[i] = h
      /\ i' = i + 1 /\ UNCHANGED <<pc, retry, outcome, run, try, minute>>
  BY DEF Calls, Returns
<1>1. ~Calls(stage, "docker") \/ stage \notin {"preExec", "postExec"}
  BY DEF Calls, Acting
<1>2. Mounted' <=> Mounted
  <2>1. CASE ~Calls(stage, "docker")
    BY <1>0, <2>1, MountedKept DEF HooksInv, Stages
  <2>2. CASE stage \notin {"preExec", "postExec"}
    BY <1>0, <2>2 DEF Mounted, Stages
  <2> QED
    BY <1>1, <2>1, <2>2
<1>3. stage \in {"preExec", "postSuccess", "postFail"} => ~Calls(stage, "loglimit")
  BY DEF Calls, Acting
<1>4. stage = "preExec" => i > 1
  BY <1>0, <1>3, LogLimitCalls DEF HooksInv, HooksTypeOK
<1>5. stage \in {"postSuccess", "postFail"} => i < Len(HookList)
  BY <1>0, <1>3, LogLimitCalls, HookListFacts DEF HooksInv, HooksTypeOK
<1>6. InTry <=> InTry'
  BY <1>0, <1>4, <1>5, HookListFacts DEF InTry, HooksInv, HooksTypeOK, Stages
<1>7. pc' # "sync" /\ pc # "idle"
  BY <1>0 DEF Stages
<1> QED
  BY <1>0, <1>2, <1>4, <1>6, <1>7, ControlStep DEF HooksInv, HooksTypeOK

LEMMA OtherHookInv == ASSUME HooksInv, OtherHook PROVE HooksInv'
<1>1. PICK stage \in Stages, h \in Optional \cup {"loglimit"} :
          Calls(stage, h) /\ <<stage, h>> \notin Acting
  BY DEF OtherHook
<1>2. HooksTypeOK'
  BY <1>1, HookListFacts DEF HooksInv, HooksTypeOK, OtherHook, Returns, Calls
<1>3. /\ NeverBelowBottom' /\ LayersOfTry' /\ NamesDistinct'
      /\ DirBounded' /\ LatestThere' /\ LogsOlder'
  BY <1>1, <1>2, PlainCall DEF OtherHook
<1>4. WorkSynced' /\ SnapshotIsSynced'
  BY DEF HooksInv, OtherHook, Returns, WorkSynced, SnapshotIsSynced
<1> QED
  BY <1>2, <1>3, <1>4 DEF HooksInv

LEMMA BtrfsInv == ASSUME HooksInv, BtrfsPreJob \/ BtrfsPostSuccess PROVE HooksInv'
<1>1. PICK stage \in {"preJob", "postSuccess"} : Calls(stage, "btrfs") /\ Returns
  BY DEF BtrfsPreJob, BtrfsPostSuccess
<1>2. UNCHANGED <<layers, dir, latest, logged>>
  BY DEF BtrfsPreJob, BtrfsPostSuccess
<1>3. HooksTypeOK'
  BY <1>1, HookListFacts
     DEF HooksInv, HooksTypeOK, BtrfsPreJob, BtrfsPostSuccess, Returns, Calls, Contents
<1>4. /\ NeverBelowBottom' /\ LayersOfTry' /\ NamesDistinct'
      /\ DirBounded' /\ LatestThere' /\ LogsOlder'
  BY <1>1, <1>2, <1>3, PlainCall DEF Stages
<1>5. WorkSynced' /\ SnapshotIsSynced'
  BY DEF HooksInv, BtrfsPreJob, BtrfsPostSuccess, Returns, Calls, WorkSynced,
         SnapshotIsSynced
<1> QED
  BY <1>3, <1>4, <1>5 DEF HooksInv

\* A failing hook or a failing Terminate leaves the layers where they are.
LEMMA FailureInv == ASSUME HooksInv, HookFails \/ TerminateFails PROVE HooksInv'
<1>1. /\ EndRun /\ UNCHANGED <<layers, dir, latest, work, logged, retry, outcome,
                               run, try, minute>>
      /\ snapshot' = snapshot \/ snapshot' = "none"
  BY DEF HookFails, Fails, TerminateFails
<1>2. HooksTypeOK'
  BY <1>1, HookListFacts DEF HooksInv, HooksTypeOK, EndRun, Contents
<1>3. ~InTry'
  BY <1>1 DEF EndRun, InTry
<1>4. /\ NeverBelowBottom' /\ LayersOfTry' /\ NamesDistinct'
      /\ DirBounded' /\ LatestThere' /\ LogsOlder'
  BY <1>1, <1>2, <1>3, ControlStep DEF EndRun, HooksInv, HooksTypeOK
<1>5. WorkSynced' /\ SnapshotIsSynced'
  BY <1>1 DEF HooksInv, EndRun, WorkSynced, SnapshotIsSynced
<1> QED
  BY <1>2, <1>4, <1>5 DEF HooksInv

LEMMA SyncEndsInv == ASSUME HooksInv, SyncEnds PROVE HooksInv'
<1>0. /\ pc = "sync" /\ pc' = "postExec" /\ i' = 1
      /\ UNCHANGED <<layers, dir, latest, snapshot, retry, run, try, logged, minute>>
  BY DEF SyncEnds
<1>1. HooksTypeOK'
  BY HookListFacts DEF HooksInv, HooksTypeOK, SyncEnds, Stages, Contents
<1>2. InTry /\ InTry'
  BY <1>0 DEF InTry
<1>3. Mounted' <=> Mounted
  <2>1. \A n \in 1..Len(HookList) :
            HooksOf("postExec")[n] = HookList[(Len(HookList) - n) + 1]
    BY HooksOfFacts
  <2>2. (\E n \in 1..Len(HookList) : HooksOf("postExec")[n] = "docker")
            <=> \E n \in 1..Len(HookList) : HookList[n] = "docker"
    <3>1. ASSUME NEW n \in 1..Len(HookList)
          PROVE  /\ (Len(HookList) - n) + 1 \in 1..Len(HookList)
                 /\ HooksOf("postExec")[(Len(HookList) - n) + 1] = HookList[n]
      <4>1. /\ (Len(HookList) - n) + 1 \in 1..Len(HookList)
            /\ (Len(HookList) - ((Len(HookList) - n) + 1)) + 1 = n
        BY HookListFacts
      <4> QED BY <2>1, <4>1
    <3> QED BY <2>1, <3>1
  <2> QED
    BY <1>0, <2>2, HookListFacts DEF Mounted
<1>4. /\ NeverBelowBottom' /\ LayersOfTry' /\ NamesDistinct'
      /\ DirBounded' /\ LatestThere' /\ LogsOlder'
  BY <1>0, <1>1, <1>2, <1>3, ControlStep DEF HooksInv, HooksTypeOK
<1>5. WorkSynced' /\ SnapshotIsSynced'
  BY DEF HooksInv, SyncEnds, WorkSynced, SnapshotIsSynced
<1> QED
  BY <1>1, <1>4, <1>5 DEF HooksInv

LEMMA TickInv == ASSUME HooksInv, Tick PROVE HooksInv'
<1>1. HooksTypeOK' /\ minute' >= minute
  BY DEF HooksInv, HooksTypeOK, Tick
<1>2. (InTry <=> InTry') /\ (Mounted <=> Mounted')
  BY DEF InTry, Mounted, Tick
<1>3. /\ NeverBelowBottom' /\ LayersOfTry' /\ NamesDistinct'
      /\ DirBounded' /\ LatestThere' /\ LogsOlder'
  <2>1. CASE pc \in {"idle", "postSuccess"}
    BY <1>1, <1>2, <2>1, ControlStep DEF Tick
  <2>2. CASE pc \notin {"idle", "postSuccess"}
    BY <1>1, <1>2, <2>2, ControlStep DEF Tick
  <2> QED BY <2>1, <2>2
<1>4. WorkSynced' /\ SnapshotIsSynced'
  BY DEF HooksInv, Tick, WorkSynced, SnapshotIsSynced
<1> QED
  BY <1>1, <1>3, <1>4 DEF HooksInv
-----------------------------------------------------------------------------
(***************************************************************************)
(* The steps that enter or leave a layer.                                  *)
(***************************************************************************)

\* Leaving a context drops the top layer and keeps the rest.
LEMMA FrontFacts ==
    ASSUME NEW S, NEW s \in Seq(S), Len(s) >= 1
    PROVE  /\ Front(s) \in Seq(S) /\ Len(Front(s)) = Len(s) - 1
           /\ \A n \in 1..(Len(s) - 1) : Front(s)[n] = s[n]
<1> DEFINE b == Len(s) - 1
<1>1. b \in Nat /\ \A n \in 1..b : s[n] \in S
  OBVIOUS
<1> HIDE DEF b
<1>2. (IF 1 <= b THEN b - 1 + 1 ELSE 0) = b /\ \A n \in 1..b : 1 + n - 1 = n
  BY <1>1
<1>3. b - 1 + 1 = b
  BY <1>1
<1>4. /\ SubSeq(s, 1, b) \in Seq(S)
      /\ Len(SubSeq(s, 1, b)) = IF 1 <= b THEN b - 1 + 1 ELSE 0
      /\ \A n \in 1..(b - 1 + 1) : SubSeq(s, 1, b)[n] = s[1 + n - 1]
  BY <1>1, SubSeqProperties
<1>5. \A n \in 1..b : SubSeq(s, 1, b)[n] = s[n]
  BY <1>2, <1>3, <1>4
<1>6. Front(s) = SubSeq(s, 1, b)
  BY DEF Front, b
<1> QED
  BY <1>2, <1>4, <1>5, <1>6 DEF b

LEMMA DockerPreExecInv == ASSUME HooksInv, DockerPreExec PROVE HooksInv'
<1>0. /\ pc = "preExec" /\ i > 1 /\ i <= Len(HookList) /\ ~Mounted /\ i' = i + 1
      /\ \E n \in 1..i : HookList[n] = "docker"
      /\ UNCHANGED <<dir, latest, work, snapshot, logged, pc, retry, outcome, run,
                     try, minute>>
  BY DockerCalls DEF HooksInv, DockerPreExec, Returns, Calls
<1>1. InTry /\ InTry'
  BY <1>0 DEF InTry, HooksInv, HooksTypeOK
<1>2. Mounted'
  <2>1. i' - 1 = i
    BY <1>0 DEF HooksInv, HooksTypeOK
  <2> QED BY <1>0, <2>1 DEF Mounted
<1>3. latest \in Files /\ layers' = Append(layers, [log |-> NoVal, volumes |-> latest])
  BY <1>1, LogFileIsLatest DEF DockerPreExec, EnterContext, HooksInv, LayersOfTry
<1>4. layers' \in Seq(Layers) /\ Len(layers') = Len(layers) + 1
  BY <1>3 DEF HooksInv, HooksTypeOK, Layers
<1>5. HooksTypeOK'
  BY <1>0, <1>4, HookListFacts DEF HooksInv, HooksTypeOK
<1>6. Len(layers) >= 2 /\ layers[Len(layers)] = [log |-> latest, volumes |-> NoVal]
  BY <1>0, <1>1 DEF HooksInv, LayersOfTry
<1>7. LayersOfTry' /\ NeverBelowBottom'
  <2>1. layers \in Seq(Layers) /\ Len(layers') - 1 = Len(layers)
    BY <1>4 DEF HooksInv, HooksTypeOK
  <2>2. layers'[Len(layers')] = [log |-> NoVal, volumes |-> latest]
    BY <1>3, <1>4, <2>1
  <2>3. layers'[Len(layers') - 1] = [log |-> latest, volumes |-> NoVal]
    BY <1>3, <1>6, <2>1
  <2>4. layers' # <<>> /\ layers'[1] = layers[1] /\ Len(layers') >= 3
    BY <1>3, <1>4, <1>6, <2>1
  <2>5. latest' = latest /\ ~latest.fail
    BY <1>0, <1>1 DEF HooksInv, LayersOfTry
  <2> QED
    BY <1>2, <1>3, <2>2, <2>3, <2>4, <2>5
       DEF HooksInv, LayersOfTry, NeverBelowBottom
<1>8. NamesDistinct' /\ DirBounded' /\ LatestThere'
  BY <1>0, <1>1 DEF HooksInv, NamesDistinct, DirBounded, LatestThere, Named
<1>9. LogsOlder'
  BY <1>0, <1>1 DEF HooksInv, LogsOlder, Named
<1>10. WorkSynced' /\ SnapshotIsSynced'
  BY <1>0 DEF HooksInv, WorkSynced, SnapshotIsSynced
<1> QED
  BY <1>5, <1>7, <1>8, <1>9, <1>10 DEF HooksInv

LEMMA DockerPostExecInv == ASSUME HooksInv, DockerPostExec PROVE HooksInv'
<1>0. /\ pc = "postExec" /\ i <= Len(HookList) /\ Mounted /\ i' = i + 1
      /\ ~\E n \in (i + 1)..Len(HookList) : HooksOf("postExec")[n] = "docker"
      /\ UNCHANGED <<dir, latest, work, snapshot, logged, pc, retry, outcome, run,
                     try, minute>>
  BY DockerCalls DEF HooksInv, DockerPostExec, Returns, Calls
<1>1. InTry /\ InTry'
  BY <1>0 DEF InTry
<1>2. ~Mounted'
  BY <1>0 DEF Mounted
<1>3. /\ Len(layers) >= 3 /\ latest \in Files /\ ~latest.fail
      /\ layers[Len(layers) - 1] = [log |-> latest, volumes |-> NoVal]
  BY <1>0, <1>1 DEF HooksInv, LayersOfTry
<1>4. /\ layers' \in Seq(Layers) /\ Len(layers') = Len(layers) - 1
      /\ \A n \in 1..(Len(layers) - 1) : layers'[n] = layers[n]
  BY <1>3, FrontFacts DEF DockerPostExec, ExitContext, HooksInv, HooksTypeOK
<1>5. HooksTypeOK'
  BY <1>0, <1>4, HookListFacts DEF HooksInv, HooksTypeOK
<1>6. LayersOfTry' /\ NeverBelowBottom'
  <2>1. layers \in Seq(Layers) /\ Len(layers) \in Nat
    BY DEF HooksInv, HooksTypeOK
  <2>2. 1 \in 1..(Len(layers) - 1) /\ Len(layers) - 1 \in 1..(Len(layers) - 1)
    BY <1>3, <2>1
  <2>3. layers' # <<>> /\ layers'[1] = layers[1] /\ Len(layers') >= 2
    BY <1>3, <1>4, <2>1, <2>2
  <2>4. layers'[Len(layers')] = [log |-> latest, volumes |-> NoVal]
    BY <1>3, <1>4, <2>2
  <2> QED
    BY <1>0, <1>2, <1>3, <2>3, <2>4 DEF HooksInv, LayersOfTry, NeverBelowBottom
<1>7. NamesDistinct' /\ DirBounded' /\ LatestThere'
  BY <1>0, <1>1 DEF HooksInv, NamesDistinct, DirBounded, LatestThere, Named
<1>8. LogsOlder'
  BY <1>0, <1>1 DEF HooksInv, LogsOlder, Named
<1>9. WorkSynced' /\ SnapshotIsSynced'
  BY <1>0 DEF HooksInv, WorkSynced, SnapshotIsSynced
<1> QED
  BY <1>5, <1>6, <1>7, <1>8, <1>9 DEF HooksInv

\* What is left of the log directory is entries of it, at most Keep of them.
LEMMA PrunedFacts ==
    ASSUME dir \in Seq(Entries), NamesDistinct
    PROVE  /\ Pruned \in Seq(Entries) /\ Len(Pruned) <= Keep
           /\ \A n \in 1..Len(Pruned) : \E m \in 1..Len(dir) : Pruned[n] = dir[m]
           /\ \A m, n \in 1..Len(Pruned) : Pruned[m].name = Pruned[n].name => m = n
<1> DEFINE a == IF Len(dir) > Keep THEN Len(dir) - Keep + 1 ELSE 1
           b == Len(dir)
<1>1. /\ a \in 1..(b + 1) /\ b \in Nat /\ b - a + 1 <= Keep
      /\ \A n \in a..b : dir[n] \in Entries
  BY HooksAssumption
<1>2. Pruned = SubSeq(dir, a, b) /\ DOMAIN dir = 1..b
  BY DEF Pruned
<1> HIDE DEF a, b
<1>3. /\ Pruned \in Seq(Entries)
      /\ Len(Pruned) = IF a <= b THEN b - a + 1 ELSE 0
      /\ \A n \in 1..(b - a + 1) : Pruned[n] = dir[a + n - 1]
  BY <1>1, <1>2, SubSeqProperties
<1>4. Len(Pruned) = b - a + 1
  BY <1>1, <1>3
<1>5. ASSUME NEW n \in 1..(b - a + 1)
      PROVE  a + n - 1 \in 1..b
  BY <1>1
<1>6. \A m, n \in 1..(b - a + 1) : Pruned[m].name = Pruned[n].name => m = n
  <2> SUFFICES ASSUME NEW m \in 1..(b - a + 1), NEW n \in 1..(b - a + 1),
                      Pruned[m].name = Pruned[n].name
               PROVE  m = n
    OBVIOUS
  <2>1. a + m - 1 = a + n - 1
    BY <1>2, <1>3, <1>5 DEF NamesDistinct
  <2> QED BY <1>1, <2>1
<1> QED
  BY <1>1, <1>3, <1>4, <1>5, <1>6 DEF b

LEMMA LogLimitPreExecInv == ASSUME HooksInv, LogLimitPreExec PROVE HooksInv'
<1>0. /\ pc = "preExec" /\ i = 1 /\ i' = 2 /\ dir' = Pruned /\ latest' = File(minute)
      /\ logged' = FALSE
      /\ layers' = Append(layers, [log |-> File(minute), volumes |-> NoVal])
      /\ UNCHANGED <<work, snapshot, pc, retry, outcome, run, try, minute>>
  BY LogLimitCalls
     DEF HooksInv, LogLimitPreExec, Returns, Calls, EnterContext, Stages
<1>1. InTry' /\ ~InTry
  BY <1>0 DEF InTry
<1>2. ~Mounted'
  <2>1. i' - 1 = 1
    BY <1>0
  <2> QED BY <1>0, <2>1, HookListFacts DEF Mounted
<1>3. latest' \in Files /\ ~latest'.fail /\ latest'.minute = minute
  BY <1>0 DEF File, Files, HooksInv, HooksTypeOK
<1>4. /\ layers' \in Seq(Layers) /\ Len(layers') = Len(layers) + 1
      /\ layers \in Seq(Layers) /\ layers # <<>> /\ layers[1] = Bottom
  BY <1>0, <1>3 DEF HooksInv, HooksTypeOK, Layers, NeverBelowBottom
<1>5. /\ dir' \in Seq(Entries) /\ Len(dir') <= Keep
      /\ \A n \in 1..Len(dir') : \E m \in 1..Len(dir) : dir'[n] = dir[m]
      /\ \A m, n \in 1..Len(dir') : dir'[m].name = dir'[n].name => m = n
  BY <1>0, PrunedFacts DEF HooksInv, HooksTypeOK
<1>6. HooksTypeOK'
  <2>1. i' \in Nat /\ i' >= 1 /\ i' <= Len(HookList) + 1
    BY <1>0, HookListFacts
  <2>2. layers' \in Seq(Layers) /\ dir' \in Seq(Entries) /\ latest' \in Files
    BY <1>3, <1>4, <1>5
  <2>3. logged' \in BOOLEAN
    BY <1>0
  <2> QED
    BY <1>0, <2>1, <2>2, <2>3 DEF HooksInv, HooksTypeOK
<1>7. LayersOfTry' /\ NeverBelowBottom'
  <2>1. Len(layers) >= 1 /\ Len(layers) \in Nat
    BY <1>4
  <2>2. layers'[Len(layers')] = [log |-> latest', volumes |-> NoVal]
    BY <1>0, <1>4
  <2>3. layers'[1] = Bottom /\ layers' # <<>> /\ Len(layers') >= 2
    BY <1>0, <1>4, <2>1
  <2> QED
    BY <1>2, <1>3, <2>2, <2>3 DEF LayersOfTry, NeverBelowBottom
<1>8. NamesDistinct' /\ DirBounded' /\ LatestThere'
  <2>1. DOMAIN dir' = 1..Len(dir') /\ Len(dir') \in Nat
    BY <1>5
  <2> QED
    BY <1>0, <1>5, <2>1, HooksAssumption DEF NamesDistinct, DirBounded, LatestThere
<1>9. LogsOlder'
  <2> SUFFICES ASSUME ~SameMinute PROVE LogsOlder'
    BY DEF LogsOlder
  <2>1. ASSUME NEW n \in DOMAIN dir'
        PROVE  dir'[n].name.fail \/ dir'[n].name.minute < minute
    <3>1. PICK m \in 1..Len(dir) : dir'[n] = dir[m]
      BY <1>5
    <3>2. m \in DOMAIN dir
      BY DEF HooksInv, HooksTypeOK
    <3> QED
      BY <1>0, <1>1, <3>1, <3>2 DEF HooksInv, LogsOlder
  <2>2. Named(latest)' = {}
    <3>1. ~(minute < minute)
      BY DEF HooksInv, HooksTypeOK
    <3> QED BY <1>3, <2>1, <3>1 DEF Named
  <2> QED
    BY <1>0, <2>1, <2>2 DEF LogsOlder
<1>10. WorkSynced' /\ SnapshotIsSynced'
  BY <1>0 DEF HooksInv, WorkSynced, SnapshotIsSynced
<1> QED
  BY <1>6, <1>7, <1>8, <1>9, <1>10 DEF HooksInv

\* The log limiter leaves its layer, which is not the bottom one.
LEMMA LogLimitLeaves ==
    ASSUME HooksInv, NEW stage \in {"postSuccess", "postFail"},
           Calls(stage, "loglimit"), ExitContext, Returns
    PROVE  /\ pc = stage /\ i = Len(HookList) /\ i' = i + 1
           /\ InTry /\ ~InTry' /\ LogFile = latest
           /\ layers' \in Seq(Layers) /\ NeverBelowBottom'
<1>1. pc = stage /\ i = Len(HookList) /\ i' = i + 1 /\ pc' = pc
  BY LogLimitCalls DEF HooksInv, Returns, Calls, Stages
<1>2. InTry /\ ~InTry'
  BY <1>1, HookListFacts DEF InTry, HooksInv, HooksTypeOK
<1>3. LogFile = latest /\ layers \in Seq(Layers) /\ Len(layers) >= 2
  BY <1>2, LogFileIsLatest DEF HooksInv, LayersOfTry, HooksTypeOK
<1>4. /\ layers' \in Seq(Layers) /\ Len(layers') = Len(layers) - 1
      /\ \A n \in 1..(Len(layers) - 1) : layers'[n] = layers[n]
  BY <1>3, FrontFacts DEF ExitContext
<1>5. NeverBelowBottom'
  <2>1. 1 \in 1..(Len(layers) - 1) /\ Len(layers') >= 1
    BY <1>3, <1>4
  <2>2. layers' # <<>> /\ layers'[1] = layers[1]
    BY <1>4, <2>1
  <2> QED BY <2>2 DEF NeverBelowBottom, HooksInv
<1> QED
  BY <1>1, <1>2, <1>3, <1>4, <1>5

LEMMA LogLimitPostSuccessInv == ASSUME HooksInv, LogLimitPostSuccess PROVE HooksInv'
<1>0. /\ pc = "postSuccess" /\ i = Len(HookList) /\ i' = i + 1 /\ InTry /\ ~InTry'
      /\ layers' \in Seq(Layers) /\ NeverBelowBottom'
      /\ UNCHANGED <<dir, latest, work, snapshot, logged, pc, retry, outcome, run,
                     try, minute>>
  BY LogLimitLeaves DEF LogLimitPostSuccess, Returns
<1>1. HooksTypeOK'
  BY <1>0, HookListFacts DEF HooksInv, HooksTypeOK
<1>2. LayersOfTry'
  BY <1>0 DEF LayersOfTry
<1>3. NamesDistinct' /\ DirBounded' /\ LatestThere'
  BY <1>0 DEF HooksInv, NamesDistinct, DirBounded, LatestThere, Named
<1>4. LogsOlder'
  BY <1>0 DEF LogsOlder
<1>5. WorkSynced' /\ SnapshotIsSynced'
  BY <1>0 DEF HooksInv, WorkSynced, SnapshotIsSynced
<1> QED
  BY <1>0, <1>1, <1>2, <1>3, <1>4, <1>5 DEF HooksInv
LEMMA LogLimitPostFailInv == ASSUME HooksInv, LogLimitPostFail PROVE HooksInv'
<1> DEFINE F == FailFile(latest)
           renamed(e) == IF e.name = latest THEN [e EXCEPT !.name = FailFile(@)] ELSE e
           others == IF Named(latest) = {} THEN dir ELSE Unlinked(F)
<1>0. /\ pc = "postFail" /\ i = Len(HookList) /\ i' = i + 1 /\ InTry /\ ~InTry'
      /\ layers' \in Seq(Layers) /\ NeverBelowBottom' /\ LogFile = latest
      /\ UNCHANGED <<work, snapshot, logged, pc, retry, outcome, run, try, minute>>
  BY LogLimitLeaves DEF LogLimitPostFail, Returns
<1>1. dir' = [n \in DOMAIN others |-> renamed(others[n])] /\ latest' = F
  BY <1>0 DEF LogLimitPostFail
<1>2. latest \in Files /\ ~latest.fail /\ F \in Files /\ F.fail /\ F # latest
  BY <1>0 DEF HooksInv, LayersOfTry, Files, FailFile
<1>3. dir \in Seq(Entries) /\ NamesDistinct
  BY DEF HooksInv, HooksTypeOK
<1>4. /\ others \in Seq(Entries) /\ Len(others) <= Len(dir)
      /\ \A n \in DOMAIN others : \E m \in DOMAIN dir : others[n] = dir[m]
      /\ \A m \in DOMAIN dir : dir[m].name = latest =>
            \E n \in DOMAIN others : others[n] = dir[m]
      /\ \A m, n \in DOMAIN others : others[m].name = others[n].name => m = n
      /\ \A m, n \in DOMAIN others : others[m].name = latest => others[n].name # F
  <2>1. CASE Named(latest) = {}
    BY <1>3, <2>1 DEF NamesDistinct, Named
  <2>2. CASE Named(latest) # {}
    BY <1>2, <1>3, <2>2, UnlinkedFacts
  <2> QED
    BY <2>1, <2>2
<1> HIDE DEF others, F
<1>5. ASSUME NEW n \in DOMAIN others
      PROVE  /\ dir'[n] \in Entries /\ dir'[n].of = others[n].of
             /\ dir'[n].name = IF others[n].name = latest THEN F ELSE others[n].name
  <2>1. others[n] \in Entries /\ dir'[n] = renamed(others[n])
    BY <1>1, <1>4
  <2>2. ASSUME NEW e \in Entries
        PROVE  /\ renamed(e) \in Entries /\ renamed(e).of = e.of
               /\ renamed(e).name = IF e.name = latest THEN F ELSE e.name
    BY <1>2 DEF Entries, F
  <2> HIDE DEF renamed
  <2> QED BY <2>1, <2>2
<1>6. /\ DOMAIN dir' = DOMAIN others /\ dir' \in Seq(Entries)
      /\ Len(dir') = Len(others)
  <2>1. DOMAIN others = 1..Len(others) /\ Len(others) \in Nat
    BY <1>4
  <2>2. DOMAIN dir' = DOMAIN others
    BY <1>1
  <2>3. dir' = [n \in 1..Len(others) |-> dir'[n]]
    BY <1>1, <2>1
  <2>4. dir' \in Seq(Entries)
    BY <1>5, <2>1, <2>3
  <2> QED
    BY <2>1, <2>2, <2>4
<1> HIDE DEF renamed
<1>7. HooksTypeOK'
  BY <1>0, <1>1, <1>2, <1>6, HookListFacts DEF HooksInv, HooksTypeOK
<1>8. LayersOfTry'
  BY <1>0 DEF LayersOfTry
<1>9. NamesDistinct'
  BY <1>4, <1>5, <1>6 DEF NamesDistinct
<1>10. DirBounded'
  <2>1. Len(dir) <= Keep + 1
    BY DEF HooksInv, DirBounded
  <2>2. Len(dir') <= Keep + 1
    BY <1>3, <1>4, <1>6, <2>1, HooksAssumption
  <2> QED
    BY <1>0, <2>2 DEF DirBounded
<1>11. LatestThere'
  <2> SUFFICES ASSUME logged PROVE Named(latest)' # {}
    BY <1>0 DEF LatestThere
  <2>1. PICK m \in DOMAIN dir : dir[m].name = latest
    BY DEF HooksInv, LatestThere, Named
  <2>2. PICK n \in DOMAIN others : others[n] = dir[m]
    BY <1>4, <2>1
  <2> QED
    BY <1>1, <1>5, <1>6, <2>1, <2>2 DEF Named
<1>12. LogsOlder'
  <2> SUFFICES ASSUME ~SameMinute, NEW n \in DOMAIN dir'
               PROVE  dir'[n].name.fail \/ dir'[n].name.minute < minute'
    BY <1>0 DEF LogsOlder
  <2>1. PICK m \in DOMAIN dir : others[n] = dir[m]
    BY <1>4, <1>6
  <2>2. CASE dir[m].name = latest
    BY <1>2, <1>5, <1>6, <2>1, <2>2
  <2>3. CASE dir[m].name # latest
    <3>1. dir[m].name.fail \/ dir[m].name.minute < minute
      BY <1>0, <2>3 DEF HooksInv, LogsOlder
    <3> QED
      BY <1>0, <1>5, <1>6, <2>1, <2>3, <3>1
  <2> QED BY <2>2, <2>3
<1>13. WorkSynced' /\ SnapshotIsSynced'
  BY <1>0 DEF HooksInv, WorkSynced, SnapshotIsSynced
<1> QED
  BY <1>0, <1>7, <1>8, <1>9, <1>10, <1>11, <1>12, <1>13 DEF HooksInv

\* The log of the try is written at the end of the directory: there is room.
LEMMA OpenLogInv == ASSUME HooksInv, OpenLog PROVE HooksInv'
<1> DEFINE U == Unlinked(latest)
           old == UNION {dir[n].of : n \in Named(latest)}
<1>0. /\ pc = "sync" /\ ~logged /\ logged' = TRUE /\ work' = "partial"
      /\ UNCHANGED <<layers, latest, snapshot, pc, i, retry, outcome, run, try, minute>>
  BY DEF OpenLog
<1>1. InTry /\ InTry' /\ (Mounted' <=> Mounted)
  BY <1>0 DEF InTry, Mounted
<1>2. LogFile = latest /\ latest \in Files
  BY <1>1, LogFileIsLatest DEF HooksInv, LayersOfTry
<1>3. PICK rest \in {{}, old} : dir' = Append(U, [name |-> latest, of |-> rest \cup {try}])
  BY <1>2 DEF OpenLog
<1>4. dir \in Seq(Entries) /\ NamesDistinct /\ try \in Nat
  BY DEF HooksInv, HooksTypeOK
<1>5. rest \in SUBSET Nat /\ (Named(latest) = {} => rest = {})
  <2>1. ASSUME NEW n \in Named(latest) PROVE dir[n].of \in SUBSET Nat
    <3>1. dir[n] \in Entries
      BY <1>4 DEF Named
    <3> QED BY <3>1 DEF Entries
  <2>2. old \in SUBSET Nat
    BY <2>1
  <2>3. Named(latest) = {} => old = {}
    OBVIOUS
  <2> QED BY <2>2, <2>3
<1> DEFINE last == [name |-> latest, of |-> rest \cup {try}]
<1>6. last \in Entries /\ last.name = latest /\ last.of = rest \cup {try}
  BY <1>2, <1>4, <1>5 DEF Entries
<1> HIDE DEF last, old
<1>7. /\ U \in Seq(Entries) /\ Len(U) <= Len(dir)
      /\ \A n \in DOMAIN U : \E m \in DOMAIN dir : U[n] = dir[m] /\ dir[m].name # latest
      /\ \A m, n \in DOMAIN U : U[m].name = U[n].name => m = n
  BY <1>4, UnlinkedFacts
<1>8. dir' = Append(U, last)
  BY <1>3 DEF last
<1> HIDE DEF U
<1>9. /\ dir' \in Seq(Entries) /\ Len(dir') = Len(U) + 1 /\ Len(U) \in Nat
      /\ DOMAIN dir' = 1..(Len(U) + 1) /\ DOMAIN U = 1..Len(U)
      /\ dir'[Len(U) + 1] = last
      /\ \A n \in 1..Len(U) : dir'[n] = U[n]
  BY <1>6, <1>7, <1>8
<1>10. HooksTypeOK'
  BY <1>0, <1>9 DEF HooksInv, HooksTypeOK, Contents
<1>11. NeverBelowBottom' /\ LayersOfTry'
  BY <1>0, <1>1 DEF HooksInv, NeverBelowBottom, LayersOfTry
<1>12. ASSUME NEW n \in DOMAIN dir'
       PROVE  \/ n = Len(U) + 1 /\ dir'[n] = last
              \/ n \in DOMAIN U /\ dir'[n] = U[n] /\ dir'[n].name # latest
  BY <1>7, <1>9
<1>13. NamesDistinct'
  BY <1>6, <1>7, <1>12 DEF NamesDistinct
<1>14. DirBounded' /\ LatestThere'
  <2>1. Len(dir) <= Keep
    BY <1>0, <1>1 DEF HooksInv, DirBounded
  <2>2. Len(dir') <= Keep + 1
    BY <1>4, <1>7, <1>9, <2>1, HooksAssumption
  <2>3. Len(U) + 1 \in Named(latest)'
    BY <1>0, <1>6, <1>9 DEF Named
  <2> QED
    BY <1>0, <2>2, <2>3 DEF DirBounded, LatestThere
<1>15. LogsOlder'
  <2> SUFFICES ASSUME ~SameMinute PROVE LogsOlder'
    BY DEF LogsOlder
  <2>1. ASSUME NEW n \in DOMAIN dir'
        PROVE  dir'[n].name.fail \/ dir'[n].name = latest \/ dir'[n].name.minute < minute
    <3>1. CASE dir'[n] = last
      BY <1>6, <3>1
    <3>2. CASE n \in DOMAIN U /\ dir'[n] = U[n]
      BY <1>0, <1>7, <3>2 DEF HooksInv, LogsOlder
    <3> QED BY <1>12, <3>1, <3>2
  <2>2. rest = {}
    BY <1>0, <1>1, <1>5 DEF HooksInv, LogsOlder
  <2>3. ASSUME NEW n \in Named(latest)' PROVE dir'[n].of = {try}
    BY <1>0, <1>6, <1>12, <2>2 DEF Named
  <2> QED
    BY <1>0, <1>1, <2>1, <2>3 DEF LogsOlder
<1>16. WorkSynced' /\ SnapshotIsSynced'
  BY <1>0 DEF HooksInv, WorkSynced, SnapshotIsSynced
<1> QED
  BY <1>10, <1>11, <1>13, <1>14, <1>15, <1>16 DEF HooksInv

-----------------------------------------------------------------------------
(***************************************************************************)
(* The theorems.                                                           *)
(***************************************************************************)

LEMMA HooksInitInv == HooksInit => HooksInv
<1> SUFFICES ASSUME HooksInit PROVE HooksInv
  OBVIOUS
<1>1. Bottom \in Layers
  BY DEF Bottom, File, Layers, Files
<1>2. HooksTypeOK
  <2>1. layers \in Seq(Layers) /\ dir \in Seq(Entries)
    BY <1>1 DEF HooksInit
  <2>2. i \in Nat /\ i >= 1 /\ i <= Len(HookList) + 1
    BY HookListFacts DEF HooksInit
  <2> QED
    BY <2>1, <2>2 DEF HooksInit, HooksTypeOK, Contents
<1>3. NeverBelowBottom
  BY <1>1 DEF HooksInit, NeverBelowBottom
<1>4. ~InTry
  BY DEF HooksInit, InTry
<1>5. NamesDistinct /\ DirBounded
  BY <1>4, HooksAssumption DEF HooksInit, NamesDistinct, DirBounded
<1>6. LayersOfTry /\ LatestThere /\ LogsOlder /\ WorkSynced /\ SnapshotIsSynced
  BY <1>4 DEF HooksInit, LayersOfTry, LatestThere, LogsOlder, WorkSynced,
              SnapshotIsSynced
<1> QED
  BY <1>2, <1>3, <1>5, <1>6 DEF HooksInv

LEMMA HooksNextInv == HooksInv /\ [HooksNext]_hookVars => HooksInv'
<1> SUFFICES ASSUME HooksInv, [HooksNext]_hookVars PROVE HooksInv'
  OBVIOUS
<1>1. CASE UNCHANGED hookVars
  BY <1>1 DEF hookVars, HooksInv, HooksTypeOK, NeverBelowBottom, LayersOfTry,
              NamesDistinct, DirBounded, LatestThere, LogsOlder, WorkSynced,
              SnapshotIsSynced, InTry, Mounted, Named
<1>2. CASE StartRun
  BY <1>2, StartRunInv
<1>3. CASE StageDone
  BY <1>3, StageDoneInv
<1>4. CASE HookFails \/ TerminateFails
  BY <1>4, FailureInv
<1>5. CASE OtherHook
  BY <1>5, OtherHookInv
<1>6. CASE LogLimitPreExec
  BY <1>6, LogLimitPreExecInv
<1>7. CASE LogLimitPostSuccess
  BY <1>7, LogLimitPostSuccessInv
<1>8. CASE LogLimitPostFail
  BY <1>8, LogLimitPostFailInv
<1>9. CASE DockerPreExec
  BY <1>9, DockerPreExecInv
<1>10. CASE DockerPostExec
  BY <1>10, DockerPostExecInv
<1>11. CASE BtrfsPreJob \/ BtrfsPostSuccess
  BY <1>11, BtrfsInv
<1>12. CASE OpenLog
  BY <1>12, OpenLogInv
<1>13. CASE SyncEnds
  BY <1>13, SyncEndsInv
<1>14. CASE Tick
  BY <1>14, TickInv
<1> QED
  BY <1>1, <1>2, <1>3, <1>4, <1>5, <1>6, <1>7, <1>8, <1>9, <1>10, <1>11, <1>12,
     <1>13, <1>14 DEF HooksNext, Rest

\* The inductive invariant of the hooks: the layers, the log directory and the
\* snapshot at every point of a run (provider.go, loglimit_hook.go, docker.go).
THEOREM HooksInvariant == HooksSpec => []HooksInv
<1>1. HooksInit => HooksInv
  BY HooksInitInv
<1>2. HooksInv /\ [HooksNext]_hookVars => HooksInv'
  BY HooksNextInv
<1> QED
  BY <1>1, <1>2, PTL DEF HooksSpec

\* However hooks fail and whatever layers their runs left behind, the context
\* is never left beyond its bottom layer (context.go, base_provider.go).
THEOREM ContextBalanced == HooksSpec => []NeverBelowBottom
<1>1. HooksInv => NeverBelowBottom
  BY DEF HooksInv
<1> QED
  BY <1>1, HooksInvariant, PTL

\* While a try syncs, its log file, the link "latest" and the volume of its
\* container agree (loglimit_hook.go, docker.go).
THEOREM TryHasLogFile == HooksSpec => []LogFileOfTry
<1>1. HooksInv => LogFileOfTry
  <2> SUFFICES ASSUME HooksInv, pc = "sync"
               PROVE  LogFile = latest /\ ("docker" \in Enabled => Volumes = LogFile)
    BY DEF LogFileOfTry
  <2>1. InTry /\ ("docker" \in Enabled => Mounted)
    BY DEF InTry, Mounted
  <2> QED
    BY <2>1, LogFileIsLatest
<1> QED
  BY <1>1, HooksInvariant, PTL

\* When no two runs begin in one minute, the log of a try is of that try alone
\* (base_provider.go opens it without truncating it).
THEOREM LogOfOneTry ==
    ASSUME ~SameMinute
    PROVE  HooksSpec => []LogIsOwn
<1>1. HooksInv => LogIsOwn
  <2> SUFFICES ASSUME HooksInv, pc = "sync", logged, NEW n \in Named(LogFile)
               PROVE  dir[n].of = {try}
    BY DEF LogIsOwn
  <2>1. LogFile = latest
    BY LogFileIsLatest DEF InTry
  <2> QED
    BY <2>1 DEF HooksInv, LogsOlder
<1> QED
  BY <1>1, HooksInvariant, PTL

\* The log directory never holds more than the kept files and the one of the
\* try, and after a run "latest" is one of them (loglimit_hook.go).
THEOREM LogDirectory == HooksSpec => []LogDirKept
<1>1. HooksInv => LogDirKept
  BY DEF HooksInv, DirBounded, LatestThere, LogDirKept
<1> QED
  BY <1>1, HooksInvariant, PTL

\* No snapshot is of a mirror whose sync did not succeed
\* (btrfs_snapshot_hook.go).
THEOREM SnapshotsSynced == HooksSpec => []SnapshotIsSynced
<1>1. HooksInv => SnapshotIsSynced
  BY DEF HooksInv
<1> QED
  BY <1>1, HooksInvariant, PTL
=============================================================================
