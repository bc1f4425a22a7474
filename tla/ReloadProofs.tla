---------------------------- MODULE ReloadProofs ----------------------------
(***************************************************************************)
(* Proofs about module Reload: the merge of diffMirrorConfig yields the    *)
(* difference of the two configurations, and the two loops of              *)
(* ReloadMirrorConfig make w.jobs the jobs of the new one, for any number  *)
(* of names, settings and reloads.                                         *)
(***************************************************************************)
EXTENDS Reload, WellFoundedInduction, TLAPS

Mirrors == mirrorConfig \cup {Nil}
Ops == [diffOp : {"delete", "add", "modify"}, mirCfg : mirrorConfig]

\* The jobs of configuration c.
JobsFor(f, c) ==
    /\ DOMAIN f = NamesOf(c)
    /\ \A n \in DOMAIN f : /\ f[n].config \in c /\ f[n].config.name = n
                           /\ f[n] \in JobsOf(f[n].config)

ReloadTypeOK ==
    /\ cfg \in Configurations /\ newMirrors \in Configurations
    /\ operations \in Seq(Ops)
    /\ phase \in {"idle", "diff", "change", "add"}
    /\ reloads \in Nat
    /\ DOMAIN jobs \subseteq Names

\* A mirror has one operation at most.
OneOpEach ==
    \A x, y \in DOMAIN operations :
        operations[x].mirCfg.name = operations[y].mirCfg.name => x = y

\* s is the sorted list of c, and the tail node.
IsMergeList(s, c) ==
    /\ s \in Seq(Mirrors) /\ Len(s) \in Nat /\ Len(s) >= 1
    /\ s[Len(s)] = Nil
    /\ \A a \in 1..Len(s) : a # Len(s) => s[a] \in c
    /\ \A x \in c : \E a \in 1..Len(s) : a # Len(s) /\ s[a] = x
    /\ \A a, b \in 1..Len(s) : a < b => s[a].name < s[b].name

\* The names that the merge has passed.
Passed ==
    {oList[a].name : a \in {x \in 1..Len(oList) : x < i}}
    \cup {nList[b].name : b \in {x \in 1..Len(nList) : x < j}}

\* What the merge has passed in one list is before what is next in the other,
\* and the lists are left together.
Cursors ==
    /\ i \in 1..(Len(oList) + 1) /\ j \in 1..(Len(nList) + 1)
    /\ i = Len(oList) + 1 <=> j = Len(nList) + 1
    /\ i <= Len(oList) =>
          /\ \A a \in 1..Len(oList) : a < i => oList[a].name < nList[j].name
          /\ \A b \in 1..Len(nList) : b < j => nList[b].name < oList[i].name

\* The operations so far are the difference of what the merge has passed.
DiffOfPassed ==
    /\ \A x \in DOMAIN operations : /\ operations[x] \in Difference(cfg, newMirrors)
                                    /\ operations[x].mirCfg.name \in Passed
    /\ \A d \in Difference(cfg, newMirrors) :
          d.mirCfg.name \in Passed => \E x \in DOMAIN operations : operations[x] = d

Merging ==
    phase = "diff" =>
        /\ IsMergeList(oList, cfg) /\ IsMergeList(nList, newMirrors)
        /\ Cursors /\ DiffOfPassed

Diffed ==
    phase \in {"change", "add"} =>
        /\ ToSet(operations) = Difference(cfg, newMirrors)
        /\ k \in 1..(Len(operations) + 1)

\* The loops have applied operation x.
Applied(x) ==
    \/ phase = "change" /\ operations[x].diffOp # "add" /\ x < k
    \/ phase = "add" /\ (operations[x].diffOp # "add" \/ x < k)

\* What operation op makes of the jobs b: f.
Effect(op, b, f) ==
    LET n == op.mirCfg.name
    IN  /\ op.diffOp = "delete" => n \notin DOMAIN f
        /\ op.diffOp = "modify" => n \in DOMAIN f /\ f[n] = Renewed(op.mirCfg, b[n].state)
        /\ op.diffOp = "add" => n \in DOMAIN f /\ f[n] = Job(op.mirCfg, "none", TRUE, TRUE)

\* f and b have the same job n or none.
SameJob(n, b, f) ==
    /\ n \in DOMAIN f <=> n \in DOMAIN b
    /\ n \in DOMAIN f => f[n] = b[n]

Applying ==
    /\ phase = "idle" => JobsFor(jobs, cfg)
    /\ phase # "idle" => JobsFor(before, cfg)
    /\ phase = "diff" => jobs = before
    /\ phase \in {"change", "add"} =>
          /\ \A x \in DOMAIN operations : Applied(x) => Effect(operations[x], before, jobs)
          /\ \A n \in Names :
                (\A x \in DOMAIN operations : Applied(x) => operations[x].mirCfg.name # n) =>
                    SameJob(n, before, jobs)

LastLoaded == phase = "idle" /\ reloads > 0 => cfg = newMirrors

ReloadInv ==
    ReloadTypeOK /\ OneOpEach /\ Merging /\ Diffed /\ Applying /\ LastLoaded
-----------------------------------------------------------------------------
(***************************************************************************)
(* The operators.                                                          *)
(***************************************************************************)

\* The three kinds of members of a difference.
LEMMA InDifference ==
    ASSUME NEW old, NEW new, NEW d
    PROVE  d \in Difference(old, new) <=>
              \/ \E o \in old : /\ o.name \notin NamesOf(new)
                                /\ d = [diffOp |-> "delete", mirCfg |-> o]
              \/ \E n \in new : /\ n.name \notin NamesOf(old)
                                /\ d = [diffOp |-> "add", mirCfg |-> n]
              \/ \E n \in new : /\ n.name \in NamesOf(old) /\ n \notin old
                                /\ d = [diffOp |-> "modify", mirCfg |-> n]
BY DEF Difference

LEMMA DifferenceType ==
    ASSUME NEW old \in Configurations, NEW new \in Configurations
    PROVE  Difference(old, new) \subseteq Ops
<1> SUFFICES ASSUME NEW d \in Difference(old, new) PROVE d \in Ops
  OBVIOUS
<1>1. old \subseteq mirrorConfig /\ new \subseteq mirrorConfig
  BY DEF Configurations
<1> QED BY <1>1, InDifference DEF Ops

\* Where the elements of a list with one more are.
LEMMA OneMore ==
    ASSUME NEW S, NEW s \in Seq(S), NEW e \in S
    PROVE  /\ s \o <<e>> \in Seq(S)
           /\ Len(s) \in Nat /\ DOMAIN s = 1..Len(s)
           /\ DOMAIN (s \o <<e>>) = 1..(Len(s) + 1)
           /\ \A x \in 1..Len(s) : (s \o <<e>>)[x] = s[x]
           /\ (s \o <<e>>)[Len(s) + 1] = e
<1>1. <<e>> \in Seq(S) /\ Len(<<e>>) = 1 /\ <<e>>[1] = e
  OBVIOUS
<1> QED BY <1>1

LEMMA MirrorNames ==
    /\ MaxName \in Nat /\ Names = 1..MaxName /\ Names \subseteq Nat
    /\ Nil.name = MaxName + 1
    /\ \A x \in mirrorConfig : x.name \in Names /\ x # Nil
    /\ \A x \in Mirrors : x.name \in Nat
<1>1. MaxName \in Nat /\ Names = 1..MaxName /\ Names \subseteq Nat
  BY ReloadAssumption DEF Names
<1>2. Nil.name = MaxName + 1
  BY DEF Nil
<1>3. \A x \in mirrorConfig : x.name \in Names
  BY DEF mirrorConfig
<1>4. MaxName + 1 \notin Names
  BY <1>1
<1> QED BY <1>1, <1>2, <1>3, <1>4 DEF Mirrors

\* A sorted list with the tail node is what the merge works on.
LEMMA TailIsLast ==
    ASSUME NEW c \in Configurations, NEW s \in Sorted(c)
    PROVE  IsMergeList(WithTail(s), c)
<1>0. c \subseteq mirrorConfig
  BY DEF Configurations
<1>1. PICK m \in 0..MaxName : s \in [1..m -> c]
  BY DEF Sorted, BoundedSeq, SeqOf
<1>2. ToSet(s) = c /\ \A x, y \in DOMAIN s : x < y => s[x].name < s[y].name
  BY DEF Sorted
<1>3. m \in Nat /\ DOMAIN s = 1..m
  BY <1>1, ReloadAssumption
<1>4. s \in Seq(Mirrors) /\ Len(s) = m
  <2>1. s \in [1..m -> Mirrors]
    BY <1>0, <1>1 DEF Mirrors
  <2> QED BY <1>3, <2>1
<1>5. Nil \in Mirrors
  BY DEF Mirrors
<1> DEFINE t == Append(s, Nil)
<1>6. /\ t \in Seq(Mirrors) /\ Len(t) = m + 1 /\ t[m + 1] = Nil
      /\ \A x \in 1..m : t[x] = s[x]
  BY <1>3, <1>4, <1>5
<1> HIDE DEF t
<1>7. \A a \in 1..(m + 1) : a # m + 1 => a \in 1..m
  BY <1>3
<1>8. \A a \in 1..m : s[a] \in c
  BY <1>1
<1>9. \A a, b \in 1..(m + 1) : a < b => t[a].name < t[b].name
  <2> SUFFICES ASSUME NEW a \in 1..(m + 1), NEW b \in 1..(m + 1), a < b
               PROVE  t[a].name < t[b].name
    OBVIOUS
  <2>1. a \in 1..m
    BY <1>3
  <2>2. CASE b \in 1..m
    BY <1>2, <1>3, <1>6, <2>1, <2>2
  <2>3. CASE b = m + 1
    <3>1. t[a].name \in Names
      BY <1>0, <1>6, <1>8, <2>1, MirrorNames
    <3> QED BY <1>6, <2>3, <3>1, MirrorNames
  <2> QED BY <1>3, <2>2, <2>3
<1>10. \A x \in c : \E a \in 1..(m + 1) : a # m + 1 /\ t[a] = x
  <2> SUFFICES ASSUME NEW x \in c PROVE \E a \in 1..(m + 1) : a # m + 1 /\ t[a] = x
    OBVIOUS
  <2>1. PICK a \in 1..m : s[a] = x
    BY <1>2, <1>3 DEF ToSet
  <2>2. a \in 1..(m + 1) /\ a # m + 1
    BY <1>3
  <2> QED BY <1>6, <2>1, <2>2
<1>11. IsMergeList(t, c)
  BY <1>3, <1>6, <1>7, <1>8, <1>9, <1>10 DEF IsMergeList
<1> QED BY <1>11 DEF WithTail, t
-----------------------------------------------------------------------------
(***************************************************************************)
(* The merge.                                                              *)
(***************************************************************************)

\* Names are not repeated in a configuration.
LEMMA SameName ==
    ASSUME NEW c \in Configurations, NEW x \in c, NEW y \in c, x.name = y.name
    PROVE  x = y
BY DEF Configurations

\* Passing one name, with the operation of the difference for it if there is
\* one, keeps what is known of the operations.
LEMMA PassOne ==
    ASSUME ReloadTypeOK, OneOpEach, DiffOfPassed, UNCHANGED <<cfg, newMirrors>>,
           NEW n, Passed' = Passed \cup {n}, n \notin Passed,
           \/ /\ operations' = operations
              /\ \A e \in Difference(cfg, newMirrors) : e.mirCfg.name # n
           \/ \E d \in Difference(cfg, newMirrors) :
                 /\ operations' = operations \o <<d>> /\ d.mirCfg.name = n
                 /\ \A e \in Difference(cfg, newMirrors) : e.mirCfg.name = n => e = d
    PROVE  operations' \in Seq(Ops) /\ OneOpEach' /\ DiffOfPassed'
<1>0. operations \in Seq(Ops)
  BY DEF ReloadTypeOK
<1> DEFINE D == Difference(cfg, newMirrors)
<1>d. D' = D
  BY DEF Difference, NamesOf
<1>1. CASE operations' = operations /\ \A e \in D : e.mirCfg.name # n
  <2>1. OneOpEach'
    BY <1>1 DEF OneOpEach
  <2>2. DiffOfPassed'
    BY <1>1, <1>d DEF DiffOfPassed
  <2> QED BY <1>0, <1>1, <2>1, <2>2
<1>2. ASSUME NEW d \in D, operations' = operations \o <<d>>, d.mirCfg.name = n,
             \A e \in D : e.mirCfg.name = n => e = d
      PROVE  operations' \in Seq(Ops) /\ OneOpEach' /\ DiffOfPassed'
  <2> DEFINE N == Len(operations)
  <2>0. d \in Ops
    BY DifferenceType DEF ReloadTypeOK
  <2>1. /\ operations' \in Seq(Ops)
        /\ N \in Nat /\ DOMAIN operations = 1..N
        /\ DOMAIN operations' = 1..(N + 1)
        /\ \A x \in 1..N : operations'[x] = operations[x]
        /\ operations'[N + 1] = d
    BY <1>0, <1>2, <2>0, OneMore
  <2> HIDE DEF N, D
  <2>2. \A x \in 1..(N + 1) : x \in 1..N \/ x = N + 1
    BY <2>1
  <2>3. \A x \in 1..N : operations[x].mirCfg.name # n /\ x \in 1..(N + 1)
    BY <2>1 DEF DiffOfPassed
  <2>4. OneOpEach'
    BY <1>2, <2>1, <2>2, <2>3 DEF OneOpEach
  <2>5. \A x \in DOMAIN operations' : operations'[x] \in D /\ operations'[x].mirCfg.name \in Passed'
    BY <1>2, <2>1, <2>2 DEF DiffOfPassed, D
  <2>6. ASSUME NEW e \in D, e.mirCfg.name \in Passed'
        PROVE  \E x \in DOMAIN operations' : operations'[x] = e
    <3>1. CASE e.mirCfg.name \in Passed
      <4>1. PICK x \in 1..N : operations[x] = e
        BY <2>1, <3>1 DEF DiffOfPassed, D
      <4> QED BY <2>1, <2>3, <4>1
    <3>2. CASE e.mirCfg.name = n
      <4>1. N + 1 \in 1..(N + 1)
        BY <2>1
      <4> QED BY <1>2, <2>1, <3>2, <4>1
    <3> QED BY <2>6, <3>1, <3>2
  <2>7. DiffOfPassed'
    BY <1>d, <2>5, <2>6 DEF DiffOfPassed, D
  <2> QED BY <2>1, <2>4, <2>7
<1> QED BY <1>1, <1>2

\* Where the merge looks: the name at a cursor is before all that is behind it
\* in its list, and the tail node is the end of both.
LEMMA AtCursor ==
    ASSUME NEW s, NEW c \in Configurations, IsMergeList(s, c), NEW p \in 1..Len(s)
    PROVE  /\ s[p] \in Mirrors /\ s[p].name \in Nat /\ s[p].name <= Nil.name
           /\ p = Len(s) => s[p] = Nil
           /\ p # Len(s) => s[p] \in c /\ s[p].name < Nil.name /\ p + 1 \in 1..Len(s)
           /\ \A q \in 1..Len(s) : /\ q < p => s[q].name < s[p].name
                                   /\ p < q => s[p].name < s[q].name
           /\ \A x \in c : x.name = s[p].name => x = s[p]
<1>0. Len(s) \in Nat /\ s \in Seq(Mirrors) /\ s[Len(s)] = Nil
  BY DEF IsMergeList
<1>1. s[p] \in Mirrors /\ s[p].name \in Nat
  BY <1>0, MirrorNames
<1>2. c \subseteq mirrorConfig
  BY DEF Configurations
<1>3. p # Len(s) => s[p] \in c /\ s[p].name < Nil.name /\ p + 1 \in 1..Len(s)
  <2>1. ASSUME p # Len(s) PROVE s[p] \in c /\ p + 1 \in 1..Len(s)
    BY <1>0, <2>1 DEF IsMergeList
  <2>2. ASSUME p # Len(s) PROVE s[p].name < Nil.name
    <3>1. s[p].name \in Names
      BY <1>2, <2>1, <2>2, MirrorNames
    <3> QED BY <3>1, MirrorNames
  <2> QED BY <2>1, <2>2
<1>4. \A q \in 1..Len(s) : (q < p => s[q].name < s[p].name) /\ (p < q => s[p].name < s[q].name)
  BY DEF IsMergeList
<1>5. ASSUME NEW x \in c, x.name = s[p].name PROVE x = s[p]
  <2>1. x.name < Nil.name
    BY <1>2, MirrorNames
  <2>2. p # Len(s)
    BY <1>0, <1>5, <2>1, MirrorNames
  <2> QED BY <1>3, <1>5, <2>2, SameName
<1>6. s[p].name <= Nil.name
  BY <1>0, <1>1, <1>3, MirrorNames
<1> QED BY <1>0, <1>1, <1>3, <1>4, <1>5, <1>6

\* A name that the merge list has nowhere is not in the configuration.
LEMMA NotInList ==
    ASSUME NEW s, NEW c, IsMergeList(s, c), NEW n,
           \A a \in 1..Len(s) : s[a].name # n
    PROVE  n \notin NamesOf(c)
BY DEF IsMergeList, NamesOf
\* One place further.
LEMMA PrefixGrows ==
    ASSUME NEW s, Len(s) \in Nat, NEW p \in 1..Len(s)
    PROVE  {s[a].name : a \in {x \in 1..Len(s) : x < p + 1}} =
               {s[a].name : a \in {x \in 1..Len(s) : x < p}} \cup {s[p].name}
<1>1. {x \in 1..Len(s) : x < p + 1} = {x \in 1..Len(s) : x < p} \cup {p}
  OBVIOUS
<1> QED BY <1>1

\* Each iteration of the merge passes the smaller of the names at the cursors
\* and finds the operation of the difference for it.
LEMMA StepMerge ==
    ASSUME ReloadInv, Merge
    PROVE  ReloadInv'
<1> DEFINE o == oList[i]
           n == nList[j]
           D == Difference(cfg, newMirrors)
<1>0. /\ phase = "diff" /\ i <= Len(oList) /\ j <= Len(nList)
      /\ UNCHANGED <<cfg, jobs, newMirrors, oList, nList, phase, k, reloads, before>>
      /\ \/ /\ n.name < o.name
            /\ operations' = operations \o Op("add", n)
            /\ j' = j + 1 /\ i' = i
         \/ /\ o.name < n.name
            /\ operations' = operations \o Op("delete", o)
            /\ i' = i + 1 /\ j' = j
         \/ /\ o.name = n.name
            /\ operations' = IF o # n THEN operations \o Op("modify", n) ELSE operations
            /\ i' = i + 1 /\ j' = j + 1
  BY DEF Merge
<1>1. /\ IsMergeList(oList, cfg) /\ IsMergeList(nList, newMirrors) /\ Cursors /\ DiffOfPassed
      /\ cfg \in Configurations /\ newMirrors \in Configurations
      /\ ReloadTypeOK /\ OneOpEach
  BY <1>0 DEF ReloadInv, ReloadTypeOK, Merging
<1>2. /\ Len(oList) \in Nat /\ Len(nList) \in Nat
      /\ i \in 1..Len(oList) /\ j \in 1..Len(nList)
  BY <1>0, <1>1 DEF Cursors, IsMergeList
<1>3. /\ o.name \in Nat /\ o.name <= Nil.name
      /\ i = Len(oList) => o = Nil
      /\ i # Len(oList) => o \in cfg /\ o.name < Nil.name /\ i + 1 \in 1..Len(oList)
      /\ \A q \in 1..Len(oList) : /\ q < i => oList[q].name < o.name
                                  /\ i < q => o.name < oList[q].name
      /\ \A x \in cfg : x.name = o.name => x = o
  BY <1>1, <1>2, AtCursor
<1>4. /\ n.name \in Nat /\ n.name <= Nil.name
      /\ j = Len(nList) => n = Nil
      /\ j # Len(nList) => n \in newMirrors /\ n.name < Nil.name /\ j + 1 \in 1..Len(nList)
      /\ \A q \in 1..Len(nList) : /\ q < j => nList[q].name < n.name
                                  /\ j < q => n.name < nList[q].name
      /\ \A x \in newMirrors : x.name = n.name => x = n
  BY <1>1, <1>2, AtCursor
<1>5. /\ \A a \in 1..Len(oList) : oList[a].name \in Nat /\ (a < i => oList[a].name < n.name)
      /\ \A b \in 1..Len(nList) : nList[b].name \in Nat /\ (b < j => nList[b].name < o.name)
  BY <1>0, <1>1, AtCursor DEF Cursors
<1>6. Nil.name \in Nat
  BY MirrorNames
<1>b. /\ \A a \in 1..Len(oList) : a < i + 1 => a < i \/ a = i
      /\ \A b \in 1..Len(nList) : b < j + 1 => b < j \/ b = j
  BY <1>2
<1>c. oList[i] = o /\ nList[j] = n
  OBVIOUS
<1> HIDE DEF o, n, D
<1>7. ASSUME operations' \in Seq(Ops), OneOpEach', DiffOfPassed', Cursors'
      PROVE  ReloadInv'
  <2>1. IsMergeList(oList, cfg)' /\ IsMergeList(nList, newMirrors)' /\ Applying' /\ Diffed'
    BY <1>0, <1>1 DEF ReloadInv, IsMergeList, Applying, JobsFor, Diffed
  <2> QED BY <1>0, <1>1, <1>7, <2>1 DEF ReloadInv, ReloadTypeOK, Merging, LastLoaded
<1>8. CASE n.name < o.name
  <2>0. operations' = operations \o <<[diffOp |-> "add", mirCfg |-> n]>> /\ j' = j + 1 /\ i' = i
    BY <1>0, <1>3, <1>4, <1>8 DEF Op
  <2>1. n \in newMirrors /\ j + 1 \in 1..Len(nList)
    BY <1>2, <1>3, <1>4, <1>6, <1>8
  <2>2. n.name \notin NamesOf(cfg)
    <3>1. \A a \in 1..Len(oList) : oList[a].name # n.name
      <4> SUFFICES ASSUME NEW a \in 1..Len(oList) PROVE oList[a].name # n.name
        OBVIOUS
      <4>1. CASE a < i
        BY <1>4, <1>5, <4>1
      <4>2. CASE a = i
        BY <1>3, <1>4, <1>8, <4>2 DEF o
      <4>3. CASE i < a
        BY <1>3, <1>4, <1>5, <1>8, <4>3
      <4> QED BY <1>2, <4>1, <4>2, <4>3
    <3> QED BY <1>1, <3>1, NotInList
  <2>3. Passed' = Passed \cup {n.name}
    <3> DEFINE P(s, p) == {s[a].name : a \in {x \in 1..Len(s) : x < p}}
    <3>1. P(nList, j + 1) = P(nList, j) \cup {n.name}
      BY <1>2, PrefixGrows DEF n
    <3>8. Passed = P(oList, i) \cup P(nList, j) /\ Passed' = P(oList', i') \cup P(nList', j')
      BY DEF Passed
    <3>9. oList' = oList /\ nList' = nList
      BY <1>0
    <3> HIDE DEF P
    <3> QED BY <2>0, <3>1, <3>8, <3>9
  <2>4. n.name \notin Passed
    BY <1>4, <1>5 DEF Passed
  <2>5. [diffOp |-> "add", mirCfg |-> n] \in D
    BY <2>1, <2>2, InDifference DEF D
  <2>6. ASSUME NEW e \in D, e.mirCfg.name = n.name
        PROVE  e = [diffOp |-> "add", mirCfg |-> n]
    <3>1. \A x \in cfg : x.name # n.name
      BY <2>2 DEF NamesOf
    <3> QED BY <1>4, <2>2, <2>6, <3>1, InDifference DEF D
  <2>7. operations' \in Seq(Ops) /\ OneOpEach' /\ DiffOfPassed'
    <3>1. [diffOp |-> "add", mirCfg |-> n].mirCfg.name = n.name
      OBVIOUS
    <3> QED BY <1>0, <1>1, <2>0, <2>3, <2>4, <2>5, <2>6, <3>1, PassOne DEF D
  <2>8. Cursors'
    <3>1. \A a \in 1..Len(oList) : a < i => oList[a].name < nList[j + 1].name
      <4>1. n.name < nList[j + 1].name
        BY <1>2, <1>4, <2>1
      <4> QED BY <1>4, <1>5, <2>1, <4>1
    <3>2. \A b \in 1..Len(nList) : b < j + 1 => nList[b].name < oList[i].name
      <4>1. \A b \in 1..Len(nList) : b < j => nList[b].name < o.name
        BY <1>5
      <4> QED BY <1>8, <1>b, <1>c, <4>1
    <3>3. (i = Len(oList) + 1) = FALSE /\ (j + 1 = Len(nList) + 1) = FALSE
      BY <1>2, <2>1
    <3>4. j + 1 \in 1..(Len(nList) + 1) /\ i \in 1..(Len(oList) + 1)
      BY <1>2
    <3> QED BY <1>0, <2>0, <3>1, <3>2, <3>3, <3>4 DEF Cursors
  <2> QED BY <1>7, <2>7, <2>8
<1>9. CASE o.name < n.name
  <2>0. operations' = operations \o <<[diffOp |-> "delete", mirCfg |-> o]>> /\ i' = i + 1 /\ j' = j
    BY <1>0, <1>4, <1>3, <1>9 DEF Op
  <2>1. o \in cfg /\ i + 1 \in 1..Len(oList)
    BY <1>2, <1>4, <1>3, <1>6, <1>9
  <2>2. o.name \notin NamesOf(newMirrors)
    <3>1. \A b \in 1..Len(nList) : nList[b].name # o.name
      <4> SUFFICES ASSUME NEW b \in 1..Len(nList) PROVE nList[b].name # o.name
        OBVIOUS
      <4>1. CASE b < j
        BY <1>3, <1>5, <4>1
      <4>2. CASE b = j
        BY <1>4, <1>3, <1>9, <4>2 DEF n
      <4>3. CASE j < b
        BY <1>4, <1>3, <1>5, <1>9, <4>3
      <4> QED BY <1>2, <4>1, <4>2, <4>3
    <3> QED BY <1>1, <3>1, NotInList
  <2>3. Passed' = Passed \cup {o.name}
    <3> DEFINE P(s, p) == {s[a].name : a \in {x \in 1..Len(s) : x < p}}
    <3>1. P(oList, i + 1) = P(oList, i) \cup {o.name}
      BY <1>2, PrefixGrows DEF o
    <3>8. Passed = P(oList, i) \cup P(nList, j) /\ Passed' = P(oList', i') \cup P(nList', j')
      BY DEF Passed
    <3>9. oList' = oList /\ nList' = nList
      BY <1>0
    <3> HIDE DEF P
    <3> QED BY <2>0, <3>1, <3>8, <3>9
  <2>4. o.name \notin Passed
    BY <1>3, <1>5 DEF Passed
  <2>5. [diffOp |-> "delete", mirCfg |-> o] \in D
    BY <2>1, <2>2, InDifference DEF D
  <2>6. ASSUME NEW e \in D, e.mirCfg.name = o.name
        PROVE  e = [diffOp |-> "delete", mirCfg |-> o]
    <3>1. \A x \in newMirrors : x.name # o.name
      BY <2>2 DEF NamesOf
    <3> QED BY <1>3, <2>2, <2>6, <3>1, InDifference DEF D
  <2>7. operations' \in Seq(Ops) /\ OneOpEach' /\ DiffOfPassed'
    <3>1. [diffOp |-> "delete", mirCfg |-> o].mirCfg.name = o.name
      OBVIOUS
    <3> QED BY <1>0, <1>1, <2>0, <2>3, <2>4, <2>5, <2>6, <3>1, PassOne DEF D
  <2>8. Cursors'
    <3>1. \A b \in 1..Len(nList) : b < j => nList[b].name < oList[i + 1].name
      <4>1. o.name < oList[i + 1].name
        BY <1>2, <1>3, <2>1
      <4> QED BY <1>3, <1>5, <2>1, <4>1
    <3>2. \A a \in 1..Len(oList) : a < i + 1 => oList[a].name < nList[j].name
      <4>1. \A a \in 1..Len(oList) : a < i => oList[a].name < n.name
        BY <1>5
      <4> QED BY <1>9, <1>b, <1>c, <4>1
    <3>3. (j = Len(nList) + 1) = FALSE /\ (i + 1 = Len(oList) + 1) = FALSE
      BY <1>2, <2>1
    <3>4. i + 1 \in 1..(Len(oList) + 1) /\ j \in 1..(Len(nList) + 1)
      BY <1>2
    <3> QED BY <1>0, <2>0, <3>1, <3>2, <3>3, <3>4 DEF Cursors
  <2> QED BY <1>7, <2>7, <2>8
<1>10. CASE o.name = n.name
  <2>0. /\ operations' = IF o # n THEN operations \o <<[diffOp |-> "modify", mirCfg |-> n]>>
                                   ELSE operations
        /\ i' = i + 1 /\ j' = j + 1
    BY <1>0, <1>3, <1>4, <1>10 DEF Op
  <2>1. i = Len(oList) <=> j = Len(nList)
    BY <1>3, <1>4, <1>6, <1>10
  <2>3. Passed' = Passed \cup {n.name}
    <3> DEFINE P(s, p) == {s[a].name : a \in {x \in 1..Len(s) : x < p}}
    <3>1. P(nList, j + 1) = P(nList, j) \cup {n.name}
      BY <1>2, PrefixGrows DEF n
    <3>2. P(oList, i + 1) = P(oList, i) \cup {n.name}
      BY <1>2, <1>10, PrefixGrows DEF o
    <3>8. Passed = P(oList, i) \cup P(nList, j) /\ Passed' = P(oList', i') \cup P(nList', j')
      BY DEF Passed
    <3>9. oList' = oList /\ nList' = nList
      BY <1>0
    <3> HIDE DEF P
    <3> QED BY <2>0, <3>1, <3>2, <3>8, <3>9
  <2>4. n.name \notin Passed
    BY <1>4, <1>5, <1>10 DEF Passed
  <2>5. \/ /\ operations' = operations
           /\ \A e \in D : e.mirCfg.name # n.name
        \/ \E d \in D : /\ operations' = operations \o <<d>> /\ d.mirCfg.name = n.name
                       /\ \A e \in D : e.mirCfg.name = n.name => e = d
    <3> DEFINE d == [diffOp |-> "modify", mirCfg |-> n]
    <3>1. CASE i = Len(oList)
      <4>1. o = Nil /\ n = Nil
        BY <1>3, <1>4, <2>1, <3>1
      <4>2. \A e \in D : e.mirCfg.name # Nil.name
        <5>1. ASSUME NEW e \in D PROVE e.mirCfg.name # Nil.name
          <6>1. e.mirCfg \in mirrorConfig
            BY <1>1, DifferenceType DEF D, Ops
          <6>2. e.mirCfg.name \in Names
            BY <6>1, MirrorNames
          <6> QED BY <6>2, MirrorNames
        <5> QED BY <5>1
      <4> QED BY <2>0, <4>1, <4>2
    <3>2. CASE i # Len(oList)
      <4>1. o \in cfg /\ n \in newMirrors
        BY <1>3, <1>4, <2>1, <3>2
      <4>2. n.name \in NamesOf(cfg) /\ o.name \in NamesOf(newMirrors)
        BY <1>10, <4>1 DEF NamesOf
      <4>3. ASSUME NEW e \in D, e.mirCfg.name = n.name PROVE e = d /\ n \notin cfg
        BY <1>4, <1>10, <4>2, <4>3, InDifference DEF D
      <4>4. n \in cfg <=> o = n
        BY <1>3, <1>10, <4>1
      <4>5. CASE o = n
        BY <2>0, <4>3, <4>4, <4>5
      <4>6. CASE o # n
        <5>1. d \in D
          BY <4>1, <4>2, <4>4, <4>6, InDifference DEF D
        <5>2. operations' = operations \o <<d>> /\ d.mirCfg.name = n.name
          BY <2>0, <4>6
        <5> HIDE DEF d
        <5> QED BY <4>3, <5>1, <5>2
      <4> QED BY <4>5, <4>6
    <3> QED BY <3>1, <3>2
  <2>7. operations' \in Seq(Ops) /\ OneOpEach' /\ DiffOfPassed'
    BY <1>0, <1>1, <2>3, <2>4, <2>5, PassOne DEF D
  <2>8. Cursors'
    <3>1. i + 1 \in 1..(Len(oList) + 1) /\ j + 1 \in 1..(Len(nList) + 1)
      BY <1>2
    <3>2. i + 1 = Len(oList) + 1 <=> j + 1 = Len(nList) + 1
      BY <1>2, <2>1
    <3>3. ASSUME i + 1 <= Len(oList)
          PROVE  /\ \A a \in 1..Len(oList) : a < i + 1 => oList[a].name < nList[j + 1].name
                 /\ \A b \in 1..Len(nList) : b < j + 1 => nList[b].name < oList[i + 1].name
      <4>1. i + 1 \in 1..Len(oList) /\ j + 1 \in 1..Len(nList)
        BY <1>2, <1>4, <2>1, <3>3
      <4>2. n.name < nList[j + 1].name /\ o.name < oList[i + 1].name
        BY <1>2, <1>3, <1>4, <4>1
      <4>3. \A a \in 1..Len(oList) : a < i + 1 => oList[a].name <= o.name
        <5>1. o.name <= o.name /\ \A a \in 1..Len(oList) : a < i => oList[a].name <= o.name
          BY <1>3, <1>5
        <5> QED BY <1>b, <1>c, <5>1
      <4>4. \A b \in 1..Len(nList) : b < j + 1 => nList[b].name <= n.name
        <5>1. n.name <= n.name /\ \A b \in 1..Len(nList) : b < j => nList[b].name <= n.name
          BY <1>4, <1>5
        <5> QED BY <1>b, <1>c, <5>1
      <4> QED BY <1>3, <1>4, <1>5, <1>10, <4>1, <4>2, <4>3, <4>4
    <3> QED BY <1>0, <2>0, <3>1, <3>2, <3>3 DEF Cursors
  <2> QED BY <1>7, <2>7, <2>8
<1> QED BY <1>3, <1>4, <1>8, <1>9, <1>10
\* At the end of the merge everything has been passed.
LEMMA StepMergeDone ==
    ASSUME ReloadInv, MergeDone
    PROVE  ReloadInv'
<1> DEFINE D == Difference(cfg, newMirrors)
<1>0. /\ phase = "diff" /\ (i > Len(oList) \/ j > Len(nList))
      /\ phase' = "change" /\ k' = 1
      /\ UNCHANGED <<cfg, jobs, newMirrors, operations, reloads, before>>
  BY DEF MergeDone
<1>1. /\ IsMergeList(oList, cfg) /\ IsMergeList(nList, newMirrors) /\ Cursors /\ DiffOfPassed
      /\ cfg \in Configurations /\ newMirrors \in Configurations
      /\ operations \in Seq(Ops) /\ JobsFor(before, cfg) /\ jobs = before
  BY <1>0 DEF ReloadInv, ReloadTypeOK, Merging, Applying
<1>2. /\ Len(oList) \in Nat /\ Len(nList) \in Nat /\ i \in Nat /\ j \in Nat
      /\ i = Len(oList) + 1 /\ j = Len(nList) + 1
  BY <1>0, <1>1 DEF Cursors, IsMergeList
<1>3. NamesOf(cfg) \cup NamesOf(newMirrors) \subseteq Passed
  <2>1. ASSUME NEW x \in cfg PROVE x.name \in Passed
    <3>1. PICK a \in 1..Len(oList) : oList[a] = x
      BY <1>1 DEF IsMergeList
    <3>2. a < i
      BY <1>2
    <3> QED BY <3>1, <3>2 DEF Passed
  <2>2. ASSUME NEW x \in newMirrors PROVE x.name \in Passed
    <3>1. PICK a \in 1..Len(nList) : nList[a] = x
      BY <1>1 DEF IsMergeList
    <3>2. a < j
      BY <1>2
    <3> QED BY <3>1, <3>2 DEF Passed
  <2> QED BY <2>1, <2>2 DEF NamesOf
<1>4. \A d \in D : d.mirCfg.name \in NamesOf(cfg) \cup NamesOf(newMirrors)
  BY InDifference DEF D, NamesOf
<1>5. ToSet(operations) = D
  BY <1>1, <1>3, <1>4 DEF DiffOfPassed, ToSet, D
<1>6. Diffed'
  <2>1. D' = D /\ ToSet(operations)' = ToSet(operations)
    BY <1>0 DEF D, Difference, NamesOf, ToSet
  <2>2. Len(operations) \in Nat
    BY <1>1
  <2>3. k' \in 1..(Len(operations') + 1)
    BY <1>0, <2>2
  <2> QED BY <1>5, <2>1, <2>3 DEF Diffed, D
<1>7. Applying'
  <2>1. JobsFor(before, cfg)'
    BY <1>0, <1>1 DEF JobsFor
  <2>2. \A x \in DOMAIN operations : x \in Nat /\ ~(x < 1)
    BY <1>1
  <2>3. \A x \in DOMAIN operations' : ~Applied(x)'
    BY <1>0, <2>2 DEF Applied
  <2>4. \A n \in Names : SameJob(n, before, jobs)'
    BY <1>0, <1>1 DEF SameJob
  <2> QED BY <1>0, <2>1, <2>3, <2>4 DEF Applying
<1> QED BY <1>0, <1>6, <1>7 DEF ReloadInv, ReloadTypeOK, OneOpEach, Merging, LastLoaded

-----------------------------------------------------------------------------
(***************************************************************************)
(* The two loops.                                                          *)
(***************************************************************************)

\* An operation of the difference names a mirror, an old one unless it adds.
LEMMA OpNames ==
    ASSUME ReloadInv, phase \in {"change", "add"}, NEW x \in DOMAIN operations
    PROVE  /\ operations[x] \in Difference(cfg, newMirrors)
           /\ operations[x] \in Ops /\ operations[x].mirCfg \in mirrorConfig
           /\ operations[x].diffOp \in {"delete", "add", "modify"}
           /\ operations[x].mirCfg.name \in Names
           /\ operations[x].diffOp # "add" => operations[x].mirCfg.name \in DOMAIN before
           /\ operations[x].diffOp = "add" => operations[x].mirCfg.name \notin DOMAIN before
           /\ x \in Nat /\ x >= 1
<1>1. operations[x] \in Difference(cfg, newMirrors)
  BY DEF ReloadInv, Diffed, ToSet
<1>2. operations[x] \in Ops
  BY <1>1, DifferenceType DEF ReloadInv, ReloadTypeOK
<1>3. operations[x].mirCfg \in mirrorConfig /\ operations[x].diffOp \in {"delete", "add", "modify"}
  BY <1>2 DEF Ops
<1>4. operations[x].mirCfg.name \in Names
  BY <1>3, MirrorNames
<1>5. DOMAIN before = NamesOf(cfg)
  BY DEF ReloadInv, Applying, JobsFor
<1>6. /\ operations[x].diffOp # "add" => operations[x].mirCfg.name \in NamesOf(cfg)
      /\ operations[x].diffOp = "add" => operations[x].mirCfg.name \notin NamesOf(cfg)
  BY <1>1, InDifference DEF NamesOf
<1>7. x \in Nat /\ x >= 1
  BY DEF ReloadInv, ReloadTypeOK
<1> QED BY <1>1, <1>2, <1>3, <1>4, <1>5, <1>6, <1>7

\* A step of a loop that applies operation k and touches no other job.
LEMMA ApplyOne ==
    ASSUME ReloadInv, phase \in {"change", "add"}, k <= Len(operations),
           UNCHANGED <<cfg, newMirrors, operations, phase, before>>, k' = k + 1,
           DOMAIN jobs' \subseteq Names,
           Effect(operations[k], before, jobs'),
           \A m \in Names : m # operations[k].mirCfg.name => SameJob(m, jobs, jobs'),
           operations[k].diffOp = "add" <=> phase = "add"
    PROVE  Applying'
<1>0. /\ operations \in Seq(Ops) /\ k \in Nat /\ k \in DOMAIN operations
      /\ JobsFor(before, cfg)
  BY DEF ReloadInv, ReloadTypeOK, Diffed, Applying
<1>1. JobsFor(before, cfg)'
  BY <1>0 DEF JobsFor
<1>2. \A x \in DOMAIN operations : x \in Nat
  BY <1>0
<1>3. \A x \in DOMAIN operations : Applied(x)' <=> Applied(x) \/ x = k
  BY <1>0, <1>2 DEF Applied
<1> DEFINE n == operations[k].mirCfg.name
<1>4. \A x \in DOMAIN operations : x # k => operations[x].mirCfg.name # n
  BY <1>0 DEF ReloadInv, OneOpEach
<1>5. ASSUME NEW x \in DOMAIN operations, Applied(x)'
      PROVE  Effect(operations[x], before, jobs')
  <2>1. CASE x = k
    BY <2>1
  <2>2. CASE x # k
    <3>1. Effect(operations[x], before, jobs)
      BY <1>3, <1>5, <2>2 DEF ReloadInv, Applying
    <3>2. SameJob(operations[x].mirCfg.name, jobs, jobs')
      BY <1>4, <2>2, OpNames
    <3> QED BY <3>1, <3>2 DEF Effect, SameJob
  <2> QED BY <2>1, <2>2
<1>6. ASSUME NEW m \in Names,
             \A x \in DOMAIN operations : Applied(x)' => operations[x].mirCfg.name # m
      PROVE  SameJob(m, before, jobs')
  <2>1. SameJob(m, before, jobs)
    BY <1>3, <1>6 DEF ReloadInv, Applying
  <2>2. SameJob(m, jobs, jobs')
    BY <1>0, <1>3, <1>6
  <2> QED BY <2>1, <2>2 DEF SameJob
<1>7. \A x \in DOMAIN operations' : Applied(x)' => Effect(operations[x], before, jobs)'
  BY <1>5 DEF Effect
<1>8. \A m \in Names :
          (\A x \in DOMAIN operations' : Applied(x)' => operations'[x].mirCfg.name # m) =>
              SameJob(m, before, jobs)'
  BY <1>6 DEF SameJob
<1> QED BY <1>1, <1>7, <1>8 DEF Applying
\* A step of a loop that passes over an operation of the other loop.
LEMMA SkipOne ==
    ASSUME ReloadInv, phase \in {"change", "add"}, k <= Len(operations),
           UNCHANGED <<cfg, newMirrors, operations, phase, before, jobs>>, k' = k + 1,
           ~(operations[k].diffOp = "add" <=> phase = "add")
    PROVE  Applying'
<1>0. operations \in Seq(Ops) /\ k \in Nat /\ k \in DOMAIN operations
  BY DEF ReloadInv, ReloadTypeOK, Diffed
<1>1. \A x \in DOMAIN operations : x \in Nat
  BY <1>0
<1>2. \A x \in DOMAIN operations : Applied(x)' <=> Applied(x)
  BY <1>0, <1>1 DEF Applied
<1> QED BY <1>2 DEF ReloadInv, Applying, JobsFor, Effect, SameJob

\* The index stays in the list, and nothing else changes in the loops.
LEMMA LoopFrame ==
    ASSUME ReloadInv, phase \in {"change", "add"}, k <= Len(operations), k' = k + 1,
           UNCHANGED <<cfg, newMirrors, diffVars, phase, reloads, before>>,
           DOMAIN jobs' \subseteq Names, Applying'
    PROVE  ReloadInv'
<1>0. UNCHANGED operations
  BY DEF diffVars
<1>1. k \in 1..(Len(operations) + 1) /\ Len(operations) \in Nat
  BY DEF ReloadInv, ReloadTypeOK, Diffed
<1>2. k' \in 1..(Len(operations') + 1)
  BY <1>0, <1>1
<1>3. ToSet(operations)' = Difference(cfg, newMirrors)'
  BY <1>0 DEF ReloadInv, Diffed, ToSet, Difference, NamesOf
<1> QED
  BY <1>0, <1>2, <1>3 DEF ReloadInv, ReloadTypeOK, OneOpEach, Merging, Diffed, LastLoaded

LEMMA StepChange ==
    ASSUME ReloadInv, Change
    PROVE  ReloadInv'
<1> DEFINE op == operations[k]
           n == op.mirCfg.name
<1>0. /\ phase = "change" /\ k <= Len(operations) /\ k' = k + 1
      /\ UNCHANGED <<cfg, newMirrors, diffVars, phase, reloads, before>>
      /\ jobs' = IF op.diffOp = "add" \/ n \notin DOMAIN jobs THEN jobs
                 ELSE IF op.diffOp = "delete" THEN Without(jobs, n)
                 ELSE With(jobs, n, Renewed(op.mirCfg, jobs[n].state))
  BY DEF Change
<1>1. /\ operations \in Seq(Ops) /\ k \in DOMAIN operations /\ k \in Nat
      /\ DOMAIN jobs \subseteq Names
  BY <1>0 DEF ReloadInv, ReloadTypeOK, Diffed
<1>2. UNCHANGED operations
  BY <1>0 DEF diffVars
<1>3. CASE op.diffOp = "add"
  <2>1. jobs' = jobs
    BY <1>0, <1>3
  <2>2. Applying'
    BY <1>0, <1>2, <1>3, <2>1, SkipOne
  <2> QED BY <1>0, <1>1, <2>1, <2>2, LoopFrame
<1>4. CASE op.diffOp # "add"
  <2>1. op.diffOp \in {"delete", "modify"} /\ n \in Names /\ n \in DOMAIN before
    BY <1>0, <1>1, <1>4, OpNames
  <2>2. \A x \in DOMAIN operations : Applied(x) => operations[x].mirCfg.name # n
    BY <1>0, <1>1 DEF Applied, ReloadInv, OneOpEach
  <2>3. n \in DOMAIN jobs /\ jobs[n] = before[n]
    BY <1>0, <2>1, <2>2 DEF ReloadInv, Applying, SameJob
  <2>4. CASE op.diffOp = "delete"
    <3>1. jobs' = [m \in DOMAIN jobs \ {n} |-> jobs[m]]
      BY <1>0, <2>3, <2>4 DEF Without
    <3>2. Effect(op, before, jobs') /\ DOMAIN jobs' \subseteq Names
      BY <1>1, <2>4, <3>1 DEF Effect
    <3>3. \A m \in Names : m # n => SameJob(m, jobs, jobs')
      BY <3>1 DEF SameJob
    <3>4. Applying'
      BY <1>0, <1>2, <1>4, <3>2, <3>3, ApplyOne
    <3> QED BY <1>0, <3>2, <3>4, LoopFrame
  <2>5. CASE op.diffOp = "modify"
    <3> DEFINE v == Renewed(op.mirCfg, before[n].state)
    <3>1. jobs' = [m \in DOMAIN jobs \cup {n} |-> IF m = n THEN v ELSE jobs[m]]
      BY <1>0, <2>3, <2>5 DEF With
    <3>2. Effect(op, before, jobs') /\ DOMAIN jobs' \subseteq Names
      <4>1. n \in DOMAIN jobs' /\ jobs'[n] = v /\ DOMAIN jobs' \subseteq Names
        BY <1>1, <2>1, <3>1
      <4> QED BY <2>5, <4>1 DEF Effect
    <3>3. \A m \in Names : m # n => SameJob(m, jobs, jobs')
      BY <3>1 DEF SameJob
    <3>4. Applying'
      BY <1>0, <1>2, <1>4, <3>2, <3>3, ApplyOne
    <3> QED BY <1>0, <3>2, <3>4, LoopFrame
  <2> QED BY <2>1, <2>4, <2>5
<1> QED BY <1>3, <1>4

LEMMA StepAdd ==
    ASSUME ReloadInv, Add
    PROVE  ReloadInv'
<1> DEFINE op == operations[k]
           n == op.mirCfg.name
           v == Job(op.mirCfg, "none", TRUE, TRUE)
<1>0. /\ phase = "add" /\ k <= Len(operations) /\ k' = k + 1
      /\ UNCHANGED <<cfg, newMirrors, diffVars, phase, reloads, before>>
      /\ jobs' = IF op.diffOp # "add" THEN jobs ELSE With(jobs, n, v)
  BY DEF Add
<1>1. /\ operations \in Seq(Ops) /\ k \in DOMAIN operations /\ k \in Nat
      /\ DOMAIN jobs \subseteq Names
  BY <1>0 DEF ReloadInv, ReloadTypeOK, Diffed
<1>2. UNCHANGED operations
  BY <1>0 DEF diffVars
<1>3. CASE op.diffOp # "add"
  <2>1. jobs' = jobs
    BY <1>0, <1>3
  <2>2. Applying'
    BY <1>0, <1>2, <1>3, <2>1, SkipOne
  <2> QED BY <1>0, <1>1, <2>1, <2>2, LoopFrame
<1>4. CASE op.diffOp = "add"
  <2>1. n \in Names
    BY <1>0, <1>1, OpNames
  <2>2. jobs' = [m \in DOMAIN jobs \cup {n} |-> IF m = n THEN v ELSE jobs[m]]
    BY <1>0, <1>4 DEF With
  <2>3. Effect(op, before, jobs') /\ DOMAIN jobs' \subseteq Names
    <3>1. n \in DOMAIN jobs' /\ jobs'[n] = v /\ DOMAIN jobs' \subseteq Names
      BY <1>1, <2>1, <2>2
    <3> QED BY <1>4, <3>1 DEF Effect
  <2>4. \A m \in Names : m # n => SameJob(m, jobs, jobs')
    BY <2>2 DEF SameJob
  <2>5. Applying'
    BY <1>0, <1>2, <1>4, <2>3, <2>4, ApplyOne
  <2> QED BY <1>0, <2>3, <2>5, LoopFrame
<1> QED BY <1>3, <1>4

\* Between the loops: what the first has applied counts in the second.
LEMMA StepChangeDone ==
    ASSUME ReloadInv, ChangeDone
    PROVE  ReloadInv'
<1>0. /\ phase = "change" /\ k > Len(operations) /\ phase' = "add" /\ k' = 1
      /\ UNCHANGED <<cfg, jobs, newMirrors, reloads, before, operations>>
  BY DEF ChangeDone, diffVars
<1>1. operations \in Seq(Ops) /\ k \in Nat /\ Len(operations) \in Nat
  BY <1>0 DEF ReloadInv, ReloadTypeOK, Diffed
<1>2. \A x \in DOMAIN operations : x \in Nat /\ x < k /\ ~(x < 1)
  BY <1>0, <1>1
<1>3. \A x \in DOMAIN operations : Applied(x)' <=> Applied(x)
  BY <1>0, <1>2 DEF Applied
<1>4. Applying'
  BY <1>0, <1>3 DEF ReloadInv, Applying, JobsFor, Effect, SameJob
<1>5. k' \in 1..(Len(operations') + 1)
  BY <1>0, <1>1
<1>6. ToSet(operations)' = Difference(cfg, newMirrors)'
  BY <1>0 DEF ReloadInv, Diffed, ToSet, Difference, NamesOf
<1> QED
  BY <1>0, <1>4, <1>5, <1>6 DEF ReloadInv, ReloadTypeOK, OneOpEach, Merging, Diffed, LastLoaded
\* A job after the reload, by what the difference says of its name.
LEMMA AfterLoops ==
    ASSUME ReloadInv, phase = "add", k > Len(operations), NEW n \in Names
    PROVE  \/ /\ \A d \in Difference(cfg, newMirrors) : d.mirCfg.name # n
              /\ SameJob(n, before, jobs)
           \/ \E d \in Difference(cfg, newMirrors) :
                 d.mirCfg.name = n /\ Effect(d, before, jobs)
<1>1. operations \in Seq(Ops) /\ k \in Nat /\ Len(operations) \in Nat
  BY DEF ReloadInv, ReloadTypeOK, Diffed
<1>2. \A x \in DOMAIN operations : x \in Nat /\ x < k
  BY <1>1
<1>3. \A x \in DOMAIN operations : Applied(x)
  BY <1>2 DEF Applied
<1>4. \A d : d \in Difference(cfg, newMirrors) <=> \E x \in DOMAIN operations : operations[x] = d
  BY DEF ReloadInv, Diffed, ToSet
<1>5. CASE \E x \in DOMAIN operations : operations[x].mirCfg.name = n
  <2>1. PICK x \in DOMAIN operations : operations[x].mirCfg.name = n
    BY <1>5
  <2>2. Effect(operations[x], before, jobs)
    BY <1>3 DEF ReloadInv, Applying
  <2> QED BY <1>4, <2>1, <2>2
<1>6. CASE \A x \in DOMAIN operations : operations[x].mirCfg.name # n
  <2>1. SameJob(n, before, jobs)
    BY <1>6 DEF ReloadInv, Applying
  <2> QED BY <1>4, <1>6, <2>1
<1> QED BY <1>5, <1>6

\* The jobs after the loops are those of the new configuration.
LEMMA JobsAreNew ==
    ASSUME ReloadInv, phase = "add", k > Len(operations)
    PROVE  JobsFor(jobs, newMirrors)
<1> DEFINE D == Difference(cfg, newMirrors)
<1>0. /\ cfg \in Configurations /\ newMirrors \in Configurations
      /\ DOMAIN jobs \subseteq Names
      /\ JobsFor(before, cfg) /\ DOMAIN before = NamesOf(cfg)
  BY DEF ReloadInv, ReloadTypeOK, Applying, JobsFor
<1>1. NamesOf(newMirrors) \subseteq Names
  BY <1>0, MirrorNames DEF NamesOf, Configurations
<1>2. ASSUME NEW n \in Names, n \in DOMAIN jobs
      PROVE  /\ n \in NamesOf(newMirrors)
             /\ jobs[n].config \in newMirrors /\ jobs[n].config.name = n
             /\ jobs[n] \in JobsOf(jobs[n].config)
  <2>1. CASE SameJob(n, before, jobs) /\ \A d \in D : d.mirCfg.name # n
    <3> DEFINE c == before[n].config
    <3>1. /\ n \in DOMAIN before /\ jobs[n] = before[n]
          /\ c \in cfg /\ c.name = n /\ before[n] \in JobsOf(c)
      BY <1>0, <1>2, <2>1 DEF SameJob, JobsFor
    <3>2. n \in NamesOf(newMirrors)
      <4>1. [diffOp |-> "delete", mirCfg |-> c] \notin D
        BY <2>1, <3>1
      <4> QED BY <3>1, <4>1, InDifference
    <3>3. PICK y \in newMirrors : y.name = n
      BY <3>2 DEF NamesOf
    <3>4. y \in cfg
      <4>1. [diffOp |-> "modify", mirCfg |-> y] \notin D
        BY <2>1, <3>3
      <4>2. y.name \in NamesOf(cfg)
        BY <3>1, <3>3 DEF NamesOf
      <4> QED BY <4>1, <4>2, InDifference
    <3>5. y = c
      BY <1>0, <3>1, <3>3, <3>4, SameName
    <3> QED BY <3>1, <3>2, <3>5
  <2>2. ASSUME NEW d \in D, d.mirCfg.name = n, Effect(d, before, jobs)
        PROVE  /\ n \in NamesOf(newMirrors)
               /\ jobs[n].config \in newMirrors /\ jobs[n].config.name = n
               /\ jobs[n] \in JobsOf(jobs[n].config)
    <3>1. d.diffOp # "delete"
      BY <1>2, <2>2 DEF Effect
    <3>2. d.mirCfg \in newMirrors /\ d.diffOp \in {"add", "modify"}
      BY <3>1, InDifference
    <3>3. \/ jobs[n] = Job(d.mirCfg, "none", TRUE, TRUE)
          \/ jobs[n] = Renewed(d.mirCfg, before[n].state)
      BY <2>2, <3>2 DEF Effect
    <3>4. jobs[n].config = d.mirCfg /\ jobs[n] \in JobsOf(d.mirCfg)
      BY <3>3 DEF Renewed, Job, JobsOf
    <3> QED BY <2>2, <3>2, <3>4 DEF NamesOf
  <2> QED BY <2>1, <2>2, AfterLoops
<1>3. ASSUME NEW y \in newMirrors PROVE y.name \in DOMAIN jobs
  <2> DEFINE n == y.name
  <2>0. n \in Names /\ n \in NamesOf(newMirrors)
    BY <1>1 DEF NamesOf
  <2>1. CASE SameJob(n, before, jobs) /\ \A d \in D : d.mirCfg.name # n
    <3>1. [diffOp |-> "add", mirCfg |-> y] \notin D
      BY <2>1
    <3>2. n \in NamesOf(cfg)
      BY <3>1, InDifference
    <3> QED BY <1>0, <2>1, <3>2 DEF SameJob
  <2>2. ASSUME NEW d \in D, d.mirCfg.name = n, Effect(d, before, jobs)
        PROVE  n \in DOMAIN jobs
    <3>1. d.diffOp \in {"add", "modify"}
      BY <2>0, <2>2, InDifference
    <3> QED BY <2>2, <3>1 DEF Effect
  <2> HIDE DEF D
  <2> QED BY <2>0, <2>1, <2>2, AfterLoops DEF D
<1>4. DOMAIN jobs = NamesOf(newMirrors)
  <2>1. NamesOf(newMirrors) \subseteq DOMAIN jobs
    BY <1>3 DEF NamesOf
  <2> QED BY <1>0, <1>2, <2>1
<1> QED BY <1>0, <1>2, <1>4 DEF JobsFor

LEMMA OtherConfig ==
    ASSUME NEW c, NEW s, NEW r, NEW q, NEW m, NEW b, b = Job(c, s, r, q)
    PROVE  b.state = s /\ [b EXCEPT !.config = m] = Job(m, s, r, q)
BY SMT DEF Job

\* And no paused or disabled job was woken.
LEMMA StatesAreKept ==
    ASSUME ReloadInv, phase = "add", k > Len(operations), Done
    PROVE  ReloadKeepsStates'
<1> DEFINE D == Difference(cfg, newMirrors)
<1>0. /\ DOMAIN jobs \subseteq Names /\ JobsFor(before, cfg) /\ DOMAIN before = NamesOf(cfg)
      /\ UNCHANGED <<jobs, before>>
  BY DEF ReloadInv, ReloadTypeOK, Applying, JobsFor, Done
<1> SUFFICES ASSUME NEW n \in DOMAIN jobs
             PROVE  \/ n \in DOMAIN before /\ jobs[n] = before[n]
                    \/ /\ n \in DOMAIN before
                       /\ before[n].state \in {"paused", "disabled"}
                       /\ before[n].config # jobs[n].config
                       /\ jobs[n] = [before[n] EXCEPT !.config = jobs[n].config]
                    \/ /\ n \in DOMAIN before => /\ before[n].state \in {"none", "ready"}
                                                 /\ before[n].config # jobs[n].config
                       /\ jobs[n] = Job(jobs[n].config, "none", TRUE, TRUE)
  BY <1>0 DEF ReloadKeepsStates
<1>1. n \in Names
  BY <1>0
<1>2. CASE SameJob(n, before, jobs)
  BY <1>2 DEF SameJob
<1>3. ASSUME NEW d \in D, d.mirCfg.name = n, Effect(d, before, jobs), d.diffOp = "add"
      PROVE  n \notin DOMAIN before /\ jobs[n] = Job(jobs[n].config, "none", TRUE, TRUE)
  <2>1. n \notin DOMAIN before
    BY <1>0, <1>3, InDifference
  <2>2. jobs[n] = Job(d.mirCfg, "none", TRUE, TRUE)
    BY <1>3 DEF Effect
  <2> QED BY <2>1, <2>2 DEF Job
<1>4. ASSUME NEW d \in D, d.mirCfg.name = n, Effect(d, before, jobs), d.diffOp # "add"
      PROVE  /\ n \in DOMAIN before /\ before[n].config # d.mirCfg
             /\ before[n] \in JobsOf(before[n].config)
             /\ jobs[n] = Renewed(d.mirCfg, before[n].state)
  <2>1. d.diffOp = "modify"
    BY <1>4, InDifference DEF Effect
  <2>2. n \in DOMAIN before /\ d.mirCfg \notin cfg
    BY <1>0, <1>4, <2>1, InDifference
  <2>3. before[n].config \in cfg /\ before[n] \in JobsOf(before[n].config)
    BY <1>0, <2>2 DEF JobsFor
  <2> QED BY <1>4, <2>1, <2>2, <2>3 DEF Effect
<1>5. ASSUME NEW d \in D, d.mirCfg.name = n, Effect(d, before, jobs), d.diffOp # "add"
      PROVE  /\ n \in DOMAIN before /\ before[n].config # jobs[n].config
             /\ \/ /\ before[n].state \in {"paused", "disabled"}
                   /\ jobs[n] = [before[n] EXCEPT !.config = jobs[n].config]
                \/ /\ before[n].state \in {"none", "ready"}
                   /\ jobs[n] = Job(jobs[n].config, "none", TRUE, TRUE)
  <2>0. /\ n \in DOMAIN before /\ before[n].config # d.mirCfg
        /\ jobs[n] = Renewed(d.mirCfg, before[n].state)
    BY <1>4, <1>5
  <2> DEFINE b == before[n]
             c == b.config
             m == d.mirCfg
             e == [b EXCEPT !.config = m]
             st == b.state
  <2>1. b \in JobsOf(c)
    BY <1>4, <1>5
  <2>e. \A s, r, q : b = Job(c, s, r, q) => st = s /\ e = Job(m, s, r, q)
    <3> HIDE DEF b, c, m
    <3> QED BY OtherConfig
  <2> HIDE DEF b, c, m, e, st
  <2>2. CASE b = Job(c, "paused", TRUE, FALSE)
    <3>1. st = "paused" /\ e = Job(m, "paused", TRUE, FALSE)
      BY <2>2, <2>e, Zenon
    <3>2. jobs[n] = Job(m, "paused", TRUE, FALSE)
      BY <2>0, <3>1 DEF Renewed, b, m, st
    <3>3. jobs[n].config = m
      BY <3>2 DEF Job
    <3> QED BY <2>0, <3>1, <3>2, <3>3 DEF b, m, st, e
  <2>3. CASE b = Job(c, "disabled", FALSE, FALSE)
    <3>1. st = "disabled" /\ e = Job(m, "disabled", FALSE, FALSE)
      BY <2>3, <2>e, Zenon
    <3>2. jobs[n] = Job(m, "disabled", FALSE, FALSE)
      BY <2>0, <3>1 DEF Renewed, b, m, st
    <3>3. jobs[n].config = m
      BY <3>2 DEF Job
    <3> QED BY <2>0, <3>1, <3>2, <3>3 DEF b, m, st, e
  <2>4. CASE b.state \in {"none", "ready"}
    <3>1. jobs[n] = Job(m, "none", TRUE, TRUE)
      BY <2>0, <2>4 DEF Renewed, b, m
    <3>2. jobs[n].config = m
      BY <3>1 DEF Job
    <3> QED BY <2>0, <2>4, <3>1, <3>2 DEF b, m
  <2> QED BY <2>1, <2>2, <2>3, <2>4 DEF JobsOf, Job
<1> HIDE DEF D
<1> QED BY <1>1, <1>2, <1>3, <1>5, AfterLoops DEF D
-----------------------------------------------------------------------------
(***************************************************************************)
(* Beginning and end of a reload.                                          *)
(***************************************************************************)

\* The operations of one list are one for each of its mirrors.
LEMMA OneKind ==
    ASSUME NEW c \in Configurations, NEW s \in Sorted(c),
           NEW t \in {"delete", "add", "modify"}
    PROVE  LET ops == OpsOf(t, s)
           IN  /\ ops \in Seq(Ops)
               /\ \A d : d \in ToSet(ops) <=>
                            \E x \in c : d = [diffOp |-> t, mirCfg |-> x]
               /\ \A x, y \in DOMAIN ops : ops[x].mirCfg.name = ops[y].mirCfg.name => x = y
               /\ c = {} => ops = <<>>
<1> DEFINE ops == OpsOf(t, s)
<1>1. PICK m \in 0..MaxName : s \in [1..m -> c]
  BY DEF Sorted, BoundedSeq, SeqOf
<1>2. /\ \A x : x \in c <=> \E a \in DOMAIN s : s[a] = x
      /\ \A x, y \in DOMAIN s : x < y => s[x].name < s[y].name
  BY DEF Sorted, ToSet
<1>3. m \in Nat /\ DOMAIN s = 1..m /\ c \subseteq mirrorConfig
  BY <1>1, ReloadAssumption DEF Configurations
<1>4. /\ ops = [x \in 1..m |-> [diffOp |-> t, mirCfg |-> s[x]]]
      /\ DOMAIN ops = 1..m /\ \A x \in 1..m : ops[x] = [diffOp |-> t, mirCfg |-> s[x]]
  BY <1>3 DEF OpsOf
<1> HIDE DEF ops
<1>5. ops \in Seq(Ops)
  <2>1. \A x \in 1..m : ops[x] \in Ops
    BY <1>1, <1>3, <1>4 DEF Ops
  <2>2. ops \in [1..m -> Ops]
    BY <1>4, <2>1
  <2> QED BY <1>3, <2>2
<1>6. \A d : d \in ToSet(ops) <=> \E x \in c : d = [diffOp |-> t, mirCfg |-> x]
  BY <1>2, <1>3, <1>4 DEF ToSet
<1>7. ASSUME NEW x \in 1..m, NEW y \in 1..m, ops[x].mirCfg.name = ops[y].mirCfg.name
      PROVE  x = y
  <2>1. s[x].name = s[y].name
    BY <1>4, <1>7
  <2>2. s[x].name \in Nat /\ s[y].name \in Nat
    BY <1>1, <1>3, MirrorNames
  <2>3. ~(x < y) /\ ~(y < x)
    BY <1>2, <1>3, <2>1, <2>2
  <2> QED BY <1>3, <2>3
<1>8. c = {} => ops = <<>>
  <2>1. ASSUME c = {} PROVE m = 0
    <3>1. \A a \in 1..m : FALSE
      BY <1>2, <1>3, <2>1
    <3> QED BY <1>3, <3>1
  <2>2. m = 0 => Len(ops) = 0
    BY <1>4, <1>5
  <2> QED BY <1>5, <2>1, <2>2
<1> QED BY <1>4, <1>5, <1>6, <1>7, <1>8 DEF ops

LEMMA StepBegin ==
    ASSUME ReloadInv, NEW new \in Configurations, Begin(new)
    PROVE  ReloadInv'
<1>0. /\ phase = "idle" /\ reloads' = reloads + 1 /\ newMirrors' = new
      /\ before' = jobs /\ UNCHANGED <<cfg, jobs>>
  BY DEF Begin
<1>1. /\ cfg \in Configurations /\ JobsFor(jobs, cfg) /\ reloads \in Nat
      /\ DOMAIN jobs \subseteq Names
  BY <1>0 DEF ReloadInv, ReloadTypeOK, Applying
<1>2. JobsFor(before, cfg)'
  BY <1>0, <1>1 DEF JobsFor
<1>3. PICK o \in Sorted(cfg), n \in Sorted(new) :
          \/ /\ cfg # {} /\ new # {}
             /\ oList' = WithTail(o) /\ nList' = WithTail(n)
             /\ i' = 1 /\ j' = 1
             /\ operations' = <<>>
             /\ phase' = "diff" /\ k' = 0
          \/ /\ cfg = {} \/ new = {}
             /\ operations' = OpsOf("delete", o) \o OpsOf("add", n)
             /\ phase' = "change" /\ k' = 1
  BY DEF Begin
<1>4. CASE phase' = "diff"
  <2>1. /\ oList' = WithTail(o) /\ nList' = WithTail(n)
        /\ i' = 1 /\ j' = 1 /\ operations' = <<>>
    BY <1>3, <1>4
  <2>2. IsMergeList(WithTail(o), cfg) /\ IsMergeList(WithTail(n), new)
    BY <1>1, TailIsLast
  <2>3. IsMergeList(oList, cfg)' /\ IsMergeList(nList, newMirrors)'
    BY <1>0, <2>1, <2>2 DEF IsMergeList
  <2>4. Len(oList') \in Nat /\ Len(oList') >= 1 /\ Len(nList') \in Nat /\ Len(nList') >= 1
    BY <2>3 DEF IsMergeList
  <2>5. Cursors'
    <3>1. i' \in 1..(Len(oList') + 1) /\ j' \in 1..(Len(nList') + 1)
      BY <2>1, <2>4
    <3>2. (i' = Len(oList') + 1) = FALSE /\ (j' = Len(nList') + 1) = FALSE
      BY <2>1, <2>4
    <3>3. /\ \A a \in 1..Len(oList') : ~(a < i')
          /\ \A b \in 1..Len(nList') : ~(b < j')
      BY <2>1, <2>4
    <3> QED BY <3>1, <3>2, <3>3 DEF Cursors
  <2>6. Passed' = {}
    <3>1. /\ \A a \in 1..Len(oList') : ~(a < i')
          /\ \A b \in 1..Len(nList') : ~(b < j')
      BY <2>1, <2>4
    <3> QED BY <3>1 DEF Passed
  <2>7. operations' \in Seq(Ops) /\ DOMAIN operations' = {}
    BY <2>1
  <2>8. DiffOfPassed' /\ OneOpEach'
    BY <2>6, <2>7 DEF DiffOfPassed, OneOpEach
  <2> QED
    BY <1>0, <1>1, <1>2, <1>4, <2>3, <2>5, <2>7, <2>8
       DEF ReloadInv, ReloadTypeOK, Merging, Diffed, Applying, LastLoaded
<1>5. CASE phase' = "change"
  <2> DEFINE del == OpsOf("delete", o)
             add == OpsOf("add", n)
             D == Difference(cfg, new)
  <2>0. (cfg = {} \/ new = {}) /\ operations' = del \o add /\ k' = 1
    BY <1>3, <1>5
  <2>1. /\ del \in Seq(Ops)
        /\ \A d : d \in ToSet(del) <=> \E x \in cfg : d = [diffOp |-> "delete", mirCfg |-> x]
        /\ \A x, y \in DOMAIN del : del[x].mirCfg.name = del[y].mirCfg.name => x = y
        /\ cfg = {} => del = <<>>
    BY <1>1, OneKind
  <2>2. /\ add \in Seq(Ops)
        /\ \A d : d \in ToSet(add) <=> \E x \in new : d = [diffOp |-> "add", mirCfg |-> x]
        /\ \A x, y \in DOMAIN add : add[x].mirCfg.name = add[y].mirCfg.name => x = y
        /\ new = {} => add = <<>>
    BY OneKind
  <2> HIDE DEF del, add, D
  <2>5. operations' \in Seq(Ops) /\ ToSet(operations') = D /\ OneOpEach'
    <3>3. CASE cfg = {}
      <4>1. operations' = add
        BY <2>0, <2>1, <2>2, <3>3
      <4>2. \A d : d \in D <=> \E x \in new : d = [diffOp |-> "add", mirCfg |-> x]
        <5>1. NamesOf(cfg) = {}
          BY <3>3 DEF NamesOf
        <5> QED BY <3>3, <5>1, InDifference DEF D
      <4>3. ToSet(add) = D
        BY <2>2, <4>2
      <4> QED BY <2>2, <4>1, <4>3 DEF OneOpEach
    <3>4. CASE new = {}
      <4>1. operations' = del
        BY <2>0, <2>1, <2>2, <3>4
      <4>2. \A d : d \in D <=> \E x \in cfg : d = [diffOp |-> "delete", mirCfg |-> x]
        <5>1. NamesOf(new) = {}
          BY <3>4 DEF NamesOf
        <5> QED BY <3>4, <5>1, InDifference DEF D
      <4>3. ToSet(del) = D
        BY <2>1, <4>2
      <4> QED BY <2>1, <4>1, <4>3 DEF OneOpEach
    <3> QED BY <2>0, <3>3, <3>4
  <2>6. Diffed'
    <3>1. D = Difference(cfg, newMirrors)' /\ ToSet(operations') = ToSet(operations)'
      BY <1>0 DEF D, Difference, NamesOf, ToSet
    <3>2. Len(operations') \in Nat
      BY <2>5
    <3>3. k' \in 1..(Len(operations') + 1)
      BY <2>0, <3>2
    <3> QED BY <2>5, <3>1, <3>3 DEF Diffed
  <2>7. Applying'
    <3>1. \A x \in DOMAIN operations' : x \in Nat /\ ~(x < 1)
      BY <2>5
    <3>2. \A x \in DOMAIN operations' : ~Applied(x)'
      BY <1>5, <2>0, <3>1 DEF Applied
    <3>3. \A m \in Names : SameJob(m, before, jobs)'
      BY <1>0 DEF SameJob
    <3> QED BY <1>2, <1>5, <3>2, <3>3 DEF Applying
  <2> QED
    BY <1>0, <1>1, <1>5, <2>5, <2>6, <2>7
       DEF ReloadInv, ReloadTypeOK, Merging, LastLoaded
<1> QED BY <1>3, <1>4, <1>5

LEMMA StepDone ==
    ASSUME ReloadInv, Done
    PROVE  ReloadInv' /\ ReloadKeepsStates'
<1>0. /\ phase = "add" /\ k > Len(operations) /\ cfg' = newMirrors /\ phase' = "idle"
      /\ UNCHANGED <<jobs, newMirrors, operations, reloads, before>>
  BY DEF Done, diffVars
<1>1. JobsFor(jobs, newMirrors)
  BY <1>0, JobsAreNew
<1>2. JobsFor(jobs, cfg)'
  BY <1>0, <1>1 DEF JobsFor
<1>3. ReloadKeepsStates'
  BY <1>0, StatesAreKept
<1> QED
  BY <1>0, <1>2, <1>3 DEF ReloadInv, ReloadTypeOK, OneOpEach, Merging, Diffed, Applying, LastLoaded

LEMMA InitReload == ReloadInit => ReloadInv /\ ReloadKeepsStates
<1> SUFFICES ASSUME ReloadInit PROVE ReloadInv /\ ReloadKeepsStates
  OBVIOUS
<1>0. /\ cfg \in Configurations /\ DOMAIN jobs = NamesOf(cfg)
      /\ \A n \in NamesOf(cfg) : jobs[n] \in JobsOf(ConfigOf(cfg, n))
      /\ newMirrors = {} /\ operations = <<>> /\ phase = "idle" /\ reloads = 0
      /\ before = jobs
  BY DEF ReloadInit
<1>1. ASSUME NEW n \in NamesOf(cfg)
      PROVE  /\ jobs[n].config \in cfg /\ jobs[n].config.name = n
             /\ jobs[n] \in JobsOf(jobs[n].config)
  <2> DEFINE c == ConfigOf(cfg, n)
  <2>1. c \in cfg /\ c.name = n
    <3>1. \E x \in cfg : x.name = n
      BY DEF NamesOf
    <3> QED BY <3>1 DEF ConfigOf
  <2>2. jobs[n] \in JobsOf(c)
    BY <1>0
  <2> HIDE DEF c
  <2>3. jobs[n].config = c
    BY <2>2 DEF JobsOf, Job
  <2> QED BY <2>1, <2>2, <2>3
<1>2. JobsFor(jobs, cfg)
  BY <1>0, <1>1 DEF JobsFor
<1>3. NamesOf(cfg) \subseteq Names /\ {} \in Configurations
  BY <1>0, MirrorNames DEF NamesOf, Configurations
<1>4. operations \in Seq(Ops) /\ DOMAIN operations = {}
  BY <1>0
<1>5. ReloadTypeOK /\ OneOpEach
  BY <1>0, <1>3, <1>4 DEF ReloadTypeOK, OneOpEach
<1>6. ReloadKeepsStates
  BY <1>0 DEF ReloadKeepsStates
<1> QED
  BY <1>0, <1>2, <1>5, <1>6 DEF ReloadInv, Merging, Diffed, Applying, LastLoaded

LEMMA NextReload ==
    ASSUME ReloadInv, ReloadKeepsStates, [ReloadNext]_reloadVars
    PROVE  ReloadInv' /\ ReloadKeepsStates'
<1>1. CASE \E new \in Configurations : Begin(new)
  <2>1. PICK new \in Configurations : Begin(new)
    BY <1>1
  <2>2. phase' # "idle"
    BY <2>1 DEF Begin
  <2> QED BY <2>1, <2>2, StepBegin DEF ReloadKeepsStates
<1>2. CASE Merge
  BY <1>2, StepMerge DEF Merge, ReloadKeepsStates
<1>3. CASE MergeDone
  BY <1>3, StepMergeDone DEF MergeDone, ReloadKeepsStates
<1>4. CASE Change
  BY <1>4, StepChange DEF Change, ReloadKeepsStates
<1>5. CASE ChangeDone
  BY <1>5, StepChangeDone DEF ChangeDone, ReloadKeepsStates
<1>6. CASE Add
  BY <1>6, StepAdd DEF Add, ReloadKeepsStates
<1>7. CASE Done
  BY <1>7, StepDone
<1>8. CASE UNCHANGED reloadVars
  <2>1. UNCHANGED <<cfg, jobs, newMirrors, oList, nList, i, j, operations, phase, k, reloads,
                    before>>
    BY <1>8 DEF reloadVars, diffVars
  <2>2. ReloadTypeOK' /\ OneOpEach' /\ LastLoaded'
    BY <2>1 DEF ReloadInv, ReloadTypeOK, OneOpEach, LastLoaded
  <2>3. Merging'
    <3>1. Passed' = Passed /\ Difference(cfg, newMirrors)' = Difference(cfg, newMirrors)
      BY <2>1 DEF Passed, Difference, NamesOf
    <3>2. DiffOfPassed => DiffOfPassed'
      BY <2>1, <3>1 DEF DiffOfPassed
    <3>3. Cursors => Cursors'
      BY <2>1 DEF Cursors
    <3>4. /\ IsMergeList(oList, cfg) => IsMergeList(oList, cfg)'
          /\ IsMergeList(nList, newMirrors) => IsMergeList(nList, newMirrors)'
      BY <2>1 DEF IsMergeList
    <3> QED BY <2>1, <3>2, <3>3, <3>4 DEF ReloadInv, Merging
  <2>4. Diffed'
    BY <2>1 DEF ReloadInv, Diffed, ToSet, Difference, NamesOf
  <2>5. Applying'
    BY <2>1 DEF ReloadInv, Applying, JobsFor, Applied, Effect, SameJob
  <2>6. ReloadKeepsStates'
    BY <2>1 DEF ReloadKeepsStates
  <2> QED BY <2>2, <2>3, <2>4, <2>5, <2>6 DEF ReloadInv
<1> QED
  BY <1>1, <1>2, <1>3, <1>4, <1>5, <1>6, <1>7, <1>8 DEF ReloadNext, NoMoreReloads

-----------------------------------------------------------------------------
(***************************************************************************)
(* The theorems.                                                           *)
(***************************************************************************)

\* The inductive invariant of reloading, with the property of its end.
THEOREM ReloadInvariant == ReloadSpec => [](ReloadInv /\ ReloadKeepsStates)
<1>1. ReloadInv /\ ReloadKeepsStates /\ [ReloadNext]_reloadVars =>
          (ReloadInv /\ ReloadKeepsStates)'
  BY NextReload
<1> QED BY <1>1, InitReload, PTL DEF ReloadSpec

\* A reload leaves a job of the same configuration alone, does not wake a
\* paused or disabled one and schedules the others it touches
\* (ReloadMirrorConfig).
THEOREM StatesKept == ReloadSpec => []ReloadKeepsStates
BY ReloadInvariant, PTL

\* diffMirrorConfig returns the difference of the two lists, each operation
\* once, whatever the lists.
THEOREM MergeIsDifference == ReloadSpec => []DiffIsDifference
<1>1. ReloadInv => DiffIsDifference
  BY DEF ReloadInv, Diffed, OneOpEach, DiffIsDifference, IsInjective
<1> QED BY <1>1, ReloadInvariant, PTL

\* After any number of reloads w.jobs has the jobs of w.cfg.Mirrors, made from
\* it, and w.cfg.Mirrors is what was loaded last.
THEOREM JobsOfConfig == ReloadSpec => []JobsMatchConfig
<1>1. ASSUME ReloadInv PROVE JobsMatchConfig
  <2> SUFFICES ASSUME phase = "idle"
               PROVE  /\ {jobs[n].config : n \in DOMAIN jobs} = cfg
                      /\ \A n \in DOMAIN jobs : jobs[n].config.name = n
                      /\ reloads > 0 => cfg = newMirrors
    BY DEF JobsMatchConfig
  <2>1. JobsFor(jobs, cfg) /\ cfg \in Configurations
    BY <1>1 DEF ReloadInv, ReloadTypeOK, Applying
  <2>2. ASSUME NEW x \in cfg PROVE \E n \in DOMAIN jobs : jobs[n].config = x
    <3>1. x.name \in DOMAIN jobs
      BY <2>1 DEF JobsFor, NamesOf
    <3>2. jobs[x.name].config \in cfg /\ jobs[x.name].config.name = x.name
      BY <2>1, <3>1 DEF JobsFor
    <3>3. jobs[x.name].config = x
      BY <2>1, <3>2, SameName
    <3> QED BY <3>1, <3>3
  <2>3. {jobs[n].config : n \in DOMAIN jobs} = cfg
    BY <2>1, <2>2 DEF JobsFor
  <2> QED BY <1>1, <2>1, <2>3 DEF JobsFor, ReloadInv, LastLoaded
<1> QED BY <1>1, ReloadInvariant, PTL
-----------------------------------------------------------------------------
(***************************************************************************)
(* Every configuration has its sorted list, so that the specification      *)
(* leaves out no reload: by the least bound on names for which it has not. *)
(***************************************************************************)

\* Every non-empty set of naturals has a least element.
LEMMA LeastElement ==
    ASSUME NEW T, T \subseteq Nat, T # {}
    PROVE  \E n \in T : \A m \in T : n <= m
<1> DEFINE R == {ss \in Nat \X Nat : ss[1] < ss[2]}
<1>1. IsWellFoundedOn(R, Nat)
  BY NatLessThanWellFounded DEF OpToRel
<1>2. PICK x \in T : \A y \in T : ~(<<y, x>> \in R)
  <2> HIDE DEF R
  <2> QED BY <1>1, WFMin
<1>3. ASSUME NEW y \in T PROVE x <= y
  <2>1. x \in Nat /\ y \in Nat /\ ~(<<y, x>> \in R)
    BY <1>2
  <2>2. ~(y < x)
    BY <2>1
  <2> QED BY <2>1, <2>2
<1> QED BY <1>3

\* s lists the elements of c by name, and there are l of them.
Lists(s, l, c) ==
    /\ s \in [1..l -> c]
    /\ \A x \in c : \E a \in 1..l : s[a] = x
    /\ \A a, b \in 1..l : a < b => s[a].name < s[b].name

\* The configurations with names up to m.
UpTo(m) == {c \in Configurations : \A x \in c : x.name <= m}

Listable(m) == \A c \in UpTo(m) : \E l \in 0..m : \E s : Lists(s, l, c)

\* A mirror whose name comes after all others goes to the end of the list.
LEMMA ListOneMore ==
    ASSUME NEW c \in SUBSET mirrorConfig, NEW d, NEW l \in Nat, NEW s, Lists(s, l, d),
           NEW x, c = d \cup {x}, \A y \in d : y.name < x.name
    PROVE  \E t : Lists(t, l + 1, c)
<1> DEFINE t == [a \in 1..(l + 1) |-> IF a = l + 1 THEN x ELSE s[a]]
<1>1. \A a \in 1..(l + 1) : a # l + 1 => a \in 1..l
  OBVIOUS
<1>2. \A a \in 1..l : a \in 1..(l + 1) /\ a # l + 1 /\ s[a] \in d
  BY DEF Lists
<1>3. l + 1 \in 1..(l + 1)
  OBVIOUS
<1>4. /\ t[l + 1] = x
      /\ \A a \in 1..l : t[a] = s[a]
  BY <1>2, <1>3
<1>5. t \in [1..(l + 1) -> c]
  BY <1>1, <1>2
<1> HIDE DEF t
<1>6. ASSUME NEW y \in c PROVE \E a \in 1..(l + 1) : t[a] = y
  <2>1. CASE y = x
    BY <1>3, <1>4, <2>1
  <2>2. CASE y \in d
    <3>1. PICK a \in 1..l : s[a] = y
      BY <2>2 DEF Lists
    <3> QED BY <1>2, <1>4, <3>1
  <2> QED BY <2>1, <2>2
<1>7. ASSUME NEW a \in 1..(l + 1), NEW b \in 1..(l + 1), a < b
      PROVE  t[a].name < t[b].name
  <2>1. a \in 1..l
    BY <1>7
  <2>2. CASE b = l + 1
    BY <1>2, <1>4, <2>1, <2>2
  <2>3. CASE b # l + 1
    <3>1. b \in 1..l
      BY <1>1, <2>3
    <3> QED BY <1>4, <1>7, <2>1, <3>1 DEF Lists
  <2> QED BY <2>2, <2>3
<1>8. Lists(t, l + 1, c)
  BY <1>5, <1>6, <1>7 DEF Lists
<1> QED BY <1>8

LEMMA ListableStep ==
    ASSUME NEW m \in Nat, Listable(m)
    PROVE  Listable(m + 1)
<1> SUFFICES ASSUME NEW c \in UpTo(m + 1)
             PROVE  \E l \in 0..(m + 1) : \E s : Lists(s, l, c)
  BY DEF Listable
<1> DEFINE d == {x \in c : x.name <= m}
<1>0. /\ c \in SUBSET mirrorConfig /\ \A x, y \in c : x.name = y.name => x = y
      /\ \A x \in c : x.name \in Nat /\ x.name <= m + 1
  BY MirrorNames DEF UpTo, Configurations
<1>1. d \in UpTo(m)
  BY <1>0 DEF UpTo, Configurations
<1>2. PICK l \in 0..m : \E s : Lists(s, l, d)
  BY <1>1 DEF Listable
<1>3. PICK s : Lists(s, l, d)
  BY <1>2
<1>4. l \in Nat /\ l \in 0..(m + 1) /\ l + 1 \in 0..(m + 1)
  OBVIOUS
<1>5. CASE d = c
  BY <1>3, <1>4, <1>5
<1>6. CASE d # c
  <2>1. PICK x \in c : ~(x.name <= m)
    BY <1>6
  <2>2. x.name = m + 1
    BY <1>0, <2>1
  <2>3. \A y \in c : ~(y.name <= m) => y = x
    <3>1. ASSUME NEW y \in c, ~(y.name <= m) PROVE y.name = m + 1
      BY <1>0, <3>1
    <3> QED BY <1>0, <2>2, <3>1
  <2>4. c = d \cup {x}
    BY <2>3
  <2>5. \A y \in d : y.name < x.name
    BY <1>0, <2>2
  <2> HIDE DEF d
  <2>6. \E t : Lists(t, l + 1, c)
    BY <1>0, <1>3, <1>4, <2>4, <2>5, ListOneMore
  <2> QED BY <1>4, <2>6
<1> QED BY <1>5, <1>6

\* sort.Sort has a result for every list of mirrors without a name twice:
\* what is proved of reloads is proved of a reload from any configuration to any
\* other (diffMirrorConfig).
THEOREM EveryConfigurationSorted ==
    ASSUME NEW c \in Configurations
    PROVE  Sorted(c) # {}
<1> DEFINE T == {m \in Nat : ~Listable(m)}
<1>1. Listable(0)
  <2> SUFFICES ASSUME NEW d \in UpTo(0) PROVE \E l \in 0..0 : \E s : Lists(s, l, d)
    BY DEF Listable
  <2>1. \A x \in d : x.name \in Nat /\ x.name >= 1 /\ x.name <= 0
    BY MirrorNames DEF UpTo, Configurations
  <2>2. d = {}
    BY <2>1
  <2>3. Lists([a \in 1..0 |-> 0], 0, d)
    BY <2>2 DEF Lists
  <2> QED BY <2>3
<1>2. T = {}
  <2>1. SUFFICES ASSUME T # {} PROVE FALSE
    OBVIOUS
  <2>2. PICK m \in T : \A n \in T : m <= n
    BY <2>1, LeastElement
  <2>3. m \in Nat /\ ~Listable(m) /\ m # 0
    BY <1>1, <2>2
  <2>4. m - 1 \in Nat /\ ~(m <= m - 1) /\ (m - 1) + 1 = m
    BY <2>3
  <2>5. Listable(m - 1)
    BY <2>2, <2>4
  <2>6. Listable((m - 1) + 1)
    BY <2>4, <2>5, ListableStep
  <2> QED BY <2>3, <2>4, <2>6
<1>3. Listable(MaxName)
  BY <1>2, ReloadAssumption
<1>4. c \in UpTo(MaxName)
  BY MirrorNames DEF UpTo, Configurations
<1>5. PICK l \in 0..MaxName : \E s : Lists(s, l, c)
  BY <1>3, <1>4 DEF Listable
<1>6. PICK s : Lists(s, l, c)
  BY <1>5
<1>7. DOMAIN s = 1..l /\ s \in BoundedSeq(c, MaxName)
  BY <1>6 DEF Lists, BoundedSeq, SeqOf
<1>8. ToSet(s) = c
  BY <1>6, <1>7 DEF Lists, ToSet
<1>9. s \in Sorted(c)
  BY <1>6, <1>7, <1>8 DEF Lists, Sorted
<1> QED BY <1>9
=============================================================================
