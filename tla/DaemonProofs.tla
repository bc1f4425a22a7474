---------------------------- MODULE DaemonProofs ----------------------------
(***************************************************************************)
(* Proofs about the Daemon module, for configuration files of any length   *)
(* and depth and any number of edits and signals.  The inductions over the *)
(* entries of a file go by the least entry that would be wrong.            *)
(***************************************************************************)
EXTENDS Daemon, WellFoundedInduction, TLAPS

\* Every non-empty set of naturals has a least element.
LEMMA Least ==
    ASSUME NEW T, T \subseteq Nat, T # {}
    PROVE  \E n \in T : \A m \in T : n <= m
<1> DEFINE R == {ss \in Nat \X Nat : ss[1] < ss[2]}
<1>1. IsWellFoundedOn(R, Nat)
  BY NatLessThanWellFounded DEF OpToRel
<1>2. PICK x \in T : \A y \in T : ~(<<y, x>> \in R)
  <2> HIDE DEF R
  <2> QED BY <1>1, WFMin
<1>3. ASSUME NEW y \in T PROVE x <= y
  <2>1. x \in Nat /\ y \in Nat /\ ~(<<y, x>> \in R)
    BY <1>2
  <2>2. ~(y < x)
    BY <2>1
  <2> QED BY <2>1, <2>2
<1> QED BY <1>3

\* The entry around an entry is before it.
LEMMA ParentBefore ==
    ASSUME NEW e, WellFormed(e)
    PROVE  /\ Len(e) \in Nat /\ DOMAIN e = 1..Len(e)
           /\ \A n \in 1..Len(e) : e[n].parent \in 0..(n - 1)
<1>0. Len(e) \in Nat /\ DOMAIN e = 1..Len(e)
  BY DEF WellFormed
<1>a. ASSUME NEW n \in 1..Len(e) PROVE e[n].parent \in 0..(n-1)
  <2>1. e[n] \in MirrorEntry /\ e[n].parent < n
    BY <1>0 DEF WellFormed
  <2>2. e[n].parent \in Nat /\ n \in Nat
    BY <1>0, <2>1 DEF MirrorEntry
  <2> QED BY <2>1, <2>2
<1> QED BY <1>0, <1>a

-----------------------------------------------------------------------------
(***************************************************************************)
(* The recursive functions exist and satisfy their equations: a partial    *)
(* solution for k entries extends to k + 1, because parents come first.    *)
(***************************************************************************)

\* Entry n of e when g is what its ancestors have inherited.
Inherit(e, g, n) ==
    Merge(IF e[n].parent = 0 THEN NoSettings ELSE g[e[n].parent], e[n].fields)

IsInherited(e, g, k) == g = [n \in 1..k |-> Inherit(e, g, n)]

\* recursiveMirrors has a solution.
LEMMA InheritedExists ==
    ASSUME NEW e, WellFormed(e)
    PROVE  \E g : IsInherited(e, g, Len(e))
<1>0. Len(e) \in Nat /\ DOMAIN e = 1..Len(e)
  BY ParentBefore
<1>a. \A n \in 1..Len(e) : e[n].parent \in 0..(n - 1)
  BY ParentBefore
<1> DEFINE T == {k \in 0..Len(e) : ~ \E g : IsInherited(e, g, k)}
<1>1. SUFFICES T = {}
  <2>1. Len(e) \in 0..Len(e)
    BY <1>0
  <2> QED BY <1>1, <2>1
<1>2. SUFFICES ASSUME T # {} PROVE FALSE
  OBVIOUS
<1>3. T \subseteq Nat
  BY <1>0
<1>4. PICK k \in T : \A m \in T : k <= m
  BY <1>2, <1>3, Least
<1>5. IsInherited(e, <<>>, 0)
  BY DEF IsInherited
<1>6. k # 0 /\ k \in 1..Len(e) /\ k - 1 \in 0..Len(e) /\ ~(k <= k - 1)
  BY <1>0, <1>4, <1>5
<1>7. PICK g : IsInherited(e, g, k - 1)
  BY <1>4, <1>6
<1> DEFINE h == [n \in 1..k |-> IF n = k THEN Inherit(e, g, k) ELSE g[n]]
<1>8. \A n \in 1..k : e[n].parent # 0 => e[n].parent \in 1..(k-1)
  BY <1>0, <1>a, <1>6
<1>9. ASSUME NEW n \in 1..k PROVE Inherit(e, h, n) = Inherit(e, g, n)
  <2>1. e[n].parent # 0 => h[e[n].parent] = g[e[n].parent]
    BY <1>6, <1>8
  <2> HIDE DEF h
  <2> QED BY <2>1 DEF Inherit
<1>10. ASSUME NEW n \in 1..k PROVE h[n] = Inherit(e, h, n)
  <2>1. CASE n = k
    BY <1>9, <2>1
  <2>2. CASE n # k
    <3>1. n \in 1..(k-1)
      BY <1>6, <2>2
    <3> QED BY <1>7, <1>9, <2>2, <3>1 DEF IsInherited
  <2> QED BY <2>1, <2>2
<1>11. h = [n \in 1..k |-> h[n]]
  OBVIOUS
<1>12. IsInherited(e, h, k)
  <2> HIDE DEF h
  <2> QED BY <1>10, <1>11 DEF IsInherited
<1> QED BY <1>4, <1>12

\* recursiveMirrors gives every entry what it inherits from its parent.
LEMMA Inherited ==
    ASSUME NEW e, WellFormed(e)
    PROVE  /\ DOMAIN recursiveMirrors(e) = DOMAIN e
           /\ \A n \in DOMAIN e : recursiveMirrors(e)[n] = Inherit(e, recursiveMirrors(e), n)
<1>1. DOMAIN e = 1..Len(e)
  BY DEF WellFormed
<1>2. recursiveMirrors(e) = CHOOSE g : IsInherited(e, g, Len(e))
  BY <1>1 DEF recursiveMirrors, IsInherited, Inherit
<1>3. IsInherited(e, recursiveMirrors(e), Len(e))
  BY <1>2, InheritedExists
<1> QED BY <1>1, <1>3 DEF IsInherited

\* u gives each of the entries up to k the entries on the way to it.
IsLineage(e, u, k) ==
    u = [m \in 0..k |-> IF m = 0 THEN {} ELSE {m} \cup u[e[m].parent]]

\* Lineage has a solution.
LEMMA LineageExists ==
    ASSUME NEW e, WellFormed(e)
    PROVE  \E u : IsLineage(e, u, Len(e))
<1>0. Len(e) \in Nat
  BY ParentBefore
<1>a. \A n \in 1..Len(e) : e[n].parent \in 0..(n - 1)
  BY ParentBefore
<1> DEFINE T == {k \in 0..Len(e) : ~ \E u : IsLineage(e, u, k)}
<1>1. SUFFICES T = {}
  <2>1. Len(e) \in 0..Len(e)
    BY <1>0
  <2> QED BY <1>1, <2>1
<1>2. SUFFICES ASSUME T # {} PROVE FALSE
  OBVIOUS
<1>3. T \subseteq Nat
  BY <1>0
<1>4. PICK k \in T : \A m \in T : k <= m
  BY <1>2, <1>3, Least
<1>5. IsLineage(e, [m \in 0..0 |-> {}], 0)
  BY DEF IsLineage
<1>6. k # 0 /\ k \in 1..Len(e) /\ k - 1 \in 0..Len(e) /\ ~(k <= k - 1)
  BY <1>0, <1>4, <1>5
<1>7. PICK u : IsLineage(e, u, k - 1)
  BY <1>4, <1>6
<1> DEFINE h == [m \in 0..k |-> IF m = k THEN {k} \cup u[e[k].parent] ELSE u[m]]
<1>8. \A n \in 1..k : e[n].parent \in 0..(k - 1)
  BY <1>0, <1>a, <1>6
<1>9. ASSUME NEW n \in 1..k PROVE h[e[n].parent] = u[e[n].parent]
  BY <1>6, <1>8
<1>10. ASSUME NEW n \in 0..k
       PROVE  h[n] = IF n = 0 THEN {} ELSE {n} \cup h[e[n].parent]
  <2>1. CASE n = k
    <3>1. h[n] = {k} \cup u[e[k].parent]
      BY <2>1
    <3>2. n \in 1..k
      BY <1>6, <2>1
    <3> HIDE DEF h
    <3> QED BY <1>6, <1>9, <2>1, <3>1, <3>2
  <2>2. CASE n # k
    <3>1. n \in 0..(k-1) /\ h[n] = u[n]
      BY <1>6, <2>2
    <3>2. u[n] = IF n = 0 THEN {} ELSE {n} \cup u[e[n].parent]
      BY <1>7, <3>1 DEF IsLineage
    <3>3. n # 0 => n \in 1..k
      BY <1>6
    <3> HIDE DEF h
    <3> QED BY <1>9, <3>1, <3>2, <3>3
  <2> QED BY <2>1, <2>2
<1>11. h = [n \in 0..k |-> h[n]]
  OBVIOUS
<1>12. IsLineage(e, h, k)
  <2> HIDE DEF h
  <2> QED BY <1>10, <1>11 DEF IsLineage
<1> QED BY <1>4, <1>12

\* The way to an entry is the way to its parent and itself.
LEMMA LineageOf ==
    ASSUME NEW e, WellFormed(e), NEW n \in DOMAIN e
    PROVE  Lineage(e, n) = {n} \cup (IF e[n].parent = 0 THEN {}
                                     ELSE Lineage(e, e[n].parent))
<1> DEFINE up == CHOOSE u : IsLineage(e, u, Len(e))
<1>1. DOMAIN e = 1..Len(e) /\ Len(e) \in Nat /\ e[n].parent \in 0..(n - 1)
  BY ParentBefore
<1>2. {0} \cup DOMAIN e = 0..Len(e)
  BY <1>1
<1>3. \A m : Lineage(e, m) = up[m]
  BY <1>2 DEF Lineage, IsLineage
<1>4. IsLineage(e, up, Len(e))
  BY LineageExists
<1> HIDE DEF up
<1>5. up[0] = {} /\ up[n] = {n} \cup up[e[n].parent]
  BY <1>1, <1>4 DEF IsLineage
<1> QED BY <1>3, <1>5

-----------------------------------------------------------------------------
(***************************************************************************)
(* What recursiveMirrors computes is what the file describes.              *)
(***************************************************************************)

\* A number of a set that is not below any other is its maximum.
LEMMA MaxIs ==
    ASSUME NEW S, S \subseteq Nat, NEW x \in S, \A y \in S : y <= x
    PROVE  Max(S) = x
<1>1. \A y \in S : x >= y
  OBVIOUS
<1>2. Max(S) \in S /\ \A y \in S : Max(S) >= y
  BY <1>1 DEF Max
<1>3. Max(S) \in Nat /\ x \in Nat /\ Max(S) >= x /\ x >= Max(S)
  BY <1>1, <1>2
<1> QED BY <1>3

\* The entries on the way to entry n that set field f, and what they make of it.
Givers(e, n, f) == {m \in Lineage(e, n) : e[m].fields[f] # Empty}

Written(e, n, f) ==
    IF Givers(e, n, f) = {} THEN Empty ELSE e[Max(Givers(e, n, f))].fields[f]

\* The way to an entry leads through entries before it.
LEMMA LineageBefore ==
    ASSUME NEW e, WellFormed(e)
    PROVE  \A n \in DOMAIN e : Lineage(e, n) \subseteq 1..n
<1>0. Len(e) \in Nat /\ DOMAIN e = 1..Len(e)
  BY ParentBefore
<1> DEFINE T == {n \in DOMAIN e : ~(Lineage(e, n) \subseteq 1..n)}
<1>1. SUFFICES ASSUME T # {} PROVE FALSE
  OBVIOUS
<1>2. T \subseteq Nat
  BY <1>0
<1>3. PICK n \in T : \A m \in T : n <= m
  BY <1>1, <1>2, Least
<1>4. n \in 1..Len(e) /\ e[n].parent \in 0..(n - 1)
  BY <1>0, <1>3, ParentBefore
<1>5. e[n].parent # 0 => e[n].parent \in DOMAIN e /\ ~(n <= e[n].parent)
  BY <1>0, <1>4
<1>6. e[n].parent # 0 => Lineage(e, e[n].parent) \subseteq 1..e[n].parent
  BY <1>3, <1>5
<1>7. e[n].parent # 0 => Lineage(e, e[n].parent) \subseteq 1..n
  BY <1>4, <1>6
<1>8. Lineage(e, n) \subseteq 1..n
  BY <1>0, <1>4, <1>7, LineageOf
<1> QED BY <1>3, <1>8

\* One entry: its own field if it is set, and its parent's otherwise.
LEMMA WrittenStep ==
    ASSUME NEW e, WellFormed(e), NEW n \in DOMAIN e, NEW f \in Fields
    PROVE  Written(e, n, f) = IF e[n].fields[f] # Empty THEN e[n].fields[f]
                              ELSE IF e[n].parent = 0 THEN Empty
                              ELSE Written(e, e[n].parent, f)
<1>1. Lineage(e, n) = {n} \cup (IF e[n].parent = 0 THEN {}
                                ELSE Lineage(e, e[n].parent))
  BY LineageOf
<1>2. CASE e[n].fields[f] # Empty
  <2>1. n \in Givers(e, n, f)
    BY <1>1, <1>2 DEF Givers
  <2>2. Givers(e, n, f) \subseteq 1..n
    BY LineageBefore DEF Givers
  <2>3. n \in Nat
    BY ParentBefore
  <2>4. Max(Givers(e, n, f)) = n
    BY <2>1, <2>2, <2>3, MaxIs
  <2> QED BY <1>2, <2>1, <2>4 DEF Written
<1>3. CASE e[n].fields[f] = Empty /\ e[n].parent = 0
  <2>1. Givers(e, n, f) = {}
    BY <1>1, <1>3 DEF Givers
  <2> QED BY <1>3, <2>1 DEF Written
<1>4. CASE e[n].fields[f] = Empty /\ e[n].parent # 0
  <2>1. Givers(e, n, f) = Givers(e, e[n].parent, f)
    BY <1>1, <1>4 DEF Givers
  <2> QED BY <1>4, <2>1 DEF Written
<1> QED BY <1>2, <1>3, <1>4

\* Every field of every entry is what is written for it.
LEMMA InheritedIsWritten ==
    ASSUME NEW e, WellFormed(e)
    PROVE  \A n \in DOMAIN e :
               recursiveMirrors(e)[n] = [f \in Fields |-> Written(e, n, f)]
<1> DEFINE cur == recursiveMirrors(e)
           T == {n \in DOMAIN e : cur[n] # [f \in Fields |-> Written(e, n, f)]}
<1>0. Len(e) \in Nat /\ DOMAIN e = 1..Len(e)
  BY ParentBefore
<1>1. SUFFICES ASSUME T # {} PROVE FALSE
  OBVIOUS
<1>2. T \subseteq Nat
  BY <1>0
<1>3. PICK n \in T : \A m \in T : n <= m
  BY <1>1, <1>2, Least
<1>4. n \in 1..Len(e) /\ e[n].parent \in 0..(n - 1)
  BY <1>0, <1>3, ParentBefore
<1>5. e[n].parent # 0 => e[n].parent \in DOMAIN e /\ ~(n <= e[n].parent)
  BY <1>0, <1>4
<1>6. ASSUME e[n].parent # 0, NEW f \in Fields
      PROVE  cur[e[n].parent][f] = Written(e, e[n].parent, f)
  <2>1. cur[e[n].parent] = [x \in Fields |-> Written(e, e[n].parent, x)]
    BY <1>3, <1>5, <1>6
  <2> QED BY <2>1
<1>7. cur[n] = Inherit(e, cur, n)
  BY <1>0, <1>4, Inherited
<1>8. ASSUME NEW f \in Fields PROVE cur[n][f] = Written(e, n, f)
  <2>1. Written(e, n, f) = IF e[n].fields[f] # Empty THEN e[n].fields[f]
                           ELSE IF e[n].parent = 0 THEN Empty
                           ELSE Written(e, e[n].parent, f)
    BY <1>0, <1>4, WrittenStep
  <2>2. cur[n][f] = IF e[n].fields[f] # Empty THEN e[n].fields[f]
                    ELSE IF e[n].parent = 0 THEN Empty
                    ELSE cur[e[n].parent][f]
    <3> HIDE DEF cur
    <3> QED BY <1>7 DEF Inherit, Merge, NoSettings
  <2> QED BY <1>6, <2>1, <2>2
<1>9. cur[n] = [f \in Fields |-> cur[n][f]]
  <2> HIDE DEF cur
  <2> QED BY <1>7 DEF Inherit, Merge
<1>10. cur[n] = [f \in Fields |-> Written(e, n, f)]
  <2> HIDE DEF cur
  <2> QED BY <1>8, <1>9
<1> QED BY <1>3, <1>10

\* For every well-formed list of entries, of any length and depth, the mirrors
\* that LoadConfig makes of it are those that it describes: each field of a leaf
\* is given by the innermost entry around it that sets it (recursiveMirrors,
\* config.go).
THEOREM MirrorsAsWritten ==
    ASSUME NEW e, WellFormed(e)
    PROVE  Mirrors(e) = AsWritten(e)
<1>1. AsWritten(e) = {[f \in Fields |-> Written(e, n, f)] : n \in Leaves(e)}
  BY DEF AsWritten, Written, Givers
<1>2. Mirrors(e) = {recursiveMirrors(e)[n] : n \in Leaves(e)}
  BY DEF Mirrors
<1>3. \A n \in Leaves(e) : recursiveMirrors(e)[n] = [f \in Fields |-> Written(e, n, f)]
  BY InheritedIsWritten DEF Leaves
<1>4. ASSUME NEW x PROVE x \in Mirrors(e) <=> x \in AsWritten(e)
  BY <1>1, <1>2, <1>3, Zenon
<1> QED BY <1>4, Zenon
-----------------------------------------------------------------------------
(***************************************************************************)
(* Reading the files one after the other.                                  *)
(***************************************************************************)

\* The first file read is taken as it is.
LEMMA AppendToNone ==
    ASSUME NEW e, WellFormed(e)
    PROVE  AppendEntries(<<>>, e) = e
<1>1. Len(e) \in Nat /\ DOMAIN e = 1..Len(e) /\ e \in Seq(MirrorEntry)
  BY ParentBefore DEF WellFormed
<1> DEFINE moved == [n \in DOMAIN e |->
                        [e[n] EXCEPT !.parent = IF @ = 0 THEN 0 ELSE @ + Len(<<>>)]]
<1>2. ASSUME NEW n \in DOMAIN e PROVE moved[n] = e[n]
  <2>1. e[n] \in MirrorEntry /\ Len(<<>>) = 0
    BY <1>1, <1>2
  <2>2. (IF e[n].parent = 0 THEN 0 ELSE e[n].parent + Len(<<>>)) = e[n].parent
    BY <2>1 DEF MirrorEntry
  <2>3. moved[n] = [e[n] EXCEPT !.parent = e[n].parent]
    BY <1>2, <2>2
  <2>4. [e[n] EXCEPT !.parent = e[n].parent] = e[n]
    BY <2>1 DEF MirrorEntry
  <2> QED BY <2>3, <2>4
<1>3. moved = e
  <2>1. moved = [n \in DOMAIN e |-> moved[n]]
    OBVIOUS
  <2>2. e = [n \in DOMAIN e |-> e[n]]
    BY <1>1
  <2> HIDE DEF moved
  <2> QED BY <1>2, <2>1, <2>2
<1>4. AppendEntries(<<>>, e) = <<>> \o moved
  BY DEF AppendEntries
<1> HIDE DEF moved
<1> QED BY <1>1, <1>3, <1>4

\* Two well-formed files make one.
LEMMA AppendWellFormed ==
    ASSUME NEW e, WellFormed(e), NEW d, WellFormed(d)
    PROVE  WellFormed(AppendEntries(e, d))
<1>1. Len(e) \in Nat /\ DOMAIN e = 1..Len(e) /\ e \in Seq(MirrorEntry)
  BY ParentBefore DEF WellFormed
<1>2. Len(d) \in Nat /\ DOMAIN d = 1..Len(d) /\ d \in Seq(MirrorEntry)
  BY ParentBefore DEF WellFormed
<1> DEFINE moved == [n \in DOMAIN d |->
                        [d[n] EXCEPT !.parent = IF @ = 0 THEN 0 ELSE @ + Len(e)]]
<1>3. ASSUME NEW n \in DOMAIN d
      PROVE  /\ moved[n] \in MirrorEntry
             /\ moved[n].parent < Len(e) + n
  <2>1. d[n] \in MirrorEntry /\ d[n].parent < n /\ n \in Nat /\ n >= 1
    BY <1>2, <1>3 DEF WellFormed
  <2> DEFINE p == IF d[n].parent = 0 THEN 0 ELSE d[n].parent + Len(e)
  <2>2. d[n].parent \in Nat /\ p \in Nat /\ p < Len(e) + n
    BY <1>1, <2>1 DEF MirrorEntry
  <2>3. moved[n] = [d[n] EXCEPT !.parent = p]
    BY <1>3
  <2> HIDE DEF p, moved
  <2> QED BY <2>1, <2>2, <2>3 DEF MirrorEntry
<1>4. moved \in Seq(MirrorEntry) /\ Len(moved) = Len(d) /\ DOMAIN moved = 1..Len(d)
  <2>1. moved \in [1..Len(d) -> MirrorEntry]
    BY <1>2, <1>3
  <2> HIDE DEF moved
  <2> QED BY <1>2, <2>1
<1>5. AppendEntries(e, d) = e \o moved
  BY DEF AppendEntries
<1> HIDE DEF moved
<1> DEFINE both == e \o moved
<1>6. /\ both \in Seq(MirrorEntry) /\ Len(both) = Len(e) + Len(d)
      /\ DOMAIN both = 1..(Len(e) + Len(d))
      /\ \A n \in 1..Len(e) : both[n] = e[n]
      /\ \A n \in 1..Len(d) : both[Len(e) + n] = moved[n]
  BY <1>1, <1>2, <1>4
<1> HIDE DEF both
<1>7. ASSUME NEW n \in DOMAIN both PROVE both[n].parent < n
  <2>0. n \in Nat /\ n \in 1..(Len(e) + Len(d))
    BY <1>1, <1>2, <1>6
  <2>1. CASE n <= Len(e)
    <3>1. n \in 1..Len(e)
      BY <1>1, <2>0, <2>1
    <3> QED BY <1>1, <1>6, <3>1 DEF WellFormed
  <2>2. CASE n > Len(e)
    <3>1. n - Len(e) \in 1..Len(d) /\ Len(e) + (n - Len(e)) = n
      BY <1>1, <1>2, <2>0, <2>2
    <3>2. both[n] = moved[n - Len(e)]
      BY <1>6, <3>1
    <3> QED BY <1>2, <1>3, <3>1, <3>2
  <2> QED BY <1>1, <2>0, <2>1, <2>2
<1>8. WellFormed(both)
  BY <1>6, <1>7 DEF WellFormed
<1> QED BY <1>5, <1>8 DEF both

-----------------------------------------------------------------------------
(***************************************************************************)
(* Signals and edits.                                                      *)
(***************************************************************************)

DaemonTypes ==
    /\ disk \in MainFiles \X Included
    /\ sigChan \in {<<>>, <<"hup">>, <<"term">>}
    /\ spc \in {"sleep", "recv", "load", "halt", "stuck"}
    /\ spc # "load" => read = 0 /\ conf = <<>>
    /\ read \in 0..2

\* When the files have not been edited since the last SIGHUP, and no signal
\* waits or is being obeyed that will end the worker, and no reload hangs, the
\* worker has loaded the files, or what it has read of them so far is what is in
\* them now.
UpToDate ==
    Alive /\ ~exit /\ ~stale /\ sigChan = <<>> /\ spc \notin {"halt", "stuck"} =>
        /\ spc # "load" /\ disk[1] # Broken /\ disk[2] # Broken =>
              cfg = Mirrors(AllEntries(disk))
        /\ spc = "load" =>
              /\ read = 0 => conf = <<>>
              /\ read = 1 => disk[1] # Broken /\ conf = disk[1]
              /\ read = 2 => conf = AllEntries(disk)

DaemonInv == DaemonTypes /\ UpToDate

\* The files that are not broken are well-formed.
LEMMA FilesWellFormed ==
    ASSUME DaemonTypes
    PROVE  /\ Len(disk) = 2
           /\ disk[1] # Broken => WellFormed(disk[1])
           /\ disk[2] # Broken => WellFormed(disk[2])
<1>1. Len(disk) = 2
  BY DEF DaemonTypes
<1>2. disk[1] \in MainFiles /\ disk[2] \in Included
  BY DEF DaemonTypes
<1> QED BY <1>1, <1>2, DaemonAssumption

LEMMA DaemonInitInv == DaemonInit => DaemonInv
<1> SUFFICES ASSUME DaemonInit PROVE DaemonInv
  OBVIOUS
<1>1. disk \in MainFiles \X Included
  BY DEF DaemonInit
<1>2. DaemonTypes
  BY <1>1 DEF DaemonInit, DaemonTypes
<1>3. UpToDate
  BY DEF DaemonInit, UpToDate
<1> QED BY <1>2, <1>3 DEF DaemonInv

\* The operator preserves the invariant: an edit makes the files stale, and a
\* SIGHUP leaves a signal in the channel or kills the process.
LEMMA OperatorInv ==
    ASSUME DaemonInv,
           \/ \E file \in MainFiles : Edit(1, file)
           \/ \E file \in Included : Edit(2, file)
           \/ Hup \/ Term
    PROVE  DaemonInv'
<1>1. ASSUME NEW file \in MainFiles, Edit(1, file) PROVE DaemonInv'
  <2>1. disk' \in MainFiles \X Included
    BY <1>1 DEF Edit, DaemonInv, DaemonTypes
  <2>2. DaemonTypes'
    BY <1>1, <2>1 DEF Edit, DaemonInv, DaemonTypes
  <2>3. UpToDate'
    BY <1>1 DEF Edit, UpToDate
  <2> QED BY <2>2, <2>3 DEF DaemonInv
<1>2. ASSUME NEW file \in Included, Edit(2, file) PROVE DaemonInv'
  <2>1. disk' \in MainFiles \X Included
    BY <1>2 DEF Edit, DaemonInv, DaemonTypes
  <2>2. DaemonTypes'
    BY <1>2, <2>1 DEF Edit, DaemonInv, DaemonTypes
  <2>3. UpToDate'
    BY <1>2 DEF Edit, UpToDate
  <2> QED BY <2>2, <2>3 DEF DaemonInv
<1>3. ASSUME NEW s \in {"hup", "term"}, Deliver(s)
      PROVE  sigChan' \in {<<>>, <<"hup">>, <<"term">>} /\ (main' = "killed" \/ sigChan' # <<>>)
  BY <1>3 DEF Deliver, DaemonInv, DaemonTypes
<1>4. CASE Hup
  <2>1. DaemonTypes'
    BY <1>3, <1>4 DEF Hup, DaemonInv, DaemonTypes
  <2>2. UpToDate'
    BY <1>3, <1>4 DEF Hup, UpToDate, Alive
  <2> QED BY <2>1, <2>2 DEF DaemonInv
<1>5. CASE Term
  <2>1. DaemonTypes'
    BY <1>3, <1>5 DEF Term, DaemonInv, DaemonTypes
  <2>2. UpToDate'
    BY <1>3, <1>5 DEF Term, UpToDate, Alive
  <2> QED BY <2>1, <2>2 DEF DaemonInv
<1> QED BY <1>1, <1>2, <1>4, <1>5

\* The goroutine of the signals, and the main one, preserve it.
LEMMA SignalInv ==
    ASSUME DaemonInv, SignalStep \/ MainStep
    PROVE  DaemonInv'
<1>1. CASE Listen
  BY <1>1 DEF Listen, opVars, DaemonInv, DaemonTypes, UpToDate, Alive
<1>2. CASE Receive
  <2>1. /\ sigChan \in {<<"hup">>, <<"term">>} /\ sigChan' = <<>> /\ read = 0 /\ conf = <<>>
        /\ spc' \in {"load", "halt"}
    BY <1>2 DEF Receive, DaemonInv, DaemonTypes
  <2>2. DaemonTypes'
    BY <1>2, <2>1 DEF Receive, DaemonInv, DaemonTypes
  <2>3. UpToDate'
    BY <1>2, <2>1 DEF Receive, UpToDate
  <2> QED BY <2>2, <2>3 DEF DaemonInv
<1>3. CASE DecodeFile
  <2>0. /\ Len(disk) = 2 /\ read \in {0, 1} /\ spc = "load"
        /\ disk[read + 1] # Broken /\ read' = read + 1
        /\ conf' = AppendEntries(conf, disk[read + 1])
        /\ UNCHANGED <<disk, sigChan, spc, cfg, exit, main, panicked, stale>>
    <3>1. Len(disk) = 2
      BY FilesWellFormed DEF DaemonInv
    <3>2. read \in 0..2 /\ read < 2
      BY <1>3, <3>1 DEF DecodeFile, DaemonInv, DaemonTypes
    <3> QED BY <1>3, <3>1, <3>2 DEF DecodeFile, opVars
  <2>1. DaemonTypes'
    BY <2>0 DEF DaemonInv, DaemonTypes
  <2>2. CASE read = 0
    <3>1. read' = 1 /\ disk[1] # Broken /\ conf' = AppendEntries(conf, disk[1])
      BY <2>0, <2>2
    <3>2. WellFormed(disk[1])
      BY <3>1, FilesWellFormed DEF DaemonInv
    <3>3. conf = <<>> => conf' = disk[1]
      BY <3>1, <3>2, AppendToNone
    <3>4. UpToDate'
      BY <2>0, <2>2, <3>1, <3>3 DEF DaemonInv, UpToDate, Alive
    <3> QED BY <2>1, <3>4 DEF DaemonInv
  <2>3. CASE read = 1
    <3>1. read' = 2 /\ conf' = AppendEntries(conf, disk[2])
      BY <2>0, <2>3
    <3>2. conf = disk[1] => conf' = AllEntries(disk)
      BY <3>1 DEF AllEntries
    <3>3. AllEntries(disk)' = AllEntries(disk)
      BY <2>0 DEF AllEntries
    <3>4. UpToDate'
      BY <2>0, <2>3, <3>1, <3>2, <3>3 DEF DaemonInv, UpToDate, Alive
    <3> QED BY <2>1, <3>4 DEF DaemonInv
  <2> QED BY <2>0, <2>2, <2>3
<1>4. CASE LoadFails
  <2>1. DaemonTypes'
    BY <1>4 DEF LoadFails, opVars, DaemonInv, DaemonTypes
  <2>2. read \in {0, 1} /\ disk[read + 1] = Broken
    <3>1. Len(disk) = 2
      BY FilesWellFormed DEF DaemonInv
    <3>2. read \in 0..2 /\ read < 2
      BY <1>4, <3>1 DEF LoadFails, DaemonInv, DaemonTypes
    <3> QED BY <1>4, <3>2 DEF LoadFails
  <2>3. disk[1] = Broken \/ disk[2] = Broken
    BY <2>2
  <2>4. UpToDate'
    BY <1>4, <2>3 DEF LoadFails, opVars, UpToDate
  <2> QED BY <2>1, <2>4 DEF DaemonInv
<1>5. CASE ReloadMirrorConfig
  <2>1. DaemonTypes'
    BY <1>5 DEF ReloadMirrorConfig, opVars, DaemonInv, DaemonTypes
  <2>2. read = 2 /\ spc = "load" /\ cfg' = Mirrors(conf)
    BY <1>5, FilesWellFormed DEF ReloadMirrorConfig, DaemonInv
  <2>3. Mirrors(AllEntries(disk))' = Mirrors(AllEntries(disk))
    BY <1>5 DEF ReloadMirrorConfig
  <2>4. UpToDate'
    BY <1>5, <2>2, <2>3 DEF ReloadMirrorConfig, opVars, DaemonInv, UpToDate, Alive
  <2> QED BY <2>1, <2>4 DEF DaemonInv
<1>6. CASE Halt \/ MainStep
  BY <1>6 DEF Halt, MainStep, Boot, Return, opVars, DaemonInv, DaemonTypes, UpToDate, Alive
<1>7. CASE ReloadHangs \/ HaltHangs
  BY <1>7 DEF ReloadHangs, HaltHangs, opVars, DaemonInv, DaemonTypes, UpToDate
<1> QED BY <1>1, <1>2, <1>3, <1>4, <1>5, <1>6, <1>7 DEF SignalStep

\* However SIGHUPs coalesce, whatever is edited while the files are read and
\* however many loads fail: a worker that has no signal to obey and whose files
\* have not been edited since the last SIGHUP runs the mirrors they describe
\* (startWorker, tunasync.go; LoadConfig, config.go).
THEOREM FilesLoaded == DaemonSpec => []LatestLoaded
<1>1. DaemonInv /\ [DaemonNext]_daemonVars => DaemonInv'
  <2>1. ASSUME DaemonInv, UNCHANGED daemonVars PROVE DaemonInv'
    BY <2>1 DEF daemonVars, opVars, DaemonInv, DaemonTypes, UpToDate, Alive
  <2> QED BY <2>1, OperatorInv, SignalInv DEF DaemonNext, DaemonRest
<1>2. DaemonInv => LatestLoaded
  <2> SUFFICES ASSUME DaemonInv, Alive, ~exit, spc = "recv", sigChan = <<>>, ~stale,
                      disk[1] # Broken, disk[2] # Broken
               PROVE  cfg = AsWritten(AllEntries(disk))
    BY DEF LatestLoaded
  <2>1. cfg = Mirrors(AllEntries(disk))
    BY DEF DaemonInv, UpToDate
  <2>2. WellFormed(AllEntries(disk))
    BY FilesWellFormed, AppendWellFormed DEF DaemonInv, AllEntries
  <2> QED BY <2>1, <2>2, MirrorsAsWritten
<1> QED BY <1>1, <1>2, DaemonInitInv, PTL DEF DaemonSpec
=============================================================================
