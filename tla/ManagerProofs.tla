--------------------------- MODULE ManagerProofs ---------------------------
(***************************************************************************)
(* Proofs about module Manager, for any number of request goroutines,      *)
(* workers and mirrors and any set of requests: the database and what the  *)
(* handlers carry has its type, the times of a stored status are ordered,  *)
(* and a deleted worker does not come back.                                *)
(***************************************************************************)
EXTENDS Manager, TLAPS

Updates == {"job", "size", "sched"}
Commands == {"start", "stop", "disable"}

\* The request of a goroutine belongs to the section of code it is in.
RequestOK(h) ==
    pc[h] # "idle" =>
        /\ req[h] \in RequestType
        /\ req[h].kind = "sched" =>
               /\ req[h].schedules # <<>>
               /\ \A n \in 1..Len(req[h].schedules) : req[h].schedules[n].time \in Time
        /\ pc[h] = "validate" => req[h].kind \in Updates \cup {"delete"}
        /\ pc[h] = "change" => req[h].kind \in {"register", "delete", "flush"}
        /\ pc[h] \in {"get", "put", "read", "compute"} => req[h].kind \in Updates
        /\ pc[h] = "write" => req[h].kind \in Updates \cup {"stop", "disable"}
        /\ pc[h] \in {"lookup", "cmdread", "post"} => req[h].kind \in Commands

\* A goroutine that computes or writes has its copy of a record.
CopyOK(h) == pc[h] \in {"compute", "write"} => cur[h] \in MirrorStatus

TypeInv ==
    /\ MgrTypeOK
    /\ \A h \in Threads : RequestOK(h) /\ CopyOK(h)

-----------------------------------------------------------------------------
\* What the kind of a request says about its fields.
LEMMA RequestShape ==
    ASSUME NEW r \in RequestType
    PROVE  /\ r.kind # "flush" => r.worker \in Workers
           /\ r.kind \in {"job", "size"} \cup Commands => r.mirror \in Mirrors
           /\ r.kind = "job" => r.status \in Sync /\ r.size \in Sizes
           /\ r.kind = "size" => r.size \in Sizes
           /\ r.kind = "sched" => r.schedules \in Seq([mirror : Mirrors, time : Nat])
  BY DEF RequestType, Registration, StatusReport, ScheduleReport, ClientCmd,
         SizeMsg, Removal, Commands

\* Head and Tail of a sequence that is not empty.
LEMMA HeadTail ==
    ASSUME NEW S, NEW q \in Seq(S), q # <<>>
    PROVE  /\ Len(q) \in Nat \ {0}
           /\ Head(q) = q[1] /\ Head(q) \in S
           /\ Tail(q) \in Seq(S)
           /\ Len(Tail(q)) = Len(q) - 1
           /\ \A n \in 1..Len(Tail(q)) : Tail(q)[n] = q[n + 1]
  <1>1. Len(q) \in Nat /\ q \in [1..Len(q) -> S] OBVIOUS
  <1>2. Len(q) # 0 OBVIOUS
  <1>3. Head(q) = q[1] /\ q[1] \in S BY <1>1, <1>2
  <1>4. Tail(q) \in Seq(S) /\ Len(Tail(q)) = Len(q) - 1 OBVIOUS
  <1>5. \A n \in 1..Len(Tail(q)) : Tail(q)[n] = q[n + 1] OBVIOUS
  <1> QED BY <1>1, <1>2, <1>3, <1>4, <1>5

\* A schedule report that has lost its head is a schedule report.
LEMMA TailShape ==
    ASSUME NEW r \in RequestType, r.kind = "sched", Len(r.schedules) > 1,
           \A n \in 1..Len(r.schedules) : r.schedules[n].time \in Time
    PROVE  LET s == [r EXCEPT !.schedules = Tail(@)]
           IN /\ s \in RequestType /\ s.kind = "sched" /\ s.schedules # <<>>
              /\ \A n \in 1..Len(s.schedules) : s.schedules[n].time \in Time
  <1>1. r \in ScheduleReport
    BY DEF RequestType, Registration, StatusReport, ScheduleReport, ClientCmd,
           SizeMsg, Removal
  <1> DEFINE S == [mirror : Mirrors, time : Nat]
             s == [r EXCEPT !.schedules = Tail(@)]
  <1>2. r.schedules \in Seq(S) BY <1>1 DEF ScheduleReport
  <1>3. /\ Tail(r.schedules) \in Seq(S) /\ Tail(r.schedules) # <<>>
        /\ Len(Tail(r.schedules)) = Len(r.schedules) - 1
        /\ \A n \in 1..Len(Tail(r.schedules)) :
               Tail(r.schedules)[n] = r.schedules[n + 1]
    <2> HIDE DEF S
    <2>1. r.schedules # <<>> OBVIOUS
    <2>2. Len(r.schedules) \in Nat /\ Len(Tail(r.schedules)) = Len(r.schedules) - 1
      BY <1>2, <2>1, HeadTail
    <2>3. Tail(r.schedules) # <<>>
      <3> SUFFICES ASSUME Tail(r.schedules) = <<>> PROVE FALSE OBVIOUS
      <3>1. Len(Tail(r.schedules)) = 0 OBVIOUS
      <3> QED BY <2>2, <3>1
    <2> QED BY <1>2, <2>1, <2>2, <2>3, HeadTail
  <1>4. s \in ScheduleReport /\ s.schedules = Tail(r.schedules) /\ s.kind = "sched"
    BY <1>1, <1>3 DEF ScheduleReport
  <1>5. Len(r.schedules) \in Nat BY <1>2
  <1>6. \A n \in 1..Len(s.schedules) : s.schedules[n].time \in Time
    <2> TAKE n \in 1..Len(s.schedules)
    <2>1. n + 1 \in 1..Len(r.schedules) BY <1>3, <1>4, <1>5
    <2> QED BY <2>1, <1>3, <1>4
  <1> QED BY <1>3, <1>4, <1>6 DEF RequestType

\* The key of a request that is about a record is the key of a record.
LEMMA KeyShape ==
    ASSUME NEW h \in Threads, req[h] \in RequestType,
           req[h].kind \in Updates \cup Commands,
           req[h].kind = "sched" => req[h].schedules # <<>>
    PROVE  Key(h) \in Mirrors \X Workers
  <1>1. CASE req[h].kind = "sched"
    <2>1. req[h].schedules \in Seq([mirror : Mirrors, time : Nat])
      BY <1>1, RequestShape
    <2>2. Head(req[h].schedules) \in [mirror : Mirrors, time : Nat]
      <3> DEFINE S == [mirror : Mirrors, time : Nat]
      <3> HIDE DEF S
      <3>1. req[h].schedules \in Seq(S) BY <2>1 DEF S
      <3>2. Head(req[h].schedules) \in S BY <3>1, <1>1, HeadTail
      <3> QED BY <3>2 DEF S
    <2> QED BY <1>1, <2>2, RequestShape DEF Key
  <1>2. CASE req[h].kind # "sched"
    BY <1>2, RequestShape DEF Key, Updates, Commands
  <1> QED BY <1>1, <1>2

-----------------------------------------------------------------------------
\* The initial state has its types.
LEMMA InitTypes == MgrInit => TypeInv
  <1> SUFFICES ASSUME MgrInit PROVE TypeInv OBVIOUS
  <1> USE ManagerAssumption DEF MgrInit
  <1>1. 0 \in Time /\ 1 \in Time BY DEF Time
  <1> QED BY <1>1 DEF TypeInv, MgrTypeOK, RequestOK, CopyOK, PC

\* Where a request begins.
LEMMA EntryShape ==
    ASSUME NEW r \in Requests
    PROVE  /\ Entry[r.kind] \in {"validate", "lookup", "change"}
           /\ Entry[r.kind] = "validate" => r.kind \in Updates \cup {"delete"}
           /\ Entry[r.kind] = "change" => r.kind \in {"register", "delete", "flush"}
           /\ Entry[r.kind] = "lookup" => r.kind \in Commands
  <1>1. r \in RequestType BY ManagerAssumption
  <1>2. r.kind \in Updates \cup Commands \cup {"register", "delete", "flush"}
    BY <1>1 DEF RequestType, Registration, StatusReport, ScheduleReport, ClientCmd,
                SizeMsg, Removal, Commands, Updates
  <1> QED BY <1>2 DEF Entry, Updates, Commands

\* What the handlers hold, without the database.
HandlersOK ==
    /\ pc \in [Threads -> PC]
    /\ req \in [Threads -> RequestType \cup {None}]
    /\ cur \in [Threads -> MirrorStatus \cup {None}]
    /\ worker \in [Threads -> WorkerStatus \cup {None}]
    /\ \A h \in Threads : RequestOK(h) /\ CopyOK(h)

\* Responding leaves a goroutine with nothing.
LEMMA RespondTypes ==
    ASSUME HandlersOK, NEW h \in Threads, Respond(h)
    PROVE  HandlersOK'
  <1>1. /\ pc' \in [Threads -> PC] /\ req' \in [Threads -> RequestType \cup {None}]
        /\ cur' \in [Threads -> MirrorStatus \cup {None}]
        /\ worker' \in [Threads -> WorkerStatus \cup {None}]
    BY DEF HandlersOK, Respond, PC
  <1>2. ASSUME NEW g \in Threads PROVE RequestOK(g)' /\ CopyOK(g)'
    <2>1. CASE g = h BY <2>1 DEF HandlersOK, Respond, RequestOK, CopyOK
    <2>2. CASE g # h
      <3>1. /\ pc'[g] = pc[g] /\ req'[g] = req[g] /\ cur'[g] = cur[g]
            /\ RequestOK(g) /\ CopyOK(g)
        BY <2>2 DEF HandlersOK, Respond
      <3> QED BY <3>1 DEF RequestOK, CopyOK
    <2> QED BY <2>1, <2>2
  <1> QED BY <1>1, <1>2 DEF HandlersOK

\* So does finishing, or else it leaves the rest of a list of schedules.
LEMMA FinishTypes ==
    ASSUME HandlersOK, NEW h \in Threads, Finish(h), pc[h] # "idle"
    PROVE  HandlersOK'
  <1>1. CASE Respond(h) BY <1>1, RespondTypes
  <1>2. CASE /\ req[h].kind = "sched" /\ Len(req[h].schedules) > 1
             /\ req' = [req EXCEPT ![h].schedules = Tail(@)]
             /\ pc' = [pc EXCEPT ![h] = "get"]
             /\ cur' = [cur EXCEPT ![h] = None]
             /\ worker' = [worker EXCEPT ![h] = None]
    <2> DEFINE s == [req[h] EXCEPT !.schedules = Tail(@)]
    <2>1. /\ req[h] \in RequestType
          /\ \A n \in 1..Len(req[h].schedules) : req[h].schedules[n].time \in Time
      BY <1>2 DEF HandlersOK, RequestOK
    <2>2. /\ s \in RequestType /\ s.kind = "sched" /\ s.schedules # <<>>
          /\ \A n \in 1..Len(s.schedules) : s.schedules[n].time \in Time
      BY <1>2, <2>1, TailShape
    <2>3. req' = [req EXCEPT ![h] = s] BY <1>2
    <2> HIDE DEF s
    <2>4. /\ pc' \in [Threads -> PC] /\ req' \in [Threads -> RequestType \cup {None}]
          /\ cur' \in [Threads -> MirrorStatus \cup {None}]
          /\ worker' \in [Threads -> WorkerStatus \cup {None}]
      BY <1>2, <2>2, <2>3 DEF HandlersOK, PC
    <2>5. ASSUME NEW g \in Threads PROVE RequestOK(g)' /\ CopyOK(g)'
      <3>1. CASE g = h
        <4>1. pc'[g] = "get" /\ req'[g] = s BY <3>1, <1>2, <2>3 DEF HandlersOK
        <4> QED BY <4>1, <2>2 DEF RequestOK, CopyOK, Updates
      <3>2. CASE g # h
        <4>1. /\ pc'[g] = pc[g] /\ req'[g] = req[g] /\ cur'[g] = cur[g]
              /\ RequestOK(g) /\ CopyOK(g)
          BY <3>2, <1>2, <2>3 DEF HandlersOK
        <4> QED BY <4>1 DEF RequestOK, CopyOK
      <3> QED BY <3>1, <3>2
    <2> QED BY <2>4, <2>5 DEF HandlersOK
  <1> QED BY <1>1, <1>2 DEF Finish

\* Going on in the handler keeps the types if the request fits the section and
\* the copy is there where it is needed.
LEMMA GotoTypes ==
    ASSUME HandlersOK, NEW h \in Threads, NEW where \in PC \ {"idle"},
           pc' = [pc EXCEPT ![h] = where],
           NEW r, r \in RequestType, req' = [req EXCEPT ![h] = r],
           r.kind = "sched" =>
               /\ r.schedules # <<>>
               /\ \A n \in 1..Len(r.schedules) : r.schedules[n].time \in Time,
           where = "validate" => r.kind \in Updates \cup {"delete"},
           where = "change" => r.kind \in {"register", "delete", "flush"},
           where \in {"get", "put", "read", "compute"} => r.kind \in Updates,
           where = "write" => r.kind \in Updates \cup {"stop", "disable"},
           where \in {"lookup", "cmdread", "post"} => r.kind \in Commands,
           NEW c \in MirrorStatus \cup {None}, cur' = [cur EXCEPT ![h] = c],
           where \in {"compute", "write"} => c \in MirrorStatus,
           worker' \in [Threads -> WorkerStatus \cup {None}]
    PROVE  HandlersOK'
  <1>1. /\ pc' \in [Threads -> PC] /\ req' \in [Threads -> RequestType \cup {None}]
        /\ cur' \in [Threads -> MirrorStatus \cup {None}]
    BY DEF HandlersOK
  <1>2. ASSUME NEW g \in Threads PROVE RequestOK(g)' /\ CopyOK(g)'
    <2>1. CASE g = h
      <3>1. pc'[g] = where /\ req'[g] = r /\ cur'[g] = c BY <2>1 DEF HandlersOK
      <3> QED BY <3>1 DEF RequestOK, CopyOK
    <2>2. CASE g # h
      <3>1. /\ pc'[g] = pc[g] /\ req'[g] = req[g] /\ cur'[g] = cur[g]
            /\ RequestOK(g) /\ CopyOK(g)
        BY <2>2 DEF HandlersOK
      <3> QED BY <3>1 DEF RequestOK, CopyOK
    <2> QED BY <2>1, <2>2
  <1> QED BY <1>1, <1>2 DEF HandlersOK

\* Every step of a handler, the clock and a restart keep the types.
LEMMA StepTypes == TypeInv /\ [MgrNext]_mgrVars => TypeInv'
  <1> SUFFICES ASSUME TypeInv, [MgrNext]_mgrVars PROVE TypeInv' OBVIOUS
  <1>0. HandlersOK BY DEF TypeInv, MgrTypeOK, HandlersOK
  <1> SUFFICES HandlersOK' /\ workers' \in [Workers -> WorkerStatus \cup {None}]
               /\ status' \in [Mirrors \X Workers -> MirrorStatus \cup {None}]
               /\ clock' \in Time /\ readers' \subseteq Threads
    BY DEF TypeInv, MgrTypeOK, HandlersOK
  <1>d. /\ workers \in [Workers -> WorkerStatus \cup {None}]
        /\ status \in [Mirrors \X Workers -> MirrorStatus \cup {None}]
        /\ clock \in Time /\ readers \subseteq Threads
    BY DEF TypeInv, MgrTypeOK
  <1>e. \A h \in Threads : req = [req EXCEPT ![h] = req[h]] /\ cur = [cur EXCEPT ![h] = cur[h]]
    BY <1>0 DEF HandlersOK
  <1>f. \A h \in Threads : cur[h] \in MirrorStatus \cup {None} BY <1>0 DEF HandlersOK
  <1>1. ASSUME NEW h \in Threads, NEW r \in Requests, Accept(h, r) PROVE HandlersOK'
    <2>1. r \in RequestType BY <1>1, ManagerAssumption
    <2>2. r.kind = "sched" =>
              /\ r.schedules # <<>>
              /\ \A n \in 1..Len(r.schedules) : r.schedules[n].time \in Time
      BY <1>1, ManagerAssumption
    <2>4. /\ Entry[r.kind] \in {"validate", "lookup", "change"}
          /\ Entry[r.kind] = "validate" => r.kind \in Updates \cup {"delete"}
          /\ Entry[r.kind] = "change" => r.kind \in {"register", "delete", "flush"}
          /\ Entry[r.kind] = "lookup" => r.kind \in Commands
      BY EntryShape
    <2>5. Entry[r.kind] \in PC \ {"idle"} BY <2>4 DEF PC
    <2>6. worker' \in [Threads -> WorkerStatus \cup {None}]
      BY <1>0, <1>1 DEF HandlersOK, Accept
    <2>7. /\ pc' = [pc EXCEPT ![h] = Entry[r.kind]] /\ req' = [req EXCEPT ![h] = r]
          /\ cur' = [cur EXCEPT ![h] = cur[h]]
      BY <1>1, <1>e DEF Accept
    <2> QED BY <1>0, <1>f, <2>1, <2>2, <2>4, <2>5, <2>6, <2>7, GotoTypes
  \* The same for a step inside a handler.
  <1>2. ASSUME NEW h \in Threads, NEW where \in PC \ {"idle"}, pc[h] # "idle",
               Goto(h, where),
               where = "validate" => req[h].kind \in Updates \cup {"delete"},
               where = "change" => req[h].kind \in {"register", "delete", "flush"},
               where \in {"get", "put", "read", "compute"} => req[h].kind \in Updates,
               where = "write" => req[h].kind \in Updates \cup {"stop", "disable"},
               where \in {"lookup", "cmdread", "post"} => req[h].kind \in Commands,
               NEW c \in MirrorStatus \cup {None}, cur' = [cur EXCEPT ![h] = c],
               where \in {"compute", "write"} => c \in MirrorStatus,
               worker' \in [Threads -> WorkerStatus \cup {None}]
        PROVE  HandlersOK'
    <2>1. RequestOK(h) BY <1>0 DEF HandlersOK
    <2>2. /\ req[h] \in RequestType
          /\ req[h].kind = "sched" =>
               /\ req[h].schedules # <<>>
               /\ \A n \in 1..Len(req[h].schedules) : req[h].schedules[n].time \in Time
      BY <1>2, <2>1 DEF RequestOK
    <2>3. pc' = [pc EXCEPT ![h] = where] /\ req' = [req EXCEPT ![h] = req[h]]
      BY <1>2, <1>e DEF Goto
    <2> DEFINE r == req[h]
    <2> HIDE DEF r
    <2>4. r = req[h] BY DEF r
    <2> QED BY <1>0, <1>2, <2>2, <2>3, <2>4, GotoTypes
  <1>3. ASSUME NEW h \in Threads, Validate(h) PROVE HandlersOK'
    <2>1. pc[h] = "validate" /\ req[h].kind \in Updates \cup {"delete"}
      BY <1>0, <1>3 DEF Validate, HandlersOK, RequestOK
    <2>2. CASE Respond(h) BY <1>0, <2>2, RespondTypes
    <2>3. CASE /\ Goto(h, IF req[h].kind = "delete" THEN "change" ELSE "get")
               /\ UNCHANGED <<cur, worker>>
      <3>1. worker' \in [Threads -> WorkerStatus \cup {None}] /\ cur' = [cur EXCEPT ![h] = cur[h]]
        BY <1>0, <1>e, <2>3 DEF HandlersOK
      <3>2. CASE req[h].kind = "delete"
        <4>1. Goto(h, "change") BY <2>3, <3>2
        <4>2. "change" \in PC \ {"idle"} BY DEF PC
        <4> QED BY <1>2, <1>f, <2>1, <3>1, <3>2, <4>1, <4>2
      <3>3. CASE req[h].kind # "delete"
        <4>1. Goto(h, "get") BY <2>3, <3>3
        <4>2. "get" \in PC \ {"idle"} BY DEF PC
        <4> QED BY <1>2, <1>f, <2>1, <3>1, <3>3, <4>1, <4>2
      <3> QED BY <3>2, <3>3
    <2> QED BY <1>3, <2>2, <2>3 DEF Validate
  <1>4. ASSUME NEW h \in Threads, RefreshGet(h) PROVE HandlersOK'
    <2>1. pc[h] = "get" /\ req[h] \in RequestType /\ req[h].kind \in Updates
      BY <1>0, <1>4 DEF RefreshGet, HandlersOK, RequestOK
    <2>2. req[h].worker \in Workers BY <2>1, RequestShape DEF Updates
    <2>3. worker' \in [Threads -> WorkerStatus \cup {None}] /\ cur' = [cur EXCEPT ![h] = cur[h]]
      BY <1>0, <1>4, <1>d, <1>e, <2>2 DEF HandlersOK, RefreshGet
    <2>4. Goto(h, "put") /\ "put" \in PC \ {"idle"} BY <1>4 DEF RefreshGet, PC
    <2> QED BY <1>2, <1>f, <2>1, <2>3, <2>4
  <1>5. ASSUME NEW h \in Threads, RefreshPut(h) PROVE HandlersOK'
    <2>1. pc[h] = "put" /\ req[h].kind \in Updates
      BY <1>0, <1>5 DEF RefreshPut, HandlersOK, RequestOK
    <2>3. worker' \in [Threads -> WorkerStatus \cup {None}] /\ cur' = [cur EXCEPT ![h] = cur[h]]
      BY <1>0, <1>5, <1>e DEF HandlersOK, RefreshPut
    <2>4. Goto(h, "read") /\ "read" \in PC \ {"idle"} BY <1>5 DEF RefreshPut, PC
    <2> QED BY <1>2, <1>f, <2>1, <2>3, <2>4
  <1>y. 0 \in Time BY ManagerAssumption DEF Time
  <1>z. Zero \in MirrorStatus BY <1>y DEF Zero, MirrorStatus, Sync, Sizes
  <1>6. ASSUME NEW h \in Threads, Read(h) PROVE HandlersOK'
    <2>1. pc[h] = "read" /\ RequestOK(h) BY <1>0, <1>6 DEF Read, HandlersOK
    <2>2. req[h] \in RequestType /\ req[h].kind \in Updates
          /\ (req[h].kind = "sched" => req[h].schedules # <<>>)
      BY <2>1 DEF RequestOK
    <2>3. Key(h) \in Mirrors \X Workers BY <2>2, KeyShape DEF Updates
    <2>4. CASE Finish(h) BY <1>0, <2>1, <2>4, FinishTypes
    <2>5. CASE /\ cur' = [cur EXCEPT ![h] = IF status[Key(h)] = None
                                            THEN Zero ELSE status[Key(h)]]
               /\ Goto(h, "compute") /\ UNCHANGED worker
      <3> DEFINE c == IF status[Key(h)] = None THEN Zero ELSE status[Key(h)]
      <3>1. c \in MirrorStatus BY <1>d, <1>z, <2>3
      <3>2. cur' = [cur EXCEPT ![h] = c] BY <2>5
      <3> HIDE DEF c
      <3>3. worker' \in [Threads -> WorkerStatus \cup {None}] BY <1>0, <2>5 DEF HandlersOK
      <3>4. "compute" \in PC \ {"idle"} BY DEF PC
      <3> QED BY <1>2, <2>1, <2>2, <2>5, <3>1, <3>2, <3>3, <3>4
    <2> QED BY <1>6, <2>4, <2>5 DEF Read
  <1>7. ASSUME NEW h \in Threads, Compute(h) PROVE HandlersOK'
    <2>1. pc[h] = "compute" /\ RequestOK(h) /\ cur[h] \in MirrorStatus
      BY <1>0, <1>7 DEF Compute, HandlersOK, CopyOK
    <2>2. req[h] \in RequestType /\ req[h].kind \in Updates
      BY <2>1 DEF RequestOK
    <2>3. CASE Finish(h) BY <1>0, <2>1, <2>3, FinishTypes
    <2>4. ASSUME NEW c \in MirrorStatus, cur' = [cur EXCEPT ![h] = c],
                 Goto(h, "write"), UNCHANGED worker
          PROVE  HandlersOK'
      <3>1. worker' \in [Threads -> WorkerStatus \cup {None}] BY <1>0, <2>4 DEF HandlersOK
      <3>2. "write" \in PC \ {"idle"} BY DEF PC
      <3> QED BY <1>2, <2>1, <2>2, <2>4, <3>1, <3>2
    <2>5. CASE /\ req[h].kind = "job"
               /\ cur' = [cur EXCEPT ![h] = JobStatus(@, req[h])]
               /\ Goto(h, "write") /\ UNCHANGED worker
      <3>1. req[h].mirror \in Mirrors /\ req[h].status \in Sync /\ req[h].size \in Sizes
        BY <2>2, <2>5, RequestShape
      <3>2. JobStatus(cur[h], req[h]) \in MirrorStatus
        BY <1>d, <1>y, <2>1, <3>1 DEF JobStatus, MirrorStatus, KeptSize
      <3>3. cur' = [cur EXCEPT ![h] = JobStatus(cur[h], req[h])] BY <2>5
      <3> QED BY <2>4, <2>5, <3>2, <3>3
    <2>6. CASE /\ req[h].kind = "size"
               /\ cur' = [cur EXCEPT ![h].Size = IF AcceptedSize(req[h].size) THEN req[h].size ELSE @]
               /\ Goto(h, "write") /\ UNCHANGED worker
      <3> DEFINE c == [cur[h] EXCEPT !.Size = IF AcceptedSize(req[h].size) THEN req[h].size ELSE @]
      <3>1. req[h].size \in Sizes BY <2>2, <2>6, RequestShape
      <3>2. c \in MirrorStatus BY <2>1, <3>1 DEF MirrorStatus
      <3>3. cur' = [cur EXCEPT ![h] = c] BY <2>6
      <3> QED BY <2>4, <2>6, <3>2, <3>3
    <2>7. CASE /\ req[h].kind = "sched"
               /\ cur' = [cur EXCEPT ![h].Scheduled = Head(req[h].schedules).time]
               /\ Goto(h, "write") /\ UNCHANGED worker
      <3> DEFINE c == [cur[h] EXCEPT !.Scheduled = Head(req[h].schedules).time]
      <3>1. /\ req[h].schedules # <<>>
            /\ \A n \in 1..Len(req[h].schedules) : req[h].schedules[n].time \in Time
        BY <2>1, <2>7 DEF RequestOK
      <3>2. req[h].schedules \in Seq([mirror : Mirrors, time : Nat])
        BY <2>2, <2>7, RequestShape
      <3>3. Len(req[h].schedules) \in Nat \ {0} /\ Head(req[h].schedules) = req[h].schedules[1]
        BY <3>1, <3>2, HeadTail
      <3>4. Head(req[h].schedules).time \in Time BY <3>1, <3>3
      <3>5. c \in MirrorStatus BY <2>1, <3>4 DEF MirrorStatus
      <3>6. cur' = [cur EXCEPT ![h] = c] BY <2>7
      <3> QED BY <2>4, <2>7, <3>5, <3>6
    <2> QED BY <1>7, <2>3, <2>5, <2>6, <2>7 DEF Compute
  <1>8. ASSUME NEW h \in Threads, Write(h) PROVE HandlersOK'
    <2>1. pc[h] = "write" /\ RequestOK(h) BY <1>0, <1>8 DEF Write, HandlersOK
    <2>2. CASE Finish(h) BY <1>0, <2>1, <2>2, FinishTypes
    <2>3. CASE /\ req[h].kind \in {"stop", "disable"}
               /\ Goto(h, "post") /\ UNCHANGED <<cur, worker>>
      <3>1. worker' \in [Threads -> WorkerStatus \cup {None}] /\ cur' = [cur EXCEPT ![h] = cur[h]]
        BY <1>0, <1>e, <2>3 DEF HandlersOK
      <3>2. "post" \in PC \ {"idle"} BY DEF PC
      <3>3. req[h].kind \in Commands BY <2>3 DEF Commands
      <3>9. cur[h] \in MirrorStatus \cup {None} BY <1>f
      <3>10. Goto(h, "post") BY <2>3
      <3> QED BY <3>9, <1>2, <2>1, <3>10, <3>1, <3>2, <3>3
    <2> QED BY <1>8, <2>2, <2>3 DEF Write
  <1>9. ASSUME NEW h \in Threads, Lookup(h) PROVE HandlersOK'
    <2>1. pc[h] = "lookup" /\ req[h].kind \in Commands
      BY <1>0, <1>9 DEF Lookup, HandlersOK, RequestOK
    <2>2. CASE Respond(h) BY <1>0, <2>2, RespondTypes
    <2>3. CASE Goto(h, "cmdread") /\ UNCHANGED <<cur, worker>>
      <3>1. worker' \in [Threads -> WorkerStatus \cup {None}] /\ cur' = [cur EXCEPT ![h] = cur[h]]
        BY <1>0, <1>e, <2>3 DEF HandlersOK
      <3>2. "cmdread" \in PC \ {"idle"} BY DEF PC
      <3>9. cur[h] \in MirrorStatus \cup {None} BY <1>f
      <3>10. Goto(h, "cmdread") BY <2>3
      <3> QED BY <3>9, <1>2, <2>1, <3>10, <3>1, <3>2
    <2> QED BY <1>9, <2>2, <2>3 DEF Lookup
  <1>10. ASSUME NEW h \in Threads, CmdRead(h) PROVE HandlersOK'
    <2>1. pc[h] = "cmdread" /\ req[h] \in RequestType /\ req[h].kind \in Commands
      BY <1>0, <1>10 DEF CmdRead, HandlersOK, RequestOK
    <2>2. worker' \in [Threads -> WorkerStatus \cup {None}]
      BY <1>0, <1>10 DEF HandlersOK, CmdRead
    <2>3. CASE req[h].kind = "start" /\ Goto(h, "post") /\ UNCHANGED cur
      <3>1. cur' = [cur EXCEPT ![h] = cur[h]] /\ "post" \in PC \ {"idle"}
        BY <1>e, <2>3 DEF PC
      <3>9. cur[h] \in MirrorStatus \cup {None} BY <1>f
      <3>10. Goto(h, "post") BY <2>3
      <3> QED BY <3>9, <1>2, <2>1, <2>2, <3>10, <3>1
    <2> DEFINE old == IF status[Key(h)] = None THEN Zero ELSE status[Key(h)]
               c == [old EXCEPT !.Status = NewStatus[req[h].kind]]
    <2>4. CASE /\ req[h].kind # "start" /\ cur' = [cur EXCEPT ![h] = c]
               /\ Goto(h, "write")
      <3>1. req[h].kind \in {"stop", "disable"} BY <2>1, <2>4 DEF Commands
      <3>2. Key(h) \in Mirrors \X Workers
        BY <2>1, <3>1, KeyShape
      <3>3. old \in MirrorStatus BY <1>d, <1>z, <3>2
      <3>4. NewStatus[req[h].kind] \in Sync BY <3>1 DEF NewStatus, Sync
      <3>5. c \in MirrorStatus
        <4> HIDE DEF old
        <4> QED BY <3>3, <3>4 DEF MirrorStatus
      <3> HIDE DEF c
      <3>6. "write" \in PC \ {"idle"} BY DEF PC
      <3> QED BY <1>2, <2>1, <2>2, <2>4, <3>1, <3>5, <3>6
    <2> QED BY <1>10, <2>3, <2>4 DEF CmdRead
  \* The responses, the clock and a restart; then the database.
  <1>11. ASSUME NEW h \in Threads,
                Register(h) \/ DeleteWorker(h) \/ FlushDisabledJobs(h) \/ Post(h)
         PROVE  HandlersOK'
    <2>1. Respond(h) BY <1>11 DEF Register, DeleteWorker, FlushDisabledJobs, Post
    <2> QED BY <1>0, <2>1, RespondTypes
  <1>12. ASSUME Tick \/ UNCHANGED mgrVars PROVE HandlersOK'
    <2>1. UNCHANGED <<pc, req, cur, worker>> BY <1>12 DEF Tick, mgrVars
    <2>2. ASSUME NEW g \in Threads PROVE RequestOK(g)' /\ CopyOK(g)'
      <3>1. RequestOK(g) /\ CopyOK(g) BY <1>0 DEF HandlersOK
      <3> QED BY <2>1, <3>1 DEF RequestOK, CopyOK
    <2> QED BY <1>0, <2>1, <2>2 DEF HandlersOK
  <1>13. ASSUME Restart PROVE HandlersOK'
    <2>1. /\ pc' \in [Threads -> PC] /\ req' \in [Threads -> RequestType \cup {None}]
          /\ cur' \in [Threads -> MirrorStatus \cup {None}]
          /\ worker' \in [Threads -> WorkerStatus \cup {None}]
      BY <1>13 DEF Restart, PC
    <2>2. ASSUME NEW g \in Threads PROVE RequestOK(g)' /\ CopyOK(g)'
      <3>1. pc'[g] = "idle" BY <1>13 DEF Restart
      <3> QED BY <3>1 DEF RequestOK, CopyOK
    <2> QED BY <2>1, <2>2 DEF HandlersOK
  <1>14. HandlersOK'
    BY <1>1, <1>3, <1>4, <1>5, <1>6, <1>7, <1>8, <1>9, <1>10, <1>11, <1>12, <1>13
       DEF MgrNext, Step
  <1>15. workers' \in [Workers -> WorkerStatus \cup {None}]
    <2>1. ASSUME NEW h \in Threads, Register(h) \/ DeleteWorker(h) \/ RefreshPut(h)
          PROVE  workers' \in [Workers -> WorkerStatus \cup {None}]
      <3>1. CASE Register(h) \/ DeleteWorker(h)
        BY <1>d, <3>1 DEF Register, DeleteWorker, WorkerStatus
      <3>2. CASE RefreshPut(h)
        <4>1. worker[h] \in WorkerStatus \cup {None} BY <1>0 DEF HandlersOK
        <4> QED BY <1>d, <3>2, <4>1 DEF RefreshPut, WorkerStatus
      <3> QED BY <2>1, <3>1, <3>2
    <2>2. ASSUME NEW h \in Threads, Step(h),
                 ~(Register(h) \/ DeleteWorker(h) \/ RefreshPut(h))
          PROVE  UNCHANGED workers
      BY <2>2 DEF Step, Accept, Validate, FlushDisabledJobs, RefreshGet, Read,
                  Compute, Write, Lookup, CmdRead, Post, dbVars
    <2>3. CASE Tick \/ Restart \/ UNCHANGED mgrVars
      BY <1>d, <2>3 DEF Tick, Restart, mgrVars, dbVars
    <2> QED BY <1>d, <2>1, <2>2, <2>3 DEF MgrNext
  <1>16. status' \in [Mirrors \X Workers -> MirrorStatus \cup {None}]
    <2>1. ASSUME NEW h \in Threads, FlushDisabledJobs(h)
          PROVE  status' \in [Mirrors \X Workers -> MirrorStatus \cup {None}]
      BY <1>d, <2>1 DEF FlushDisabledJobs
    <2>2. ASSUME NEW h \in Threads, Write(h)
          PROVE  status' \in [Mirrors \X Workers -> MirrorStatus \cup {None}]
      <3>1. cur[h] \in MirrorStatus BY <1>0, <2>2 DEF Write, HandlersOK, CopyOK
      <3> QED BY <1>d, <2>2, <3>1 DEF Write
    <2>3. ASSUME NEW h \in Threads, Step(h), ~(FlushDisabledJobs(h) \/ Write(h))
          PROVE  UNCHANGED status
      BY <2>3 DEF Step, Accept, Validate, Register, DeleteWorker, RefreshGet,
                  RefreshPut, Read, Compute, Lookup, CmdRead, Post, dbVars
    <2>4. CASE Tick \/ Restart \/ UNCHANGED mgrVars
      BY <1>d, <2>4 DEF Tick, Restart, mgrVars, dbVars
    <2> QED BY <1>d, <2>1, <2>2, <2>3, <2>4 DEF MgrNext
  <1>17. clock' \in Time
    <2>1. ASSUME NEW h \in Threads, Step(h) PROVE UNCHANGED clock
      BY <2>1 DEF Step, Accept, Validate, Register, DeleteWorker, FlushDisabledJobs,
                  RefreshGet, RefreshPut, Read, Compute, Write, Lookup, CmdRead, Post
    <2>2. CASE Tick BY <1>d, <2>2, ManagerAssumption DEF Tick, Time
    <2>3. CASE Restart \/ UNCHANGED mgrVars BY <1>d, <2>3 DEF Restart, mgrVars
    <2> QED BY <1>d, <2>1, <2>2, <2>3 DEF MgrNext
  <1>18. readers' \subseteq Threads
    BY <1>d DEF MgrNext, Step, Accept, Validate, Register, DeleteWorker,
            FlushDisabledJobs, RefreshGet, RefreshPut, Read, Compute, Write, Lookup,
            CmdRead, Post, Tick, Restart, mgrVars
  <1> QED BY <1>14, <1>15, <1>16, <1>17, <1>18

\* The stored records, and what the handlers of the manager carry between their
\* sections, have their types.
THEOREM TypesKept == MgrSpec => []MgrTypeOK
  <1>1. TypeInv => MgrTypeOK BY DEF TypeInv
  <1> QED BY InitTypes, StepTypes, <1>1, PTL DEF MgrSpec

-----------------------------------------------------------------------------
\* The times of record m are in order and not later than t.
InOrder(m, t) == m.LastUpdate <= m.LastEnded /\ m.LastEnded <= t

\* So are those of the copies that are on their way back to the database: this
\* is what makes the order of the stored times inductive.
TimesInv ==
    /\ \A k \in Mirrors \X Workers : status[k] # None => InOrder(status[k], clock)
    /\ \A h \in Threads : pc[h] \in {"compute", "write"} => InOrder(cur[h], clock)

\* A record of the manager has the times of one snapshot and one reading of the
\* clock: a stored last_update is never later than last_ended, and last_ended
\* never in the future.
THEOREM TimesInOrder == MgrSpec => []TimesOrdered
  <1>1. MgrInit => TimesInv BY DEF MgrInit, TimesInv
  <1>2. TypeInv /\ TimesInv => TimesOrdered
    BY DEF TypeInv, MgrTypeOK, TimesInv, TimesOrdered, InOrder
  <1>3. TypeInv /\ TimesInv /\ [MgrNext]_mgrVars => TimesInv'
    <2> SUFFICES ASSUME TypeInv, TimesInv, [MgrNext]_mgrVars PROVE TimesInv' OBVIOUS
    <2>1. /\ clock \in Nat
          /\ status \in [Mirrors \X Workers -> MirrorStatus \cup {None}]
          /\ cur \in [Threads -> MirrorStatus \cup {None}] /\ pc \in [Threads -> PC]
          /\ \A h \in Threads : RequestOK(h) /\ CopyOK(h)
      BY ManagerAssumption DEF TypeInv, MgrTypeOK, Time
    <2>2. clock' \in Nat /\ clock <= clock'
      <3>1. ASSUME NEW h \in Threads, Step(h) PROVE UNCHANGED clock
        BY <3>1 DEF Step, Accept, Validate, Register, DeleteWorker, FlushDisabledJobs,
                    RefreshGet, RefreshPut, Read, Compute, Write, Lookup, CmdRead, Post
      <3>2. CASE Tick BY <2>1, <3>2 DEF Tick
      <3>3. CASE Restart \/ UNCHANGED mgrVars BY <2>1, <3>3 DEF Restart, mgrVars
      <3> QED BY <2>1, <3>1, <3>2, <3>3 DEF MgrNext
    <2>t. 0 \in Time /\ Time \subseteq Nat BY ManagerAssumption DEF Time
    <2>3. ASSUME NEW m \in MirrorStatus, InOrder(m, clock) PROVE InOrder(m, clock')
      <3>1. m.LastUpdate \in Nat /\ m.LastEnded \in Nat BY <2>t DEF MirrorStatus
      <3> QED BY <2>1, <2>2, <2>3, <3>1 DEF InOrder
    <2>4. ASSUME NEW k \in Mirrors \X Workers, status'[k] # None PROVE InOrder(status'[k], clock')
      <3>1. CASE status'[k] = status[k]
        BY <2>1, <2>3, <2>4, <3>1 DEF TimesInv
      <3>2. ASSUME NEW h \in Threads, Write(h) PROVE InOrder(status'[k], clock')
        <4>1. cur[h] \in MirrorStatus /\ InOrder(cur[h], clock)
          BY <2>1, <3>2 DEF Write, CopyOK, TimesInv
        <4>2. status'[k] = cur[h] \/ status'[k] = status[k] BY <2>1, <3>2 DEF Write
        <4> QED BY <2>3, <3>1, <4>1, <4>2
      <3>3. ASSUME NEW h \in Threads, FlushDisabledJobs(h) PROVE status'[k] = status[k]
        BY <2>1, <2>4, <3>3 DEF FlushDisabledJobs
      <3>4. ASSUME NEW h \in Threads, Step(h), ~(FlushDisabledJobs(h) \/ Write(h))
            PROVE  UNCHANGED status
        BY <3>4 DEF Step, Accept, Validate, Register, DeleteWorker, RefreshGet,
                    RefreshPut, Read, Compute, Lookup, CmdRead, Post, dbVars
      <3>5. CASE Tick \/ Restart \/ UNCHANGED mgrVars
        BY <3>1, <3>5 DEF Tick, Restart, mgrVars, dbVars
      <3> QED BY <3>1, <3>2, <3>3, <3>4, <3>5 DEF MgrNext
    <2>z. Zero \in MirrorStatus /\ InOrder(Zero, clock)
      <3>1. Zero \in MirrorStatus BY <2>t DEF Zero, MirrorStatus, Sync, Sizes
      <3>2. InOrder(Zero, clock) BY <2>1 DEF Zero, InOrder
      <3> QED BY <3>1, <3>2
    <2>5. ASSUME NEW g \in Threads, pc'[g] \in {"compute", "write"}
          PROVE  InOrder(cur'[g], clock')
      <3>1. CASE pc[g] \in {"compute", "write"} /\ cur'[g] = cur[g]
        <4>1. cur[g] \in MirrorStatus /\ InOrder(cur[g], clock) BY <2>1, <3>1 DEF CopyOK, TimesInv
        <4> QED BY <2>3, <3>1, <4>1
      <3>2. ASSUME NEW h \in Threads, Step(h), g # h
            PROVE  pc'[g] = pc[g] /\ cur'[g] = cur[g]
        BY <2>1, <3>2 DEF Step, Accept, Validate, Register, DeleteWorker,
           FlushDisabledJobs, RefreshGet, RefreshPut, Read, Compute, Write, Lookup,
           CmdRead, Post, Goto, Finish, Respond
      <3>3. CASE Tick \/ UNCHANGED mgrVars
        BY <2>5, <3>1, <3>3 DEF Tick, mgrVars
      <3>4. CASE Restart BY <2>5, <3>4 DEF Restart
      <3>5. CASE Step(g)
        <4>1. CASE Read(g)
          <5>1. pc[g] = "read" /\ RequestOK(g) BY <2>1, <4>1 DEF Read
          <5>2. req[g] \in RequestType /\ req[g].kind \in Updates
                /\ (req[g].kind = "sched" => req[g].schedules # <<>>)
            BY <5>1 DEF RequestOK
          <5>3. Key(g) \in Mirrors \X Workers BY <5>2, KeyShape DEF Updates
          <5>4. cur'[g] = IF status[Key(g)] = None THEN Zero ELSE status[Key(g)]
            BY <2>1, <2>5, <4>1 DEF Read, Finish, Respond, Goto
          <5>5. cur'[g] \in MirrorStatus /\ InOrder(cur'[g], clock)
            BY <2>1, <2>z, <5>3, <5>4 DEF TimesInv
          <5> QED BY <2>3, <5>5
        <4>2. CASE Compute(g)
          <5>1. pc[g] = "compute" /\ cur[g] \in MirrorStatus /\ InOrder(cur[g], clock)
            BY <2>1, <4>2 DEF Compute, CopyOK, TimesInv
          <5>2. cur[g].LastUpdate \in Nat /\ cur[g].LastEnded \in Nat
            BY <5>1, <2>t DEF MirrorStatus
          <5>3. clock' = clock BY <4>2 DEF Compute
          <5>4. \/ cur'[g] = JobStatus(cur[g], req[g])
                \/ /\ cur'[g].LastUpdate = cur[g].LastUpdate
                   /\ cur'[g].LastEnded = cur[g].LastEnded
            BY <2>1, <2>5, <4>2, <5>1 DEF Compute, Finish, Respond, Goto, MirrorStatus
          <5> QED BY <2>1, <5>1, <5>2, <5>3, <5>4 DEF InOrder, JobStatus, Ended
        <4>3. CASE CmdRead(g)
          <5>1. pc[g] = "cmdread" /\ RequestOK(g) BY <2>1, <4>3 DEF CmdRead
          <5>2. req[g] \in RequestType /\ req[g].kind \in Commands BY <5>1 DEF RequestOK
          <5>3. Key(g) \in Mirrors \X Workers
            <6>1. req[g].kind # "sched" BY <5>2 DEF Commands
            <6> QED BY <5>2, <6>1, KeyShape
          <5> DEFINE old == IF status[Key(g)] = None THEN Zero ELSE status[Key(g)]
          <5>4. old \in MirrorStatus /\ InOrder(old, clock)
            BY <2>1, <2>z, <5>3 DEF TimesInv
          <5>5. cur'[g] = [old EXCEPT !.Status = NewStatus[req[g].kind]]
            BY <2>1, <2>5, <4>3 DEF CmdRead, Goto
          <5> HIDE DEF old
          <5>6. cur'[g].LastUpdate = old.LastUpdate /\ cur'[g].LastEnded = old.LastEnded
            BY <5>4, <5>5 DEF MirrorStatus
          <5>7. clock' = clock BY <4>3 DEF CmdRead
          <5> QED BY <5>4, <5>6, <5>7 DEF InOrder
        <4>4. CASE ~(Read(g) \/ Compute(g) \/ CmdRead(g))
          <5>1. ASSUME NEW r \in Requests, Accept(g, r) PROVE FALSE
            <6>1. pc'[g] = Entry[r.kind] BY <2>1, <5>1 DEF Accept
            <6> QED BY <2>5, <6>1, EntryShape
          <5>2. ASSUME Validate(g) \/ RefreshGet(g) \/ RefreshPut(g) \/ Lookup(g) PROVE FALSE
            BY <2>1, <2>5, <5>2 DEF Validate, RefreshGet, RefreshPut, Lookup, Goto, Respond
          <5>3. ASSUME Register(g) \/ DeleteWorker(g) \/ FlushDisabledJobs(g) \/ Post(g)
                PROVE  FALSE
            BY <2>1, <2>5, <5>3
               DEF Register, DeleteWorker, FlushDisabledJobs, Post, Respond
          <5>4. ASSUME Write(g) PROVE FALSE
            BY <2>1, <2>5, <5>4 DEF Write, Finish, Goto, Respond
          <5> QED BY <3>5, <4>4, <5>1, <5>2, <5>3, <5>4 DEF Step
        <4> QED BY <4>1, <4>2, <4>3, <4>4
      <3> QED BY <2>5, <3>1, <3>2, <3>3, <3>4, <3>5 DEF MgrNext, TimesInv
    <2> QED BY <2>4, <2>5 DEF TimesInv
  <1> QED BY InitTypes, StepTypes, <1>1, <1>2, <1>3, PTL DEF MgrSpec

-----------------------------------------------------------------------------
\* A goroutine between the two halves of RefreshWorker is a reader, and while
\* there are readers nobody deletes the worker whose record it has read.
RefreshOK(h) ==
    pc[h] = "put" =>
        h \in readers /\ (worker[h] # None => workers[req[h].worker] # None)

RefreshInv == \A h \in Threads : RefreshOK(h)

\* Refreshing a worker never brings a deleted worker back: a worker record
\* appears only when a worker registers.
THEOREM NoWorkerResurrected == MgrSpec => NoResurrection
  <1> DEFINE A == \A w \in Workers :
                     workers[w] = None /\ workers'[w] # None =>
                         \E h \in Threads : pc[h] = "change" /\ req[h].kind = "register"
  <1>1. MgrInit => RefreshInv BY DEF MgrInit, RefreshInv, RefreshOK
  <1>2. TypeInv /\ RefreshInv /\ [MgrNext]_mgrVars => RefreshInv'
    <2> SUFFICES ASSUME TypeInv, RefreshInv, [MgrNext]_mgrVars,
                        NEW g \in Threads, pc'[g] = "put"
                 PROVE  RefreshOK(g)'
      BY DEF RefreshInv, RefreshOK
    <2>1. /\ workers \in [Workers -> WorkerStatus \cup {None}] /\ readers \subseteq Threads
          /\ worker \in [Threads -> WorkerStatus \cup {None}] /\ pc \in [Threads -> PC]
          /\ req \in [Threads -> RequestType \cup {None}]
          /\ \A h \in Threads : RequestOK(h)
          /\ None \notin WorkerStatus /\ clock \in Time
      BY ManagerAssumption DEF TypeInv, MgrTypeOK
    <2>2. ASSUME pc[g] = "put", req'[g] = req[g], worker'[g] = worker[g],
                 g \in readers', workers[req[g].worker] # None => workers'[req[g].worker] # None
          PROVE  RefreshOK(g)'
      BY <2>2 DEF RefreshInv, RefreshOK
    <2>3. ASSUME NEW h \in Threads, Step(h), h # g PROVE RefreshOK(g)'
      <3>1. pc[g] = "put" /\ req'[g] = req[g] /\ worker'[g] = worker[g]
        BY <2>1, <2>3 DEF Step, Accept, Validate, Register, DeleteWorker,
           FlushDisabledJobs, RefreshGet, RefreshPut, Read, Compute, Write, Lookup,
           CmdRead, Post, Goto, Finish, Respond
      <3>2. g \in readers BY <3>1 DEF RefreshInv, RefreshOK
      <3>3. g \in readers'
        BY <2>3, <3>2 DEF Step, Accept, Validate, Register, DeleteWorker,
           FlushDisabledJobs, RefreshGet, RefreshPut, Read, Compute, Write, Lookup,
           CmdRead, Post
      <3>4. ~DeleteWorker(h) BY <3>2 DEF DeleteWorker
      <3>5. ASSUME Register(h) \/ RefreshPut(h), NEW w \in Workers, workers[w] # None
            PROVE  workers'[w] # None
        <4>1. [LastOnline |-> clock, LastRegister |-> clock] # None
          BY <2>1 DEF WorkerStatus
        <4>2. worker[h] # None => [worker[h] EXCEPT !.LastOnline = clock] # None
          BY <2>1 DEF WorkerStatus
        <4>3. CASE Register(h) BY <2>1, <3>5, <4>1, <4>3 DEF Register
        <4>4. CASE RefreshPut(h) BY <2>1, <3>5, <4>2, <4>4 DEF RefreshPut
        <4> QED BY <3>5, <4>3, <4>4
      <3>6. ASSUME ~(Register(h) \/ RefreshPut(h)) PROVE UNCHANGED workers
        BY <2>3, <3>4, <3>6 DEF Step, Accept, Validate, FlushDisabledJobs, RefreshGet,
           Read, Compute, Write, Lookup, CmdRead, Post, dbVars
      <3>7. req[g].worker \in Workers
        <4>1. req[g] \in RequestType /\ req[g].kind \in Updates
          BY <2>1, <3>1 DEF RequestOK
        <4> QED BY <4>1, RequestShape DEF Updates
      <3> QED BY <2>2, <3>1, <3>3, <3>5, <3>6, <3>7
    <2>4. CASE Step(g)
      <3>1. CASE RefreshGet(g)
        <4>1. /\ g \in readers' /\ worker'[g] = workers[req[g].worker]
              /\ req'[g] = req[g] /\ workers' = workers
          BY <2>1, <3>1 DEF RefreshGet, Goto, dbVars
        <4> QED BY <4>1 DEF RefreshOK
      <3>2. CASE ~RefreshGet(g)
        <4>1. ASSUME NEW r \in Requests, Accept(g, r) PROVE FALSE
          <5>1. pc'[g] = Entry[r.kind] BY <2>1, <4>1 DEF Accept
          <5> QED BY <5>1, EntryShape
        <4>2. ASSUME Validate(g) \/ RefreshPut(g) \/ Lookup(g) \/ CmdRead(g) PROVE FALSE
          BY <2>1, <4>2 DEF Validate, RefreshPut, Lookup, CmdRead, Goto, Respond
        <4>3. ASSUME Register(g) \/ DeleteWorker(g) \/ FlushDisabledJobs(g) \/ Post(g)
              PROVE  FALSE
          BY <2>1, <4>3 DEF Register, DeleteWorker, FlushDisabledJobs, Post, Respond
        <4>4. ASSUME Write(g) \/ Read(g) \/ Compute(g) PROVE FALSE
          BY <2>1, <4>4 DEF Write, Read, Compute, Finish, Goto, Respond
        <4> QED BY <2>4, <3>2, <4>1, <4>2, <4>3, <4>4 DEF Step
      <3> QED BY <3>1, <3>2
    <2>5. CASE Tick \/ UNCHANGED mgrVars
      <3>1. UNCHANGED <<pc, req, worker, readers, workers>>
        BY <2>5 DEF Tick, mgrVars, dbVars
      <3>2. pc[g] = "put" /\ g \in readers BY <3>1 DEF RefreshInv, RefreshOK
      <3> QED BY <2>2, <3>1, <3>2
    <2>6. CASE Restart BY <2>6 DEF Restart
    <2> QED BY <2>3, <2>4, <2>5, <2>6 DEF MgrNext
  <1>3. TypeInv /\ RefreshInv /\ [MgrNext]_mgrVars => [A]_mgrVars
    <2> SUFFICES ASSUME TypeInv, RefreshInv, MgrNext,
                        NEW w \in Workers, workers[w] = None, workers'[w] # None
                 PROVE  \E h \in Threads : pc[h] = "change" /\ req[h].kind = "register"
      OBVIOUS
    <2>1. workers \in [Workers -> WorkerStatus \cup {None}] BY DEF TypeInv, MgrTypeOK
    <2>2. ASSUME NEW h \in Threads, Step(h)
          PROVE  pc[h] = "change" /\ req[h].kind = "register"
      <3>1. CASE Register(h) BY <3>1 DEF Register
      <3>2. ASSUME DeleteWorker(h) PROVE FALSE BY <2>1, <3>2 DEF DeleteWorker
      <3>3. ASSUME RefreshPut(h) PROVE FALSE
        <4>1. worker[h] # None => workers[req[h].worker] # None
          BY <3>3 DEF RefreshPut, RefreshInv, RefreshOK
        <4> QED BY <2>1, <3>3, <4>1 DEF RefreshPut
      <3>4. ASSUME ~(Register(h) \/ DeleteWorker(h) \/ RefreshPut(h)) PROVE UNCHANGED workers
        BY <2>2, <3>4 DEF Step, Accept, Validate, FlushDisabledJobs, RefreshGet,
           Read, Compute, Write, Lookup, CmdRead, Post, dbVars
      <3> QED BY <3>1, <3>2, <3>3, <3>4
    <2>3. ASSUME Tick \/ Restart PROVE FALSE BY <2>3 DEF Tick, Restart, dbVars
    <2> QED BY <2>2, <2>3 DEF MgrNext
  <1> QED BY InitTypes, StepTypes, <1>1, <1>2, <1>3, PTL DEF MgrSpec, NoResurrection
=============================================================================
