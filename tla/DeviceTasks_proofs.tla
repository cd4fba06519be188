-------------------------- MODULE DeviceTasks_proofs --------------------------
(***************************************************************************)
(* Theorems about DeviceTasks for every set of devices, any finite number  *)
(* of requests and any number of faults.                                   *)
(***************************************************************************)
EXTENDS DeviceTasks, FiniteSetTheorems, TLAPS

-----------------------------------------------------------------------------
(* Types, and what requests and the worker have in hand *)

ReqPc == {"idle", "mode", "lock", "save", "dispatch", "push",
          "lockCancel", "saveCancel", "saveDropped"}

ReqState == [pc : ReqPc, next : 1..Len(elementIds) + 1, log : {0} \cup DOMAIN logs, start : BOOLEAN]

\* A request that pushes has made a row.
ReqPart ==
  /\ req \in [Request -> ReqState]
  /\ \A r \in Request : req[r].pc = "push" => req[r].log \in DOMAIN logs

LogPart ==
  /\ logs \in Seq(Log)
  /\ queue \in Seq(DOMAIN logs)
  /\ sent \in Seq([log : DOMAIN logs, to : Element \cup {Nobody}])

\* The Download that the row of the worker asks for goes to the device of the row,
\* or to nobody when that device had been deleted.
WorkerPart ==
  /\ worker \in [pc : {"rest", "find", "file", "send", "mark", "fail"},
                 log : {0} \cup DOMAIN logs, row : Log, to : Element \cup {Nobody}]
  /\ worker.pc # "rest" => worker.log \in DOMAIN logs
  /\ worker.pc \in {"file", "send", "mark"} =>
       /\ worker.row.el = logs[worker.log].el /\ worker.row.at = logs[worker.log].at
       /\ worker.to = worker.row.el \/ (worker.to = Nobody /\ worker.row.el \in deleted)
  /\ worker.pc = "mark" =>
       \E k \in DOMAIN sent : sent[k] = [log |-> worker.log, to |-> worker.to]

RestPart ==
  /\ kind \in Kinds /\ elementIds \in Lists
  /\ status \in Status
  /\ <<startLock, cancelLock, overlap, hasFile>> \in BOOLEAN \X BOOLEAN \X BOOLEAN \X BOOLEAN
  /\ deleted \subseteq Element
  /\ faults \in [Fault -> Nat]

IInv == ReqPart /\ LogPart /\ WorkerPart /\ RestPart /\ DownloadIsReal

\* Rows and Downloads are never taken away, and a row keeps its place on the list
\* and its device.
LogsStay ==
  /\ elementIds' = elementIds
  /\ DOMAIN logs \subseteq DOMAIN logs'
  /\ \A i \in DOMAIN logs : logs'[i].el = logs[i].el /\ logs'[i].at = logs[i].at

SentStays == \A k \in DOMAIN sent : k \in DOMAIN sent' /\ sent'[k] = sent[k]

-----------------------------------------------------------------------------
(* The states of requests *)

\* A list has an entry, and its entries are devices.
LEMMA ListType ==
  ASSUME elementIds \in Lists
  PROVE  /\ Len(elementIds) \in Nat \ {0} /\ DOMAIN elementIds = 1..Len(elementIds)
         /\ \A p \in DOMAIN elementIds : elementIds[p] \in Element
<1>1. elementIds \in Seq(Element) /\ elementIds # <<>>
  BY TasksAssumption
<1> QED BY <1>1

LEMMA NewLogType ==
  ASSUME elementIds \in Lists, NEW p \in DOMAIN elementIds
  PROVE  /\ NewLog(p) \in Log /\ [NewLog(p) EXCEPT !.done = TRUE] \in Log
         /\ ~NewLog(p).downloaded /\ ~[NewLog(p) EXCEPT !.done = TRUE].downloaded
         /\ NewLog(p).at = p /\ [NewLog(p) EXCEPT !.done = TRUE].at = p
         /\ ~NewLog(p).done
BY ListType DEF NewLog, Log

LEMMA States ==
  ASSUME elementIds \in Lists, NEW pc \in ReqPc \ {"push"}, NEW start \in BOOLEAN
  PROVE  /\ Busy(pc, start) \in ReqState
         /\ Busy(pc, start).pc = pc /\ Busy(pc, start).start = start
         /\ Busy(pc, start).next = 1
BY ListType DEF Busy, ReqState, ReqPc

LEMMA IdleState == Idle.pc = "idle" /\ ~Idle.start
BY DEF Idle, Busy

LEMMA IdleType ==
  ASSUME elementIds \in Lists
  PROVE  Idle \in ReqState
BY ListType DEF Idle, Busy, ReqState, ReqPc

\* The states that requests begin in.
LEMMA FirstStates ==
  ASSUME elementIds \in Lists
  PROVE
  \A n \in {Busy("mode", FALSE), Busy("lock", TRUE), Busy("lockCancel", FALSE),
            Busy("saveCancel", FALSE), Busy("saveDropped", FALSE), Busy("dispatch", FALSE),
            Busy("dispatch", TRUE), Idle} : n \in ReqState /\ n.pc # "push"
<1>1. \A pc \in ReqPc \ {"push"}, start \in BOOLEAN :
        Busy(pc, start) \in ReqState /\ Busy(pc, start).pc # "push"
  BY States
<1>2. {"mode", "lock", "lockCancel", "saveCancel", "saveDropped", "dispatch"} \subseteq ReqPc \ {"push"}
  BY DEF ReqPc
<1> QED BY <1>1, <1>2, IdleState, IdleType

\* A request goes on as n.
LEMMA ReqSet ==
  ASSUME ReqPart, LogsStay, NEW r \in Request, NEW n, Become(r, n), n \in ReqState',
         n.pc = "push" => n.log \in DOMAIN logs'
  PROVE  ReqPart'
<1>1. \A q \in Request : req[q] \in ReqState /\ (req[q].pc = "push" => req[q].log \in DOMAIN logs)
  BY DEF ReqPart
<1>2. \A q \in Request : req[q] \in ReqState'
  BY <1>1 DEF ReqState, LogsStay
<1>3. req' = [req EXCEPT ![r] = n] /\ req \in [Request -> ReqState]
  BY DEF Become, ReqPart
<1>4. \A q \in Request : req'[q] = IF q = r THEN n ELSE req[q]
  BY <1>3
<1>5. req' \in [Request -> ReqState']
  BY <1>2, <1>3, <1>4
<1>6. \A q \in Request : req'[q].pc = "push" => req'[q].log \in DOMAIN logs'
  BY <1>1, <1>4 DEF LogsStay
<1> QED BY <1>5, <1>6 DEF ReqPart

LEMMA ReqKept ==
  ASSUME ReqPart, LogsStay, UNCHANGED req
  PROVE  ReqPart'
<1>1. \A q \in Request : req[q] \in ReqState /\ (req[q].pc = "push" => req[q].log \in DOMAIN logs)
  BY DEF ReqPart
<1>2. \A q \in Request : req[q] \in ReqState'
  BY <1>1 DEF ReqState, LogsStay
<1>3. req \in [Request -> ReqState]
  BY DEF ReqPart
<1>4. req' \in [Request -> ReqState']
  BY <1>2, <1>3
<1> QED BY <1>1, <1>4 DEF ReqPart, LogsStay

\* Nothing but requests and locks is touched: rows, messages and Downloads are kept.
LEMMA LogsKept ==
  ASSUME IInv, UNCHANGED <<elementIds, logs, sent>>
  PROVE  LogsStay /\ SentStays
BY DEF LogsStay, SentStays

LEMMA WorkerKept ==
  ASSUME IInv, UNCHANGED worker, LogsStay, SentStays, deleted \subseteq deleted'
  PROVE  WorkerPart'
BY DEF IInv, WorkerPart, LogsStay, SentStays, Log

LEMMA FailTyped ==
  ASSUME RestPart, NEW f \in Fault, Fail(f)
  PROVE  /\ faults' \in [Fault -> Nat]
         /\ faults'[f] = faults[f] + 1
         /\ \A g \in Fault : g # f => faults'[g] = faults[g]
<1>1. faults' = [faults EXCEPT ![f] = faults[f] + 1]
  BY Zenon DEF Fail
<1> QED BY <1>1 DEF RestPart

\* DownloadIsReal is kept by whatever marks no row.
LEMMA RealKept ==
  ASSUME IInv, LogsStay, SentStays, deleted \subseteq deleted',
         \A i \in DOMAIN logs' : logs'[i].downloaded => i \in DOMAIN logs /\ logs[i].downloaded
  PROVE  DownloadIsReal'
<1> SUFFICES ASSUME NEW i \in DOMAIN logs', logs'[i].downloaded
             PROVE  (\E k \in SendsOf(i) : \/ sent[k].to = logs[i].el
                                           \/ sent[k].to = Nobody /\ logs[i].el \in deleted)'
  BY DEF DownloadIsReal
<1>1. i \in DOMAIN logs /\ logs[i].downloaded
  OBVIOUS
<1>2. PICK k \in SendsOf(i) : \/ sent[k].to = logs[i].el
                              \/ sent[k].to = Nobody /\ logs[i].el \in deleted
  BY <1>1 DEF IInv, DownloadIsReal
<1>3. k \in DOMAIN sent' /\ sent'[k] = sent[k] /\ sent[k].log = i
  BY <1>2 DEF SendsOf, SentStays
<1>4. k \in SendsOf(i)'
  BY <1>3 DEF SendsOf
<1> QED BY <1>1, <1>2, <1>3, <1>4 DEF LogsStay

\* A step that leaves rows, Downloads and the worker alone.
LEMMA TablesKept ==
  ASSUME IInv, UNCHANGED <<elementIds, logs, sent, worker>>, deleted \subseteq deleted',
         queue' \in Seq(DOMAIN logs)
  PROVE  LogsStay /\ LogPart' /\ WorkerPart' /\ DownloadIsReal'
<1>1. LogsStay /\ SentStays
  BY LogsKept
<1>2. LogPart'
  BY DEF IInv, LogPart, Log
<1>3. WorkerPart'
  BY <1>1, WorkerKept
<1>4. DownloadIsReal'
  BY <1>1, RealKept
<1> QED BY <1>1, <1>2, <1>3, <1>4

-----------------------------------------------------------------------------
(* Each step preserves the types *)

LEMMA RestFields == Resting.pc = "rest" /\ Resting.log = 0
BY DEF Resting

LEMMA RestingState ==
  ASSUME elementIds \in Lists, NEW D
  PROVE  /\ Resting \in [pc : {"rest", "find", "file", "send", "mark", "fail"},
                         log : {0} \cup D, row : Log, to : Element \cup {Nobody}]
         /\ Resting.pc = "rest"
<1>1. 1 \in DOMAIN elementIds
  BY ListType
<1>2. NewLog(1) \in Log
  BY <1>1, NewLogType
<1> QED BY <1>2 DEF Resting

LEMMA InitInv == Init => IInv
<1> SUFFICES ASSUME Init PROVE IInv
  OBVIOUS
<1>1. DOMAIN logs = {} /\ logs = <<>> /\ queue = <<>> /\ sent = <<>>
  BY DEF Init
<1>2. ReqPart
  <2>1. \A r \in Request : req[r] = Idle
    BY DEF Init
  <2>2. req \in [Request -> ReqState]
    BY IdleType DEF Init
  <2> QED BY <2>1, <2>2, IdleState DEF ReqPart
<1>3. LogPart
  BY <1>1 DEF LogPart
<1>4. RestPart
  <2>1. <<startLock, cancelLock, overlap, hasFile>> \in BOOLEAN \X BOOLEAN \X BOOLEAN \X BOOLEAN
    BY DEF Init
  <2>2. faults \in [Fault -> Nat]
    BY DEF Init
  <2> QED BY <2>1, <2>2 DEF Init, RestPart, Status
<1>5. DownloadIsReal
  BY <1>1 DEF DownloadIsReal
<1>6. WorkerPart
  BY <1>1, RestingState DEF Init, WorkerPart
<1> QED BY <1>2, <1>3, <1>4, <1>5, <1>6 DEF IInv

LEMMA RequestFrameParts ==
  ASSUME RequestFrame
  PROVE  UNCHANGED <<kind, elementIds, worker, sent, hasFile, deleted>>
BY DEF RequestFrame, workVars, envVars

LEMMA BeginGoes ==
  ASSUME IInv, NEW r \in Request, Begin(r)
  PROVE  \E n \in ReqState : Become(r, n) /\ n.pc # "push"
<1>1. \E n \in {Busy("mode", FALSE), Busy("lock", TRUE), Busy("lockCancel", FALSE),
                Busy("saveDropped", FALSE), Busy("dispatch", FALSE), Idle} : Become(r, n)
  BY DEF Begin, CreateTask, ReadToStart, ReadToCancel, ReadToDrop, AddTask
<1> QED BY <1>1, FirstStates DEF IInv, RestPart

LEMMA BeginInv ==
  ASSUME IInv, NEW r \in Request, Begin(r)
  PROVE  IInv' /\ LogsStay
<1>1. UNCHANGED <<kind, elementIds, worker, sent, hasFile, deleted>>
  BY RequestFrameParts DEF Begin, CreateTask, ReadToStart, ReadToCancel, ReadToDrop, AddTask
<1>2. UNCHANGED <<logs, queue, startLock, cancelLock, faults>>
  BY DEF Begin, CreateTask, ReadToStart, ReadToCancel, ReadToDrop, AddTask, lockVars
<1>3. LogsStay /\ LogPart' /\ WorkerPart' /\ DownloadIsReal'
  BY <1>1, <1>2, TablesKept DEF IInv, LogPart
<1>4. PICK n \in ReqState : Become(r, n) /\ n.pc # "push"
  BY BeginGoes
<1>5. ReqPart'
  <2>1. n \in ReqState'
    BY <1>1, <1>2 DEF ReqState
  <2> QED BY <1>3, <1>4, <2>1, ReqSet DEF IInv
<1>6. status' \in Status
  BY DEF Begin, CreateTask, ReadToStart, ReadToCancel, ReadToDrop, AddTask, Status, IInv, RestPart
<1>7. overlap' \in BOOLEAN
  <2>1. overlap' = overlap \/ overlap' = (overlap \/ \E q \in Request : PastStatus(q))
    BY Zenon DEF Begin, CreateTask, ReadToStart, ReadToCancel, ReadToDrop, AddTask, lockVars
  <2>2. overlap \in BOOLEAN
    BY DEF IInv, RestPart
  <2> QED BY <2>1, <2>2, Zenon
<1>8. RestPart'
  BY <1>1, <1>2, <1>6, <1>7 DEF IInv, RestPart
<1> QED BY <1>3, <1>5, <1>8 DEF IInv

\* The fields of a request that goes on from where it is.
LEMMA GoesTo ==
  ASSUME ReqPart, NEW r \in Request, NEW pc \in ReqPc
  PROVE  [req[r] EXCEPT !.pc = pc] \in ReqState /\ [req[r] EXCEPT !.pc = pc].pc = pc
<1>1. req[r] \in ReqState
  BY DEF ReqPart
<1> QED BY <1>1 DEF ReqState

\* The request goes on to the next entry of the list, without a row or with one.
NextEntry(r) == [req[r] EXCEPT !.next = @ + 1]

WithRow(r) == [req[r] EXCEPT !.pc = "push", !.next = @ + 1, !.log = Len(logs) + 1]

\* The steps that make rows.
MakesRow(r) == CreateLog(r) \/ RefuseInUpgrade(r)

LEMMA EntryType ==
  ASSUME IInv, NEW r \in Request, Dispatches(r)
  PROVE  /\ req[r].next \in DOMAIN elementIds
         /\ NextEntry(r) \in ReqState
         /\ NextEntry(r).pc = "dispatch" /\ NextEntry(r).next = req[r].next + 1
         /\ NextEntry(r).start = req[r].start /\ NextEntry(r).log = req[r].log
         /\ WithRow(r).pc = "push" /\ WithRow(r).next = req[r].next + 1
         /\ WithRow(r).start = req[r].start /\ WithRow(r).log = Len(logs) + 1
         /\ WithRow(r) \in [pc : ReqPc, next : 1..Len(elementIds) + 1, log : {Len(logs) + 1},
                            start : BOOLEAN]
<1>1. req[r] \in ReqState /\ elementIds \in Lists
  BY DEF IInv, ReqPart, RestPart
<1>2. /\ Len(elementIds) \in Nat /\ DOMAIN elementIds = 1..Len(elementIds)
      /\ req[r].next \in 1..Len(elementIds) + 1 /\ req[r].next <= Len(elementIds)
      /\ req[r].pc = "dispatch"
  BY <1>1, ListType DEF ReqState, Dispatches
<1>3. req[r].next \in DOMAIN elementIds /\ req[r].next + 1 \in 1..Len(elementIds) + 1
  BY <1>2
<1> QED BY <1>1, <1>2, <1>3 DEF NextEntry, WithRow, ReqState, ReqPc

\* What a step that makes a row comes to.
LEMMA RowMade ==
  ASSUME IInv, NEW r \in Request, MakesRow(r)
  PROVE  /\ Dispatches(r)
         /\ UNCHANGED <<kind, elementIds, worker, sent, hasFile, deleted, queue, status,
                        startLock, cancelLock, overlap>>
         /\ \/ UNCHANGED logs /\ Become(r, NextEntry(r)) /\ Fail("db")
            \/ /\ logs' = Append(logs, NewLog(req[r].next)) /\ Become(r, WithRow(r))
               /\ UNCHANGED faults
            \/ /\ logs' = Append(logs, [NewLog(req[r].next) EXCEPT !.done = TRUE])
               /\ Become(r, NextEntry(r)) /\ UNCHANGED faults
<1>1. Dispatches(r)
  BY DEF MakesRow, CreateLog, RefuseInUpgrade
<1>2. UNCHANGED <<kind, elementIds, worker, sent, hasFile, deleted, queue, status,
                  startLock, cancelLock, overlap>>
  BY RequestFrameParts DEF MakesRow, CreateLog, RefuseInUpgrade, lockVars
<1> QED BY <1>1, <1>2 DEF MakesRow, CreateLog, RefuseInUpgrade, NextEntry, WithRow

LEMMA HasPushed ==
  ASSUME ReqPart, NEW r \in Request
  PROVE  /\ [req[r] EXCEPT !.pc = "dispatch", !.log = 0] \in ReqState
         /\ [req[r] EXCEPT !.pc = "dispatch", !.log = 0].pc = "dispatch"
<1>1. req[r] \in ReqState
  BY DEF ReqPart
<1> QED BY <1>1 DEF ReqState, ReqPc

LEMMA SeqWider ==
  ASSUME NEW S, NEW T, S \subseteq T, NEW s \in Seq(S)
  PROVE  s \in Seq(T)
OBVIOUS

LEMMA SeqElements ==
  ASSUME NEW S, NEW s \in Seq(S)
  PROVE  \A k \in DOMAIN s : s[k] \in S
OBVIOUS

LEMMA SeqLonger ==
  ASSUME NEW S, NEW s \in Seq(S), NEW m \in S
  PROVE  Append(s, m) \in Seq(S)
OBVIOUS

\* The variables with neither rows nor requests, for the steps of a request.
LEMMA WorkRest ==
  ASSUME IInv, NEW r \in Request, Work(r)
  PROVE  RestPart'
<1>1. UNCHANGED <<kind, elementIds, hasFile, deleted>>
  BY RequestFrameParts DEF Work, SaveNewStatus, LockStart, SaveStarted, PushMessage, EndDispatch,
     CreateLog, RefuseInUpgrade, SkipBlacklisted, LockCancel, SaveCancelled, SaveDropped
<1>2. status' \in Status
  BY DEF Work, SaveNewStatus, LockStart, SaveStarted, PushMessage, EndDispatch, CreateLog,
     RefuseInUpgrade, SkipBlacklisted, LockCancel, SaveCancelled, SaveDropped, Status, IInv, RestPart
<1>3. faults' \in [Fault -> Nat]
  <2>1. UNCHANGED faults \/ Fail("db") \/ Fail("resend") \/ Fail("push")
    BY DEF Work, SaveNewStatus, LockStart, SaveStarted, PushMessage, EndDispatch, CreateLog,
       RefuseInUpgrade, SkipBlacklisted, LockCancel, SaveCancelled, SaveDropped
  <2> QED BY <2>1, FailTyped DEF Fault, IInv, RestPart
<1>4. UNCHANGED overlap
  BY DEF Work, SaveNewStatus, LockStart, SaveStarted, PushMessage, EndDispatch, CreateLog,
     RefuseInUpgrade, SkipBlacklisted, LockCancel, SaveCancelled, SaveDropped, lockVars
<1>5. startLock' \in BOOLEAN /\ cancelLock' \in BOOLEAN
  <2>1. /\ startLock' = startLock \/ startLock' = TRUE \/ startLock' = (startLock /\ ~req[r].start)
        /\ cancelLock' = cancelLock \/ cancelLock' = TRUE \/ cancelLock' = FALSE
    BY Zenon DEF Work, SaveNewStatus, LockStart, SaveStarted, PushMessage, EndDispatch, CreateLog,
       RefuseInUpgrade, SkipBlacklisted, LockCancel, SaveCancelled, SaveDropped, lockVars
  <2>2. startLock \in BOOLEAN /\ cancelLock \in BOOLEAN
    BY DEF IInv, RestPart
  <2> QED BY <2>1, <2>2, Zenon
<1> QED BY <1>1, <1>2, <1>3, <1>4, <1>5 DEF IInv, RestPart

\* The request makes a row.
LEMMA RowMadeInv ==
  ASSUME IInv, NEW r \in Request, MakesRow(r)
  PROVE  LogsStay /\ ReqPart' /\ LogPart' /\ WorkerPart' /\ DownloadIsReal'
<1>1. /\ Dispatches(r) /\ UNCHANGED <<elementIds, worker, sent, deleted, queue>>
      /\ elementIds \in Lists /\ req[r].next \in DOMAIN elementIds
  BY RowMade, EntryType DEF IInv, RestPart
<1>2. CASE UNCHANGED logs /\ Become(r, NextEntry(r))
  <2>1. LogsStay /\ LogPart' /\ WorkerPart' /\ DownloadIsReal'
    BY <1>1, <1>2, TablesKept DEF IInv, LogPart
  <2>2. NextEntry(r) \in ReqState /\ NextEntry(r).pc # "push" /\ ReqState' = ReqState
    BY <1>1, <1>2, EntryType DEF ReqState
  <2>3. ReqPart'
    BY <1>2, <2>1, <2>2, ReqSet DEF IInv
  <2> QED BY <2>1, <2>3
<1>3. ASSUME NEW row \in Log, ~row.downloaded, logs' = Append(logs, row),
             Become(r, NextEntry(r)) \/ Become(r, WithRow(r))
      PROVE  LogsStay /\ ReqPart' /\ LogPart' /\ WorkerPart' /\ DownloadIsReal'
  <2>1. logs \in Seq(Log) /\ Log' = Log
    BY <1>1 DEF IInv, LogPart, Log
  <2>2. /\ logs' \in Seq(Log) /\ DOMAIN logs \subseteq DOMAIN logs' /\ Len(logs) + 1 \in DOMAIN logs'
        /\ \A i \in DOMAIN logs : logs'[i] = logs[i]
        /\ \A i \in DOMAIN logs' : i \in DOMAIN logs \/ logs'[i] = row
    BY <1>3, <2>1
  <2>3. LogsStay /\ SentStays
    BY <1>1, <2>2 DEF LogsStay, SentStays
  <2>4. LogPart'
    <3>1. queue \in Seq(DOMAIN logs')
      BY <2>2, SeqWider DEF IInv, LogPart
    <3>2. [log : DOMAIN logs, to : Element \cup {Nobody}]
            \subseteq [log : DOMAIN logs', to : Element \cup {Nobody}]
      BY <2>2
    <3>3. sent \in Seq([log : DOMAIN logs', to : Element \cup {Nobody}])
      BY <3>2, SeqWider DEF IInv, LogPart
    <3> QED BY <1>1, <2>1, <2>2, <3>1, <3>3 DEF LogPart
  <2>5. WorkerPart' /\ DownloadIsReal'
    BY <1>1, <1>3, <2>2, <2>3, WorkerKept, RealKept
  <2>6. \E n \in ReqState' : Become(r, n) /\ (n.pc = "push" => n.log \in DOMAIN logs')
    <3>1. NextEntry(r) \in ReqState' /\ NextEntry(r).pc # "push"
      BY <1>1, <2>2, EntryType DEF ReqState
    <3>2. WithRow(r) \in ReqState' /\ WithRow(r).log \in DOMAIN logs'
      BY <1>1, <2>2, EntryType DEF ReqState
    <3> QED BY <1>3, <3>1, <3>2
  <2>7. ReqPart'
    BY <2>3, <2>6, ReqSet DEF IInv
  <2> QED BY <2>3, <2>4, <2>5, <2>7
<1> QED BY <1>1, <1>2, <1>3, RowMade, NewLogType

\* The state in which a request goes on, unless it makes a row.
LEMMA WorkGoes ==
  ASSUME IInv, NEW r \in Request, Work(r), ~MakesRow(r)
  PROVE  \E n \in ReqState : Become(r, n) /\ n.pc # "push"
<1>1. CASE \/ SaveStarted(r) \/ EndDispatch(r) \/ LockCancel(r) \/ SaveCancelled(r)
           \/ SaveDropped(r) \/ \E now \in BOOLEAN : SaveNewStatus(r, now)
  <2>1. \E n \in {Busy("saveCancel", FALSE), Busy("dispatch", FALSE), Busy("dispatch", TRUE), Idle} :
          Become(r, n)
    BY <1>1 DEF SaveNewStatus, SaveStarted, EndDispatch, LockCancel, SaveCancelled, SaveDropped
  <2> QED BY <2>1, FirstStates DEF IInv, RestPart
<1>2. CASE LockStart(r)
  <2>1. /\ [req[r] EXCEPT !.pc = "save"] \in ReqState
        /\ [req[r] EXCEPT !.pc = "save"].pc = "save"
    BY GoesTo DEF IInv, ReqPc
  <2> QED BY <1>2, <2>1, IdleState, IdleType DEF LockStart, IInv, RestPart
<1>3. CASE PushMessage(r)
  <2>1. /\ [req[r] EXCEPT !.pc = "dispatch", !.log = 0] \in ReqState
        /\ [req[r] EXCEPT !.pc = "dispatch", !.log = 0].pc = "dispatch"
    BY HasPushed DEF IInv
  <2> QED BY <1>3, <2>1 DEF PushMessage
<1>4. CASE SkipBlacklisted(r)
  <2>1. Dispatches(r) /\ Become(r, NextEntry(r))
    BY <1>4 DEF SkipBlacklisted, NextEntry
  <2> QED BY <2>1, EntryType
<1> QED BY <1>1, <1>2, <1>3, <1>4 DEF Work, MakesRow

LEMMA WorkInv ==
  ASSUME IInv, NEW r \in Request, Work(r)
  PROVE  IInv' /\ LogsStay
<1>1. RestPart'
  BY WorkRest
<1>2. CASE MakesRow(r)
  BY <1>1, <1>2, RowMadeInv DEF IInv
<1>3. CASE ~MakesRow(r)
  <2>1. UNCHANGED <<elementIds, logs, worker, sent, deleted>>
    BY <1>3, RequestFrameParts DEF Work, MakesRow, SaveNewStatus, LockStart, SaveStarted, PushMessage,
       EndDispatch, SkipBlacklisted, LockCancel, SaveCancelled, SaveDropped
  <2>2. queue' \in Seq(DOMAIN logs)
    <3>1. CASE UNCHANGED queue
      BY <3>1 DEF IInv, LogPart
    <3>2. CASE PushMessage(r)
      <4>1. req[r].log \in DOMAIN logs /\ queue \in Seq(DOMAIN logs)
        BY <3>2 DEF PushMessage, IInv, ReqPart, LogPart
      <4>2. \/ queue' = Append(queue, req[r].log)
            \/ queue' = queue \o <<req[r].log, req[r].log>>
            \/ queue' = queue
        BY <3>2 DEF PushMessage
      <4>3. <<req[r].log, req[r].log>> \in Seq(DOMAIN logs)
        BY <4>1
      <4> QED BY <4>1, <4>2, <4>3
    <3>3. UNCHANGED queue \/ PushMessage(r)
      BY <1>3 DEF Work, MakesRow, SaveNewStatus, LockStart, SaveStarted, EndDispatch, SkipBlacklisted,
         LockCancel, SaveCancelled, SaveDropped
    <3> QED BY <3>1, <3>2, <3>3
  <2>3. LogsStay /\ LogPart' /\ WorkerPart' /\ DownloadIsReal'
    BY <2>1, <2>2, TablesKept
  <2>4. \E n \in ReqState : Become(r, n) /\ n.pc # "push"
    BY <1>3, WorkGoes
  <2>5. ReqState' = ReqState
    BY <2>1 DEF ReqState
  <2>6. ReqPart'
    BY <2>3, <2>4, <2>5, ReqSet DEF IInv
  <2> QED BY <1>1, <2>3, <2>6 DEF IInv
<1> QED BY <1>2, <1>3

-----------------------------------------------------------------------------
(* The worker, locks, deletions and crashes *)

\* The steps that only the environment takes.
LEMMA OtherInv ==
  ASSUME IInv, \/ DeleteTask \/ StartLockExpires \/ CancelLockExpires
               \/ DeleteUpgradeFile \/ \E e \in Element : DeleteDevice(e)
  PROVE  IInv' /\ LogsStay
<1>1. UNCHANGED <<kind, elementIds, worker, sent, logs, queue, req>>
  BY RequestFrameParts DEF DeleteTask, StartLockExpires, CancelLockExpires, DeleteUpgradeFile,
     DeleteDevice, workVars, taskVars
<1>2. deleted \subseteq deleted' /\ deleted' \subseteq Element
  BY RequestFrameParts DEF DeleteTask, StartLockExpires, CancelLockExpires, DeleteUpgradeFile,
     DeleteDevice, IInv, RestPart
<1>3. LogsStay /\ LogPart' /\ WorkerPart' /\ DownloadIsReal'
  BY <1>1, <1>2, TablesKept DEF IInv, LogPart
<1>4. ReqPart'
  BY <1>1, <1>3, ReqKept DEF IInv
<1>5. faults' \in [Fault -> Nat]
  <2>1. UNCHANGED faults \/ Fail("lockTTL") \/ Fail("delete")
    BY DEF DeleteTask, StartLockExpires, CancelLockExpires, DeleteUpgradeFile, DeleteDevice
  <2> QED BY <2>1, FailTyped DEF Fault, IInv, RestPart
<1>6. status' \in Status
  BY DEF DeleteTask, StartLockExpires, CancelLockExpires, DeleteUpgradeFile, DeleteDevice,
     taskVars, Status, IInv, RestPart
<1>7. <<startLock, cancelLock, overlap, hasFile>>' \in BOOLEAN \X BOOLEAN \X BOOLEAN \X BOOLEAN
  <2>1. /\ startLock' = startLock \/ startLock' = FALSE
        /\ cancelLock' = cancelLock \/ cancelLock' = FALSE
        /\ overlap' = overlap
        /\ hasFile' = hasFile \/ hasFile' = FALSE
    BY Zenon, RequestFrameParts DEF DeleteTask, StartLockExpires, CancelLockExpires,
       DeleteUpgradeFile, DeleteDevice, lockVars
  <2>2. <<startLock, cancelLock, overlap, hasFile>> \in BOOLEAN \X BOOLEAN \X BOOLEAN \X BOOLEAN
    BY DEF IInv, RestPart
  <2> QED BY <2>1, <2>2
<1>8. RestPart'
  BY <1>1, <1>2, <1>5, <1>6, <1>7 DEF IInv, RestPart
<1> QED BY <1>3, <1>4, <1>8 DEF IInv

LEMMA WorkerRests ==
  ASSUME IInv, worker' = Resting, UNCHANGED elementIds
  PROVE  WorkerPart'
BY RestingState DEF WorkerPart, Log, IInv, RestPart

LEMMA CrashInv ==
  ASSUME IInv, Crash
  PROVE  IInv' /\ LogsStay
<1>1. UNCHANGED <<kind, elementIds, status, sent, logs, queue, hasFile, deleted, startLock, cancelLock, overlap>>
  BY DEF Crash, taskVars, lockVars, envVars
<1>2. LogsStay /\ SentStays
  BY <1>1 DEF LogsStay, SentStays
<1>3. LogPart' /\ DownloadIsReal'
  BY <1>1, <1>2, RealKept DEF IInv, LogPart, Log
<1>4. ReqPart'
  <2>1. \A r \in Request : req'[r] = Idle
    BY DEF Crash
  <2>2. ReqState' = ReqState
    BY <1>1 DEF ReqState
  <2>3. req' \in [Request -> ReqState]
    BY IdleType DEF Crash, IInv, RestPart
  <2> QED BY <2>1, <2>2, <2>3, IdleState DEF ReqPart
<1>5. WorkerPart'
  BY <1>1, WorkerRests DEF Crash
<1>6. RestPart'
  BY <1>1, FailTyped DEF Crash, Fault, IInv, RestPart
<1> QED BY <1>2, <1>3, <1>4, <1>5, <1>6 DEF IInv

LEMMA WorkerRest ==
  ASSUME IInv, WorkerStep
  PROVE  RestPart' /\ UNCHANGED <<req, deleted, startLock, overlap, status, kind, elementIds>>
<1>1. UNCHANGED <<kind, elementIds, status, req, startLock, cancelLock, overlap, hasFile, deleted>>
  BY DEF WorkerStep, Pop, Find, FindFile, SendDownload, MarkDownloaded, MarkFailed, WorkerFrame,
     taskVars, lockVars, envVars
<1>2. faults' \in [Fault -> Nat]
  <2>1. \E f \in {"db", "lose", "push", "resend"} : UNCHANGED faults \/ Fail(f)
    BY DEF WorkerStep, Pop, Find, FindFile, SendDownload, MarkDownloaded, MarkFailed
  <2> QED BY <2>1, FailTyped DEF Fault, IInv, RestPart
<1> QED BY <1>1, <1>2 DEF IInv, RestPart

\* The worker goes from one step to the next with what it has in hand.
LEMMA WorkerGoes ==
  ASSUME IInv, UNCHANGED <<elementIds, logs, sent, deleted>>,
         NEW pc \in {"file", "send", "fail"}, worker' = [worker EXCEPT !.pc = pc],
         worker.pc # "rest", pc = "send" => worker.pc = "file", pc # "file"
  PROVE  WorkerPart'
<1>1. worker \in [pc : {"rest", "find", "file", "send", "mark", "fail"},
                  log : {0} \cup DOMAIN logs, row : Log, to : Element \cup {Nobody}]
  BY DEF IInv, WorkerPart
<1>2. worker'.pc = pc /\ worker'.log = worker.log /\ worker'.row = worker.row /\ worker'.to = worker.to
  BY <1>1
<1>3. worker' \in [pc : {"rest", "find", "file", "send", "mark", "fail"},
                   log : {0} \cup DOMAIN logs, row : Log, to : Element \cup {Nobody}]
  BY <1>1
<1> QED BY <1>2, <1>3 DEF IInv, WorkerPart, Log

\* The worker takes up a message.
LEMMA PopParts ==
  ASSUME IInv, Pop
  PROVE  /\ UNCHANGED <<logs, sent>> /\ LogPart' /\ WorkerPart'
<1>1. UNCHANGED <<elementIds, logs, sent>> /\ queue \in Seq(DOMAIN logs) /\ queue # <<>>
  BY DEF Pop, IInv, LogPart, WorkerFrame, taskVars
<1>2. queue' \in Seq(DOMAIN logs) /\ Head(queue) \in DOMAIN logs
  BY <1>1 DEF Pop
<1>3. LogPart'
  BY <1>1, <1>2 DEF IInv, LogPart, Log
<1>4. CASE UNCHANGED worker
  <2>1. worker' = Resting
    BY <1>4 DEF Pop
  <2> QED BY <1>1, <1>3, <2>1, WorkerRests
<1>5. CASE worker' = [Resting EXCEPT !.pc = "find", !.log = Head(queue)]
  <2>1. Resting \in [pc : {"rest", "find", "file", "send", "mark", "fail"},
                     log : {0} \cup DOMAIN logs, row : Log, to : Element \cup {Nobody}]
    BY RestingState DEF IInv, RestPart
  <2>2. worker' \in [pc : {"rest", "find", "file", "send", "mark", "fail"},
                     log : {0} \cup DOMAIN logs, row : Log, to : Element \cup {Nobody}]
    BY <1>2, <1>5, <2>1
  <2>3. worker'.pc = "find" /\ worker'.log = Head(queue)
    BY <1>5, <2>1
  <2> QED BY <1>1, <1>2, <1>3, <2>2, <2>3 DEF WorkerPart, Log
<1> QED BY <1>4, <1>5 DEF Pop

\* It reads the row, and whether the device is still there.
LEMMA FindParts ==
  ASSUME IInv, Find
  PROVE  UNCHANGED <<logs, sent, queue>> /\ WorkerPart'
<1>1. /\ UNCHANGED <<elementIds, logs, sent, queue, deleted>>
      /\ worker.pc = "find" /\ worker.log \in DOMAIN logs
  BY DEF Find, IInv, WorkerPart, WorkerFrame, envVars, taskVars
<1>2. logs[worker.log] \in Log /\ logs[worker.log].el \in Element
  <2>1. logs \in Seq(Log)
    BY DEF IInv, LogPart
  <2>2. logs[worker.log] \in Log
    BY <1>1, <2>1
  <2> QED BY <2>2 DEF Log
<1>3. CASE worker' = Resting
  BY <1>1, <1>3, WorkerRests
<1>4. CASE worker' = [worker EXCEPT !.pc = "fail"]
  BY <1>1, <1>4, WorkerGoes
<1>5. CASE worker' = [worker EXCEPT !.pc = "file", !.row = logs[worker.log],
                                    !.to = IF logs[worker.log].el \in deleted THEN Nobody
                                           ELSE logs[worker.log].el]
  <2> DEFINE to == IF logs[worker.log].el \in deleted THEN Nobody ELSE logs[worker.log].el
  <2>1. worker \in [pc : {"rest", "find", "file", "send", "mark", "fail"},
                    log : {0} \cup DOMAIN logs, row : Log, to : Element \cup {Nobody}]
    BY DEF IInv, WorkerPart
  <2>2. to \in Element \cup {Nobody}
    BY <1>2
  <2>3. worker' = [worker EXCEPT !.pc = "file", !.row = logs[worker.log], !.to = to]
    BY <1>5
  <2>4. \/ to = logs[worker.log].el
        \/ to = Nobody /\ logs[worker.log].el \in deleted
    <3>1. CASE logs[worker.log].el \in deleted
      BY <3>1
    <3>2. CASE logs[worker.log].el \notin deleted
      BY <3>2
    <3> QED BY <3>1, <3>2
  <2> HIDE DEF to
  <2>5. worker' \in [pc : {"rest", "find", "file", "send", "mark", "fail"},
                     log : {0} \cup DOMAIN logs, row : Log, to : Element \cup {Nobody}]
    BY <1>2, <2>1, <2>2, <2>3
  <2>6. worker'.pc = "file" /\ worker'.log = worker.log /\ worker'.row = logs[worker.log]
        /\ worker'.to = to
    BY <2>1, <2>3
  <2>7. /\ worker'.row.el = logs'[worker'.log].el /\ worker'.row.at = logs'[worker'.log].at
        /\ \/ worker'.to = worker'.row.el
           \/ worker'.to = Nobody /\ worker'.row.el \in deleted'
    BY <1>1, <2>4, <2>6
  <2>8. worker'.pc = "file" /\ worker'.log \in DOMAIN logs'
    BY <1>1, <2>6
  <2>9. worker' \in [pc : {"rest", "find", "file", "send", "mark", "fail"},
                     log : {0} \cup DOMAIN logs', row : Log, to : Element \cup {Nobody}]
    BY <1>1, <2>5
  <2>10. WorkerPart'
    <3>1. Log' = Log
      BY <1>1 DEF Log
    <3> QED BY <2>7, <2>8, <2>9, <3>1 DEF WorkerPart
  <2> QED BY <1>1, <2>10
<1> QED BY <1>1, <1>3, <1>4, <1>5 DEF Find

\* It puts the Download into the channel of the device.
LEMMA SendParts ==
  ASSUME IInv, SendDownload
  PROVE  /\ UNCHANGED <<logs, queue>> /\ SentStays
         /\ LogPart' /\ WorkerPart'
<1>1. /\ UNCHANGED <<elementIds, logs, queue, deleted>>
      /\ worker.pc = "send" /\ worker.log \in DOMAIN logs
  BY DEF SendDownload, IInv, WorkerPart, WorkerFrame, envVars, taskVars
<1> DEFINE m == [log |-> worker.log, to |-> worker.to]
<1>2. worker \in [pc : {"rest", "find", "file", "send", "mark", "fail"},
                  log : {0} \cup DOMAIN logs, row : Log, to : Element \cup {Nobody}]
  BY DEF IInv, WorkerPart
<1>3. m \in [log : DOMAIN logs, to : Element \cup {Nobody}]
  BY <1>1, <1>2
<1>4. sent \in Seq([log : DOMAIN logs, to : Element \cup {Nobody}])
  BY DEF IInv, LogPart
<1>5. sent' = sent \/ sent' = Append(sent, m) \/ sent' = sent \o <<m, m>>
  BY DEF SendDownload
<1> HIDE DEF m
<1>6. /\ SentStays /\ sent' \in Seq([log : DOMAIN logs, to : Element \cup {Nobody}])
      /\ UNCHANGED sent \/ (Len(sent) + 1 \in DOMAIN sent' /\ sent'[Len(sent) + 1] = m)
  <2>1. CASE sent' = sent
    BY <1>4, <2>1 DEF SentStays
  <2>2. CASE sent' = Append(sent, m)
    BY <1>3, <1>4, <2>2 DEF SentStays
  <2>3. CASE sent' = sent \o <<m, m>>
    BY <1>3, <1>4, <2>3 DEF SentStays
  <2> QED BY <1>5, <2>1, <2>2, <2>3
<1>7. LogPart'
  BY <1>1, <1>6 DEF IInv, LogPart, Log
<1>8. CASE sent' # sent /\ worker' = [worker EXCEPT !.pc = "mark"]
  <2>1. Len(sent) + 1 \in DOMAIN sent' /\ sent'[Len(sent) + 1] = m
    BY <1>6, <1>8
  <2>2. worker'.pc = "mark" /\ worker'.log = worker.log /\ worker'.row = worker.row
        /\ worker'.to = worker.to
    BY <1>2, <1>8
  <2>3. worker' \in [pc : {"rest", "find", "file", "send", "mark", "fail"},
                     log : {0} \cup DOMAIN logs, row : Log, to : Element \cup {Nobody}]
    BY <1>2, <1>8
  <2>4. /\ worker.row.el = logs[worker.log].el /\ worker.row.at = logs[worker.log].at
        /\ (worker.to = worker.row.el \/ (worker.to = Nobody /\ worker.row.el \in deleted))
    BY <1>1 DEF IInv, WorkerPart
  <2> QED BY <1>1, <1>6, <1>7, <2>1, <2>2, <2>3, <2>4 DEF WorkerPart, m, Log
<1>9. CASE worker' = [worker EXCEPT !.pc = "fail"]
  <2>1. worker'.pc = "fail" /\ worker'.log = worker.log
    BY <1>2, <1>9
  <2>2. worker' \in [pc : {"rest", "find", "file", "send", "mark", "fail"},
                     log : {0} \cup DOMAIN logs, row : Log, to : Element \cup {Nobody}]
    BY <1>2, <1>9
  <2> QED BY <1>1, <1>6, <1>7, <2>1, <2>2 DEF WorkerPart, Log
<1>10. worker' = [worker EXCEPT !.pc = "fail"]
       \/ (sent' # sent /\ worker' = [worker EXCEPT !.pc = "mark"])
  <2>1. sent' = Append(sent, m) \/ sent' = sent \o <<m, m>> => sent' # sent
    BY <1>3, <1>4
  <2> QED BY <2>1 DEF SendDownload, m
<1> QED BY <1>6, <1>7, <1>8, <1>9, <1>10, <1>1

\* It writes the row: marked as downloaded, which is what it asked for, or as failed.
LEMMA MarkParts ==
  ASSUME IInv, MarkDownloaded \/ MarkFailed
  PROVE  UNCHANGED <<sent, queue>> /\ LogsStay /\ LogPart' /\ WorkerPart' /\ DownloadIsReal'
<1>1. UNCHANGED <<elementIds, sent, queue, deleted>> /\ worker.pc \in {"mark", "fail"}
      /\ worker.log \in DOMAIN logs /\ worker' = Resting
  BY DEF MarkDownloaded, MarkFailed, IInv, WorkerPart, WorkerFrame, envVars, taskVars
<1>2. logs \in Seq(Log) /\ logs[worker.log] \in Log /\ worker.row \in Log
  BY <1>1 DEF IInv, LogPart, WorkerPart
<1>3. PICK l \in Log : /\ logs' = [logs EXCEPT ![worker.log] = l]
                       /\ l.el = logs[worker.log].el /\ l.at = logs[worker.log].at
                       /\ l.downloaded => logs[worker.log].downloaded \/ worker.pc = "mark"
  <2>1. CASE UNCHANGED logs
    BY <1>1, <1>2, <2>1
  <2>2. CASE MarkDownloaded /\ ~UNCHANGED logs
    <3>1. /\ [worker.row EXCEPT !.downloaded = TRUE] \in Log
          /\ [worker.row EXCEPT !.downloaded = TRUE].el = worker.row.el
          /\ [worker.row EXCEPT !.downloaded = TRUE].at = worker.row.at
      BY <1>2 DEF Log
    <3>2. /\ worker.pc = "mark" /\ worker.row.el = logs[worker.log].el
          /\ worker.row.at = logs[worker.log].at
      BY <2>2 DEF MarkDownloaded, IInv, WorkerPart
    <3>3. logs' = [logs EXCEPT ![worker.log] = [worker.row EXCEPT !.downloaded = TRUE]]
      BY <2>2 DEF MarkDownloaded
    <3> QED BY <3>1, <3>2, <3>3
  <2>3. CASE MarkFailed /\ ~UNCHANGED logs
    <3> DEFINE l == [logs[worker.log] EXCEPT !.done = TRUE, !.success = FALSE]
    <3>1. l \in Log /\ l.el = logs[worker.log].el /\ l.at = logs[worker.log].at
          /\ l.downloaded = logs[worker.log].downloaded
      BY <1>2 DEF Log
    <3>2. logs' = [logs EXCEPT ![worker.log].done = TRUE, ![worker.log].success = FALSE]
      BY <2>3 DEF MarkFailed
    <3>3. logs' = [logs EXCEPT ![worker.log] = l]
      BY <1>1, <1>2, <3>2
    <3> HIDE DEF l
    <3> QED BY <3>1, <3>3
  <2> QED BY <2>1, <2>2, <2>3
<1>4. /\ logs' \in Seq(Log) /\ DOMAIN logs' = DOMAIN logs
      /\ \A i \in DOMAIN logs : logs'[i] = IF i = worker.log THEN l ELSE logs[i]
  BY <1>1, <1>2, <1>3
<1>5. LogsStay
  BY <1>1, <1>3, <1>4 DEF LogsStay
<1>6. LogPart'
  BY <1>1, <1>4 DEF IInv, LogPart, Log
<1>7. WorkerPart'
  BY <1>1, WorkerRests
<1>8. DownloadIsReal'
  <2> SUFFICES ASSUME NEW i \in DOMAIN logs, logs'[i].downloaded
               PROVE  \E k \in SendsOf(i) : \/ sent[k].to = logs[i].el
                                            \/ sent[k].to = Nobody /\ logs[i].el \in deleted
    BY <1>1, <1>4, <1>5 DEF DownloadIsReal, SendsOf, LogsStay
  <2>1. CASE logs[i].downloaded
    BY <2>1 DEF IInv, DownloadIsReal
  <2>2. CASE i = worker.log /\ worker.pc = "mark"
    <3>1. PICK k \in DOMAIN sent : sent[k] = [log |-> worker.log, to |-> worker.to]
      BY <2>2 DEF IInv, WorkerPart
    <3>2. k \in SendsOf(i) /\ sent[k].to = worker.to
      BY <2>2, <3>1 DEF SendsOf
    <3>3. worker.to = logs[i].el \/ (worker.to = Nobody /\ logs[i].el \in deleted)
      BY <2>2 DEF IInv, WorkerPart
    <3> QED BY <3>2, <3>3
  <2> QED BY <1>3, <1>4, <2>1, <2>2
<1> QED BY <1>1, <1>5, <1>6, <1>7, <1>8

LEMMA WorkerInv ==
  ASSUME IInv, WorkerStep
  PROVE  IInv' /\ LogsStay
<1>1. RestPart' /\ UNCHANGED <<req, deleted, elementIds>>
  BY WorkerRest
<1>2. LogsStay /\ LogPart' /\ WorkerPart' /\ DownloadIsReal'
  <2>1. CASE MarkDownloaded \/ MarkFailed
    BY <2>1, MarkParts
  <2>2. CASE Pop \/ Find \/ FindFile \/ SendDownload
    <3>1. UNCHANGED logs /\ SentStays /\ LogPart' /\ WorkerPart'
      <4>1. CASE Pop
        BY <4>1, PopParts DEF SentStays
      <4>2. CASE Find
        BY <1>1, <4>2, FindParts DEF SentStays, IInv, LogPart, Log
      <4>3. CASE SendDownload
        BY <4>3, SendParts
      <4>4. CASE FindFile
        <5>1. UNCHANGED <<elementIds, logs, sent, queue, deleted>> /\ worker.pc = "file"
          BY <4>4 DEF FindFile, WorkerFrame, envVars, taskVars
        <5>2. worker' = [worker EXCEPT !.pc = "send"] \/ worker' = [worker EXCEPT !.pc = "fail"]
          BY <4>4 DEF FindFile
        <5>3. WorkerPart'
          BY <5>1, <5>2, WorkerGoes
        <5> QED BY <5>1, <5>3 DEF SentStays, IInv, LogPart, Log
      <4> QED BY <2>2, <4>1, <4>2, <4>3, <4>4
    <3>2. LogsStay
      BY <1>1, <3>1 DEF LogsStay
    <3>3. DownloadIsReal'
      BY <1>1, <3>1, <3>2, RealKept
    <3> QED BY <3>1, <3>2, <3>3
  <2> QED BY <2>1, <2>2 DEF WorkerStep
<1>3. ReqPart'
  BY <1>1, <1>2, ReqKept DEF IInv
<1> QED BY <1>1, <1>2, <1>3 DEF IInv

LEMMA NextInv == IInv /\ [Next]_vars => IInv' /\ LogsStay
<1> SUFFICES ASSUME IInv, [Next]_vars PROVE IInv' /\ LogsStay
  OBVIOUS
<1>1. CASE UNCHANGED vars
  <2>1. UNCHANGED <<elementIds, logs, sent, worker, deleted, queue, req>>
    BY <1>1 DEF vars, workVars, envVars, taskVars
  <2>2. LogsStay /\ LogPart' /\ WorkerPart' /\ DownloadIsReal'
    BY <2>1, TablesKept DEF IInv, LogPart
  <2>3. ReqPart'
    BY <2>1, <2>2, ReqKept DEF IInv
  <2>4. RestPart'
    BY <1>1 DEF vars, taskVars, lockVars, envVars, IInv, RestPart
  <2> QED BY <2>2, <2>3, <2>4 DEF IInv
<1> QED BY <1>1, BeginInv, WorkInv, OtherInv, WorkerInv, CrashInv DEF Next

-----------------------------------------------------------------------------
(* Faults are counted, never forgotten *)

LEMMA FaultsCounted ==
  ASSUME [Next]_vars
  PROVE  UNCHANGED faults \/ \E f \in Fault : Fail(f)
<1>1. CASE \E r \in Request : Begin(r) \/ Work(r)
  BY <1>1 DEF Begin, CreateTask, ReadToStart, ReadToCancel, ReadToDrop, AddTask, Work,
     SaveNewStatus, LockStart, SaveStarted, PushMessage, EndDispatch, CreateLog,
     RefuseInUpgrade, SkipBlacklisted,
     LockCancel, SaveCancelled, SaveDropped, Fault
<1>2. CASE WorkerStep
  BY <1>2 DEF WorkerStep, Pop, Find, FindFile, SendDownload, MarkDownloaded, MarkFailed, Fault
<1>3. CASE DeleteTask \/ StartLockExpires \/ CancelLockExpires \/ DeleteUpgradeFile \/ Crash
           \/ \E e \in Element : DeleteDevice(e)
  BY <1>3 DEF DeleteTask, StartLockExpires, CancelLockExpires, DeleteUpgradeFile, DeleteDevice,
     Crash, Fault
<1> QED BY <1>1, <1>2, <1>3 DEF Next, vars

LEMMA FaultsGrow ==
  ASSUME IInv, [Next]_vars
  PROVE  \A f \in Fault : /\ faults[f] \in Nat /\ faults'[f] \in Nat
                          /\ faults'[f] >= faults[f]
                          /\ Fail(f) => faults'[f] > 0
<1>1. faults \in [Fault -> Nat]
  BY DEF IInv, RestPart
<1>2. CASE UNCHANGED faults
  <2>1. \A f \in Fault : ~Fail(f)
    BY <1>1, <1>2, FailTyped DEF IInv
  <2> QED BY <1>1, <1>2, <2>1
<1>3. ASSUME NEW f \in Fault, Fail(f)
      PROVE  \A g \in Fault : /\ faults[g] \in Nat /\ faults'[g] \in Nat
                              /\ faults'[g] >= faults[g]
                              /\ Fail(g) => faults'[g] > 0
  <2>1. \A g \in Fault : Fail(g) => faults'[g] = faults[g] + 1
    BY FailTyped DEF IInv
  <2>2. faults' \in [Fault -> Nat] /\ \A g \in Fault : faults'[g] = faults[g] \/ g = f
    BY <1>3, FailTyped DEF IInv
  <2>3. faults'[f] = faults[f] + 1
    BY <1>3, <2>1
  <2> QED BY <1>1, <2>1, <2>2, <2>3
<1> QED BY <1>2, <1>3, FaultsCounted

-----------------------------------------------------------------------------
(* One request starts the task *)

\* Those that are at it are no more than the lock, if it is there, and the locks that
\* expired under their holders admit.
Exclusive ==
  /\ \A r \in Request : req[r].pc \in {"lock", "save"} => req[r].start
  /\ Cardinality(Starting) <= (IF startLock THEN 1 ELSE 0) + faults["lockTTL"]

LEMMA StartingFinite ==
  IsFiniteSet(Starting) /\ Cardinality(Starting) \in Nat
<1>1. Starting \subseteq Request
  BY DEF Starting
<1> QED BY <1>1, TasksAssumption, FS_Subset, FS_CardinalityType

LEMMA StartingShrinks ==
  ASSUME IInv, [Next]_vars, Exclusive, UNCHANGED startLock, Starting' \subseteq Starting,
         \A r \in Request : req'[r].pc \in {"lock", "save"} => req'[r].start
  PROVE  Exclusive'
<1>1. Cardinality(Starting') <= Cardinality(Starting) /\ Cardinality(Starting') \in Nat
  BY StartingFinite, FS_Subset, FS_CardinalityType
<1>2. faults'["lockTTL"] >= faults["lockTTL"] /\ faults'["lockTTL"] \in Nat /\ faults["lockTTL"] \in Nat
  BY FaultsGrow DEF Fault
<1>3. Cardinality(Starting)' = Cardinality(Starting')
  OBVIOUS
<1> QED BY <1>1, <1>2, <1>3, StartingFinite DEF Exclusive

\* What becomes of the others when request r goes on as n.
LEMMA OthersWait ==
  ASSUME ReqPart, NEW r \in Request, NEW n, Become(r, n)
  PROVE  \A q \in Request : req'[q] = IF q = r THEN n ELSE req[q]
BY DEF Become, ReqPart

\* A request goes on that does not enter.
LEMMA NobodyEnters ==
  ASSUME IInv, [Next]_vars, Exclusive, UNCHANGED startLock,
         NEW r \in Request, NEW n, Become(r, n),
         n.pc \in {"lock", "save"} => n.start,
         n.start /\ n.pc # "lock" => r \in Starting
  PROVE  Exclusive'
<1>1. \A q \in Request : req'[q] = IF q = r THEN n ELSE req[q]
  BY OthersWait DEF IInv
<1>2. Starting' \subseteq Starting
  BY <1>1 DEF Starting
<1>3. \A q \in Request : req'[q].pc \in {"lock", "save"} => req'[q].start
  BY <1>1 DEF Exclusive
<1> QED BY <1>2, <1>3, StartingShrinks

\* States in which a request has not the lock.
LEMMA NotStarting ==
  \A n \in {Busy("mode", FALSE), Busy("lock", TRUE), Busy("lockCancel", FALSE),
            Busy("saveCancel", FALSE), Busy("saveDropped", FALSE), Busy("dispatch", FALSE), Idle} :
    /\ n.pc \in {"lock", "save"} => n.start
    /\ n.start => n.pc = "lock"
BY DEF Busy, Idle

\* What stays of a request that dispatches.
LEMMA StartKept ==
  ASSUME ReqPart, NEW r \in Request
  PROVE  /\ [req[r] EXCEPT !.pc = "dispatch", !.log = 0].start = req[r].start
         /\ [req[r] EXCEPT !.pc = "dispatch", !.log = 0].pc = "dispatch"
         /\ [req[r] EXCEPT !.pc = "save"].start = req[r].start
         /\ [req[r] EXCEPT !.pc = "save"].pc = "save"
<1>1. req[r] \in ReqState
  BY DEF ReqPart
<1> QED BY <1>1 DEF ReqState

\* The lock was free: one more is at it, and the lock is there.
LEMMA LockStartExclusive ==
  ASSUME IInv, [Next]_vars, Exclusive, NEW r \in Request, LockStart(r)
  PROVE  Exclusive'
<1>1. startLock \in BOOLEAN /\ startLock' = TRUE /\ req[r].pc = "lock"
  BY DEF IInv, RestPart, LockStart
<1>2. CASE startLock
  <2>1. UNCHANGED startLock /\ Become(r, Idle)
    BY <1>1, <1>2 DEF LockStart
  <2> QED BY <2>1, NobodyEnters, NotStarting
<1>3. CASE ~startLock
  <2> DEFINE n == [req[r] EXCEPT !.pc = "save"]
  <2>1. Become(r, n)
    BY <1>3 DEF LockStart
  <2>2. n.start = req[r].start /\ n.pc = "save"
    BY StartKept DEF IInv
  <2> HIDE DEF n
  <2>3. \A q \in Request : req'[q] = IF q = r THEN n ELSE req[q]
    BY <2>1, OthersWait DEF IInv
  <2>4. Starting' \subseteq Starting \cup {r}
    BY <2>3 DEF Starting
  <2>5. \A q \in Request : req'[q].pc \in {"lock", "save"} => req'[q].start
    BY <1>1, <2>2, <2>3 DEF Exclusive
  <2>6. /\ IsFiniteSet(Starting \cup {r})
        /\ Cardinality(Starting \cup {r}) <= Cardinality(Starting) + 1
        /\ Cardinality(Starting \cup {r}) \in Nat
    <3> DEFINE S == Starting
    <3>1. IsFiniteSet(S) /\ Cardinality(S) \in Nat
      BY StartingFinite
    <3> HIDE DEF S
    <3>2. /\ IsFiniteSet(S \cup {r})
          /\ Cardinality(S \cup {r}) = IF r \in S THEN Cardinality(S) ELSE Cardinality(S) + 1
      BY <3>1, FS_AddElement
    <3>3. Cardinality(S \cup {r}) <= Cardinality(S) + 1 /\ Cardinality(S \cup {r}) \in Nat
      BY <3>1, <3>2
    <3> QED BY <3>2, <3>3 DEF S
  <2>7. Cardinality(Starting') <= Cardinality(Starting) + 1 /\ Cardinality(Starting') \in Nat
    BY <2>4, <2>6, StartingFinite, FS_Subset, FS_CardinalityType
  <2>8. faults' = faults /\ faults["lockTTL"] \in Nat
    BY FaultsGrow DEF LockStart, Fault
  <2>9. Cardinality(Starting) <= 0 + faults["lockTTL"]
    BY <1>3 DEF Exclusive
  <2>10. Cardinality(Starting)' = Cardinality(Starting')
    OBVIOUS
  <2>11. Cardinality(Starting)' <= 1 + faults'["lockTTL"]
    BY <2>7, <2>8, <2>9, <2>10, StartingFinite
  <2> QED BY <1>1, <2>5, <2>11 DEF Exclusive
<1> QED BY <1>1, <1>2, <1>3

\* One that ends takes the lock with it, whoever has it by now.
LEMMA EndDispatchExclusive ==
  ASSUME IInv, [Next]_vars, Exclusive, NEW r \in Request, EndDispatch(r)
  PROVE  Exclusive'
<1>1. startLock \in BOOLEAN /\ req[r].start \in BOOLEAN
      /\ startLock' = (startLock /\ ~req[r].start)
      /\ req[r].pc = "dispatch" /\ Become(r, Idle) /\ faults' = faults
  <2>1. req[r] \in ReqState
    BY DEF IInv, ReqPart
  <2>2. req[r].start \in BOOLEAN
    BY <2>1 DEF ReqState
  <2> QED BY <2>2 DEF IInv, RestPart, EndDispatch
<1>2. CASE ~req[r].start
  <2>1. UNCHANGED startLock
    BY <1>1, <1>2, Zenon
  <2> QED BY <1>1, <2>1, NobodyEnters, NotStarting
<1>3. CASE req[r].start
  <2>1. ~startLock'
    BY <1>1, <1>3
  <2>2. \A q \in Request : req'[q] = IF q = r THEN Idle ELSE req[q]
    BY <1>1, OthersWait DEF IInv
  <2>3. r \in Starting
    BY <1>1, <1>3 DEF Starting
  <2>4. Starting' \subseteq Starting \ {r}
    BY <2>2, IdleState DEF Starting
  <2>5. \A q \in Request : req'[q].pc \in {"lock", "save"} => req'[q].start
    BY <2>2, IdleState DEF Exclusive
  <2>6. IsFiniteSet(Starting \ {r}) /\ Cardinality(Starting \ {r}) = Cardinality(Starting) - 1
    BY <2>3, StartingFinite, FS_RemoveElement
  <2>7. Cardinality(Starting') <= Cardinality(Starting) - 1 /\ Cardinality(Starting') \in Nat
    BY <2>4, <2>6, FS_Subset, FS_CardinalityType
  <2>8. faults["lockTTL"] \in Nat
    BY FaultsGrow DEF Fault
  <2>9. Cardinality(Starting) <= 1 + faults["lockTTL"]
    BY <2>8, StartingFinite DEF Exclusive
  <2>10. Cardinality(Starting)' = Cardinality(Starting')
    OBVIOUS
  <2>11. Cardinality(Starting)' <= 0 + faults'["lockTTL"]
    BY <1>1, <2>7, <2>8, <2>9, <2>10, StartingFinite
  <2> QED BY <2>1, <2>5, <2>11 DEF Exclusive
<1> QED BY <1>1, <1>2, <1>3

\* The lock goes while it is held, which is counted, or when nobody is at it.
LEMMA ExpiryExclusive ==
  ASSUME IInv, [Next]_vars, Exclusive, StartLockExpires
  PROVE  Exclusive'
<1>1. ~startLock' /\ startLock /\ req' = req
  BY DEF StartLockExpires
<1>2. Starting' = Starting
  BY <1>1 DEF Starting
<1>3. faults["lockTTL"] \in Nat /\ faults'["lockTTL"] \in Nat /\ faults'["lockTTL"] >= faults["lockTTL"]
  BY FaultsGrow DEF Fault
<1>4. Cardinality(Starting) <= 1 + faults["lockTTL"]
  BY <1>1 DEF Exclusive
<1>5. Cardinality(Starting') <= 0 + faults'["lockTTL"]
  <2>1. CASE Fail("lockTTL")
    <3>1. faults'["lockTTL"] = faults["lockTTL"] + 1
      BY <2>1, FailTyped DEF Fault, IInv
    <3> QED BY <1>2, <1>3, <1>4, <3>1, StartingFinite
  <2>2. CASE ~Fail("lockTTL")
    <3>1. ~\E r \in Request : req[r].start /\ req[r].pc # "lock"
      BY <2>2 DEF StartLockExpires
    <3>2. Starting = {}
      BY <3>1 DEF Starting
    <3> QED BY <1>2, <1>3, <3>2, FS_EmptySet
  <2> QED BY <2>1, <2>2
<1>6. \A q \in Request : req'[q].pc \in {"lock", "save"} => req'[q].start
  BY <1>1 DEF Exclusive
<1> QED BY <1>1, <1>5, <1>6 DEF Exclusive

LEMMA ExclusiveNext == IInv /\ Exclusive /\ [Next]_vars => Exclusive'
<1> SUFFICES ASSUME IInv, Exclusive, [Next]_vars PROVE Exclusive'
  OBVIOUS
<1>1. ASSUME NEW r \in Request, Begin(r) PROVE Exclusive'
  <2>1. UNCHANGED startLock
    BY <1>1 DEF Begin, CreateTask, ReadToStart, ReadToCancel, ReadToDrop, AddTask, lockVars
  <2>2. PICK n \in {Busy("mode", FALSE), Busy("lock", TRUE), Busy("lockCancel", FALSE),
                    Busy("saveDropped", FALSE), Busy("dispatch", FALSE), Idle} : Become(r, n)
    BY <1>1 DEF Begin, CreateTask, ReadToStart, ReadToCancel, ReadToDrop, AddTask
  <2>3. (n.pc \in {"lock", "save"} => n.start) /\ (n.start => n.pc = "lock")
    BY NotStarting
  <2> QED BY <2>1, <2>2, <2>3, NobodyEnters
<1>2. ASSUME NEW r \in Request, Work(r) PROVE Exclusive'
  <2>1. CASE LockStart(r)
    BY <2>1, LockStartExclusive
  <2>2. CASE EndDispatch(r)
    BY <2>2, EndDispatchExclusive
  <2>3. CASE \/ LockCancel(r) \/ SaveCancelled(r) \/ SaveDropped(r)
             \/ \E now \in BOOLEAN : SaveNewStatus(r, now)
    <3>1. UNCHANGED startLock
      BY <2>3 DEF LockCancel, SaveCancelled, SaveDropped, SaveNewStatus, lockVars
    <3>2. PICK n \in {Busy("saveCancel", FALSE), Busy("dispatch", FALSE), Idle} : Become(r, n)
      BY <2>3 DEF LockCancel, SaveCancelled, SaveDropped, SaveNewStatus
    <3>3. (n.pc \in {"lock", "save"} => n.start) /\ (n.start => n.pc = "lock")
      BY NotStarting
    <3> QED BY <3>1, <3>2, <3>3, NobodyEnters
  <2>4. CASE SaveStarted(r)
    <3>1. UNCHANGED startLock /\ req[r].pc = "save" /\ Become(r, Busy("dispatch", TRUE))
      BY <2>4 DEF SaveStarted, lockVars
    <3>2. r \in Starting
      BY <3>1 DEF Exclusive, Starting
    <3>3. Busy("dispatch", TRUE).pc = "dispatch"
      BY DEF Busy
    <3> QED BY <3>1, <3>2, <3>3, NobodyEnters
  <2>5. CASE PushMessage(r) \/ MakesRow(r) \/ SkipBlacklisted(r)
    <3>1. UNCHANGED startLock /\ req[r].pc \in {"dispatch", "push"}
      BY <2>5 DEF PushMessage, MakesRow, CreateLog, RefuseInUpgrade, SkipBlacklisted, Dispatches,
         lockVars
    <3>2. \E n : Become(r, n) /\ n.start = req[r].start /\ n.pc \in {"dispatch", "push"}
      <4>1. CASE PushMessage(r)
        <5>1. Become(r, [req[r] EXCEPT !.pc = "dispatch", !.log = 0])
          BY <4>1 DEF PushMessage
        <5> QED BY <5>1, StartKept DEF IInv
      <4>2. CASE SkipBlacklisted(r)
        <5>1. Dispatches(r) /\ Become(r, NextEntry(r))
          BY <4>2 DEF SkipBlacklisted, NextEntry
        <5> QED BY <5>1, EntryType
      <4>3. CASE MakesRow(r)
        BY <4>3, RowMade, EntryType
      <4> QED BY <2>5, <4>1, <4>2, <4>3
    <3>3. PICK n : Become(r, n) /\ n.start = req[r].start /\ n.pc \in {"dispatch", "push"}
      BY <3>2
    <3>4. n.start => r \in Starting
      BY <3>1, <3>3 DEF Starting
    <3> QED BY <3>1, <3>3, <3>4, NobodyEnters
  <2> QED BY <1>2, <2>1, <2>2, <2>3, <2>4, <2>5 DEF Work, MakesRow
<1>3. CASE StartLockExpires
  BY <1>3, ExpiryExclusive
<1>4. CASE Crash
  <2>1. \A q \in Request : req'[q] = Idle
    BY <1>4 DEF Crash
  <2>2. Starting' \subseteq Starting /\ UNCHANGED startLock
    BY <1>4, <2>1, IdleState DEF Starting, Crash, lockVars
  <2> QED BY <2>1, <2>2, IdleState, StartingShrinks
<1>5. CASE \/ DeleteTask \/ CancelLockExpires \/ DeleteUpgradeFile \/ WorkerStep
           \/ UNCHANGED vars \/ \E e \in Element : DeleteDevice(e)
  <2>1. UNCHANGED <<req, startLock>>
    <3>1. CASE WorkerStep
      BY <3>1, WorkerRest
    <3>2. CASE ~WorkerStep
      BY <1>5, <3>2 DEF DeleteTask, CancelLockExpires, DeleteUpgradeFile, DeleteDevice, lockVars, vars
    <3> QED BY <3>1, <3>2
  <2>2. Starting' \subseteq Starting
    BY <2>1 DEF Starting
  <2> QED BY <2>1, <2>2, StartingShrinks DEF Exclusive
<1> QED BY <1>1, <1>2, <1>3, <1>4, <1>5 DEF Next

LEMMA ExclusiveInit == Init => Exclusive
<1> SUFFICES ASSUME Init PROVE Exclusive
  OBVIOUS
<1>1. \A r \in Request : req[r] = Idle
  BY DEF Init
<1>2. Starting = {}
  BY <1>1, IdleState DEF Starting
<1>3. faults["lockTTL"] = 0
  BY DEF Init, Fault
<1> QED BY <1>1, <1>2, <1>3, IdleState, FS_EmptySet DEF Exclusive, Init

-----------------------------------------------------------------------------
(* A message is in one place *)

\* The row of a message that is still on its way.
Fresh(i) == ~logs[i].done /\ SendsOf(i) = {}

InHand(i) == worker.pc # "rest" /\ worker.log = i

Pushing == {r \in Request : req[r].pc = "push"}

PushedOnce ==
  \A r \in Pushing :
    /\ Fresh(req[r].log) /\ ~InHand(req[r].log)
    /\ \A q \in Pushing : req[q].log = req[r].log => q = r
    /\ \A k \in DOMAIN queue : queue[k] # req[r].log

QueuedOnce ==
  \A j \in DOMAIN queue :
    /\ Fresh(queue[j]) /\ ~InHand(queue[j])
    /\ \A k \in DOMAIN queue : queue[k] = queue[j] => k = j

\* The worker fails before it has sent; after that it has the row as it was before.
TakenOnce ==
  /\ worker.pc \in {"find", "file", "send"} => Fresh(worker.log)
  /\ worker.pc \in {"file", "send", "mark"} => ~worker.row.done
  /\ worker.pc = "fail" => SendsOf(worker.log) = {}

FailedUnsent == \A i \in DOMAIN logs : logs[i].done => SendsOf(i) = {}

OneToken == PushedOnce /\ QueuedOnce /\ TakenOnce /\ FailedUnsent

Quiet == faults["push"] = 0 /\ faults["resend"] = 0

\* Nothing happens to the rows; the requests that push are some of those before, and
\* the worker goes on or rests.
LEMMA TokensKept ==
  ASSUME OneToken, UNCHANGED <<logs, sent, queue>>,
         UNCHANGED worker \/ worker'.pc = "rest",
         \A q \in Request : req'[q].pc = "push" => req'[q] = req[q]
  PROVE  OneToken'
<1>1. \A i : Fresh(i)' <=> Fresh(i)
  BY DEF Fresh, SendsOf
<1>2. \A i : (SendsOf(i) = {})' <=> SendsOf(i) = {}
  BY DEF SendsOf
<1>3. \A i : InHand(i)' => InHand(i)
  BY DEF InHand
<1>4. \A q \in Pushing' : q \in Pushing /\ req'[q].log = req[q].log
  BY DEF Pushing
<1>5. PushedOnce'
  BY <1>1, <1>3, <1>4 DEF PushedOnce, OneToken
<1>6. QueuedOnce'
  BY <1>1, <1>3 DEF QueuedOnce, OneToken
<1>7. TakenOnce'
  BY <1>1, <1>2 DEF TakenOnce, OneToken
<1>8. FailedUnsent'
  BY <1>2 DEF FailedUnsent, OneToken
<1> QED BY <1>5, <1>6, <1>7, <1>8 DEF OneToken

\* A new row is nowhere else yet.
LEMMA TokenMade ==
  ASSUME IInv, OneToken, NEW r \in Request, NEW row, logs' = Append(logs, row),
         UNCHANGED <<sent, queue, worker>>, NEW n, Become(r, n),
         n.pc = "push" => n.log = Len(logs) + 1 /\ ~row.done
  PROVE  OneToken'
<1>0. PICK i : i = Len(logs) + 1
  OBVIOUS
<1>1. logs \in Seq(Log) /\ i \notin DOMAIN logs /\ DOMAIN logs' = DOMAIN logs \cup {i}
  BY <1>0 DEF IInv, LogPart
<1>2. logs'[i] = row /\ \A j \in DOMAIN logs : logs'[j] = logs[j]
  BY <1>0, <1>1
<1>3. \A q \in Request : req'[q] = IF q = r THEN n ELSE req[q]
  BY OthersWait DEF IInv
<1>4. SendsOf(i) = {}
  <2>1. sent \in Seq([log : DOMAIN logs, to : Element \cup {Nobody}])
    BY DEF IInv, LogPart
  <2>2. \A k \in DOMAIN sent : sent[k] \in [log : DOMAIN logs, to : Element \cup {Nobody}]
    BY <2>1, SeqElements
  <2> QED BY <1>1, <2>2 DEF SendsOf
<1>5. \A j : (SendsOf(j) = {})' <=> SendsOf(j) = {}
  BY DEF SendsOf
<1>6. n.pc = "push" => Fresh(i)'
  BY <1>2, <1>4, <1>5 DEF Fresh
<1>7. \A j \in DOMAIN logs : Fresh(j)' <=> Fresh(j)
  BY <1>2, <1>5 DEF Fresh
<1>8. queue \in Seq(DOMAIN logs) /\ \A k \in DOMAIN queue : queue[k] \in DOMAIN logs
  BY DEF IInv, LogPart
<1>9. \A j : InHand(j)' <=> InHand(j)
  BY DEF InHand
<1>10. ~InHand(i)
  BY <1>1 DEF InHand, IInv, WorkerPart
<1>11. \A q \in Pushing' : (req'[q].log = i /\ q = r /\ n.pc = "push")
                           \/ (q \in Pushing /\ q # r /\ req'[q].log = req[q].log
                               /\ req[q].log \in DOMAIN logs)
  BY <1>0, <1>3 DEF Pushing, IInv, ReqPart
<1>12. PushedOnce'
  <2> SUFFICES ASSUME NEW q \in Pushing'
               PROVE  /\ Fresh(req[q].log)' /\ ~InHand(req[q].log)'
                      /\ \A p \in Pushing' : req'[p].log = req'[q].log => p = q
                      /\ \A k \in DOMAIN queue' : queue'[k] # req'[q].log
    BY DEF PushedOnce
  <2>1. CASE req'[q].log = i /\ q = r /\ n.pc = "push"
    BY <1>1, <1>6, <1>8, <1>9, <1>10, <1>11, <2>1
  <2>2. CASE /\ q \in Pushing /\ q # r /\ req'[q].log = req[q].log
             /\ req[q].log \in DOMAIN logs
    <3>1. Fresh(req[q].log) /\ ~InHand(req[q].log)
      BY <2>2 DEF OneToken, PushedOnce
    <3>2. \A p \in Pushing' : req'[p].log = req'[q].log => p = q
      BY <1>1, <1>11, <2>2 DEF OneToken, PushedOnce
    <3>3. \A k \in DOMAIN queue' : queue'[k] # req'[q].log
      BY <2>2 DEF OneToken, PushedOnce
    <3> QED BY <1>7, <1>9, <2>2, <3>1, <3>2, <3>3
  <2> QED BY <1>11, <2>1, <2>2
<1>13. QueuedOnce'
  BY <1>7, <1>8, <1>9 DEF OneToken, QueuedOnce
<1>14. TakenOnce'
  <2>1. worker.pc # "rest" => worker.log \in DOMAIN logs
    BY DEF IInv, WorkerPart
  <2> QED BY <1>5, <1>7, <2>1 DEF OneToken, TakenOnce
<1>15. FailedUnsent'
  BY <1>1, <1>2, <1>4, <1>5 DEF OneToken, FailedUnsent
<1> QED BY <1>12, <1>13, <1>14, <1>15 DEF OneToken

\* From the request to the queue.
LEMMA TokenPushed ==
  ASSUME IInv, OneToken, NEW r \in Request, req[r].pc = "push",
         queue' = Append(queue, req[r].log), UNCHANGED <<logs, sent, worker>>,
         NEW n, Become(r, n), n.pc # "push"
  PROVE  OneToken'
<1>1. queue \in Seq(DOMAIN logs)
  BY DEF IInv, LogPart
<1>2. DOMAIN queue' = DOMAIN queue \cup {Len(queue) + 1} /\ Len(queue) + 1 \notin DOMAIN queue
      /\ queue'[Len(queue) + 1] = req[r].log
      /\ \A k \in DOMAIN queue : queue'[k] = queue[k]
  BY <1>1
<1>3. \A q \in Request : req'[q] = IF q = r THEN n ELSE req[q]
  BY OthersWait DEF IInv
<1>4. \A i : /\ Fresh(i)' <=> Fresh(i)
             /\ InHand(i)' <=> InHand(i)
             /\ (SendsOf(i) = {})' <=> SendsOf(i) = {}
  BY DEF Fresh, SendsOf, InHand
<1>5. r \in Pushing /\ \A q \in Pushing' : q \in Pushing /\ q # r /\ req'[q].log = req[q].log
  BY <1>3 DEF Pushing
<1>6. PushedOnce'
  BY <1>2, <1>4, <1>5 DEF OneToken, PushedOnce
<1>7. QueuedOnce'
  BY <1>2, <1>4, <1>5 DEF OneToken, PushedOnce, QueuedOnce
<1>8. TakenOnce' /\ FailedUnsent'
  BY <1>4 DEF OneToken, TakenOnce, FailedUnsent
<1> QED BY <1>6, <1>7, <1>8 DEF OneToken

\* From the queue to the worker, or to nowhere.
LEMMA TokenTaken ==
  ASSUME IInv, OneToken, Pop
  PROVE  OneToken'
<1>1. queue \in Seq(DOMAIN logs) /\ queue # <<>> /\ queue' = Tail(queue)
      /\ UNCHANGED <<logs, sent, req>> /\ worker.pc = "rest"
  BY RestFields DEF Pop, IInv, LogPart, WorkerFrame
<1>2. 1 \in DOMAIN queue /\ Head(queue) = queue[1]
      /\ \A k \in DOMAIN queue' : k + 1 \in DOMAIN queue /\ queue'[k] = queue[k + 1] /\ k \in Nat \ {0}
  BY <1>1
<1>3. worker'.pc = "rest" \/ (worker'.pc = "find" /\ worker'.log = queue[1])
  <2>1. Resting \in [pc : {"rest", "find", "file", "send", "mark", "fail"},
                     log : {0} \cup DOMAIN logs, row : Log, to : Element \cup {Nobody}]
    BY RestingState DEF IInv, RestPart
  <2>2. CASE UNCHANGED worker
    BY <1>1, <2>2
  <2>3. CASE worker' = [Resting EXCEPT !.pc = "find", !.log = Head(queue)]
    BY <1>2, <2>1, <2>3
  <2> QED BY <2>2, <2>3 DEF Pop
<1>4. \A i : /\ Fresh(i)' <=> Fresh(i)
             /\ InHand(i)' => i = queue[1]
             /\ (SendsOf(i) = {})' <=> SendsOf(i) = {}
  BY <1>1, <1>3 DEF Fresh, SendsOf, InHand
<1>5. PushedOnce'
  BY <1>1, <1>2, <1>4 DEF OneToken, PushedOnce, Pushing
<1>6. QueuedOnce'
  <2> SUFFICES ASSUME NEW j \in DOMAIN queue'
               PROVE  /\ Fresh(queue[j])' /\ ~InHand(queue[j])'
                      /\ \A k \in DOMAIN queue' : queue'[k] = queue'[j] => k = j
    BY DEF QueuedOnce
  <2>1. Fresh(queue[j + 1]) /\ queue'[j] = queue[j + 1] /\ j + 1 \in DOMAIN queue /\ j \in Nat \ {0}
    BY <1>2 DEF OneToken, QueuedOnce
  <2>2. queue[1] # queue[j + 1]
    BY <1>2, <2>1 DEF OneToken, QueuedOnce
  <2>3. \A k \in DOMAIN queue' : queue[k + 1] = queue[j + 1] => k + 1 = j + 1
    BY <1>2, <2>1 DEF OneToken, QueuedOnce
  <2> QED BY <1>2, <1>4, <2>1, <2>2, <2>3
<1>7. TakenOnce'
  BY <1>2, <1>3, <1>4 DEF OneToken, QueuedOnce, TakenOnce
<1>8. FailedUnsent'
  BY <1>1, <1>4 DEF OneToken, FailedUnsent
<1> QED BY <1>5, <1>6, <1>7, <1>8 DEF OneToken

\* The worker goes on with the row it has.
LEMMA TokenKeptInHand ==
  ASSUME IInv, OneToken, UNCHANGED <<logs, sent, queue, req>>,
         worker.pc \in {"find", "file", "send"}, worker'.log = worker.log,
         \/ worker'.pc = "fail"
         \/ worker'.pc = "file" /\ worker'.row = logs[worker.log]
         \/ worker'.pc = "send" /\ worker.pc = "file" /\ worker'.row = worker.row
  PROVE  OneToken'
<1>1. \A i : /\ Fresh(i)' <=> Fresh(i)
             /\ InHand(i)' <=> InHand(i)
             /\ (SendsOf(i) = {})' <=> SendsOf(i) = {}
  BY DEF Fresh, SendsOf, InHand
<1>2. Fresh(worker.log)
  BY DEF OneToken, TakenOnce
<1>3. PushedOnce' /\ QueuedOnce' /\ FailedUnsent'
  BY <1>1 DEF OneToken, PushedOnce, QueuedOnce, FailedUnsent, Pushing
<1>4. TakenOnce'
  BY <1>1, <1>2 DEF OneToken, TakenOnce, Fresh
<1> QED BY <1>3, <1>4 DEF OneToken

\* The Download is sent.
LEMMA TokenSent ==
  ASSUME IInv, OneToken, UNCHANGED <<logs, queue, req>>,
         sent' = Append(sent, [log |-> worker.log, to |-> worker.to]),
         worker.pc = "send", worker'.log = worker.log, worker'.pc = "mark",
         worker'.row = worker.row
  PROVE  OneToken'
<1> DEFINE m == [log |-> worker.log, to |-> worker.to]
<1>1. sent \in Seq([log : DOMAIN logs, to : Element \cup {Nobody}])
  BY DEF IInv, LogPart
<1>2. m.log = worker.log
  OBVIOUS
<1>3. sent' = Append(sent, m)
  OBVIOUS
<1> HIDE DEF m
<1>4. DOMAIN sent' = DOMAIN sent \cup {Len(sent) + 1} /\ sent'[Len(sent) + 1] = m
      /\ \A k \in DOMAIN sent : sent'[k] = sent[k]
  BY <1>1, <1>3
<1>5. \A i : i # worker.log => ((SendsOf(i) = {})' <=> SendsOf(i) = {})
  BY <1>2, <1>4 DEF SendsOf
<1>6. \A i : i # worker.log => (Fresh(i)' <=> Fresh(i))
  BY <1>5 DEF Fresh
<1>7. \A i : InHand(i)' <=> InHand(i)
  BY DEF InHand
<1>8. InHand(worker.log) /\ Fresh(worker.log)
  BY DEF InHand, OneToken, TakenOnce
<1>9. PushedOnce'
  BY <1>6, <1>7, <1>8 DEF OneToken, PushedOnce, Pushing
<1>10. QueuedOnce'
  BY <1>6, <1>7, <1>8 DEF OneToken, QueuedOnce
<1>11. TakenOnce'
  BY DEF OneToken, TakenOnce
<1>12. FailedUnsent'
  BY <1>5, <1>8 DEF OneToken, FailedUnsent, Fresh
<1> QED BY <1>9, <1>10, <1>11, <1>12 DEF OneToken

\* The row is written, and the worker is done with it.
LEMMA TokenSpent ==
  ASSUME IInv, OneToken, UNCHANGED <<sent, queue, req>>, worker' = Resting,
         worker.pc \in {"mark", "fail"},
         NEW l, logs' = [logs EXCEPT ![worker.log] = l],
         l.done => SendsOf(worker.log) = {}
  PROVE  OneToken'
<1>1. logs \in Seq(Log) /\ worker.log \in DOMAIN logs
  BY DEF IInv, LogPart, WorkerPart
<1>2. DOMAIN logs' = DOMAIN logs /\ \A i \in DOMAIN logs : logs'[i] = IF i = worker.log THEN l ELSE logs[i]
  BY <1>1
<1>3. \A i : (SendsOf(i) = {})' <=> SendsOf(i) = {}
  BY DEF SendsOf
<1>4. \A i \in DOMAIN logs : i # worker.log => (Fresh(i)' <=> Fresh(i))
  BY <1>2, <1>3 DEF Fresh
<1>5. \A i : ~InHand(i)'
  BY RestFields DEF InHand
<1>6. InHand(worker.log)
  BY DEF InHand
<1>7. PushedOnce'
  <2>1. \A q \in Pushing' : q \in Pushing /\ req'[q] = req[q] /\ req[q].log \in DOMAIN logs
    BY DEF Pushing, IInv, ReqPart
  <2> QED BY <1>4, <1>5, <1>6, <2>1 DEF OneToken, PushedOnce
<1>8. QueuedOnce'
  <2>1. \A k \in DOMAIN queue : queue[k] \in DOMAIN logs
    BY DEF IInv, LogPart
  <2> QED BY <1>4, <1>5, <1>6, <2>1 DEF OneToken, QueuedOnce
<1>9. TakenOnce'
  BY RestFields DEF TakenOnce
<1>10. FailedUnsent'
  BY <1>2, <1>3 DEF OneToken, FailedUnsent
<1> QED BY <1>7, <1>8, <1>9, <1>10 DEF OneToken

\* A step of a request other than making a row and pushing its message.
LEMMA RequestsQuiet ==
  ASSUME IInv, NEW r \in Request,
         Begin(r) \/ (Work(r) /\ ~PushMessage(r) /\ ~MakesRow(r))
  PROVE  /\ UNCHANGED <<logs, sent, queue, worker>>
         /\ \A q \in Request : req'[q].pc = "push" => req'[q] = req[q]
<1>1. UNCHANGED <<logs, sent, queue, worker>>
  BY RequestFrameParts DEF Begin, CreateTask, ReadToStart, ReadToCancel, ReadToDrop, AddTask, Work,
     SaveNewStatus, LockStart, SaveStarted, EndDispatch, SkipBlacklisted, LockCancel,
     SaveCancelled, SaveDropped, MakesRow
<1>2. PICK n \in ReqState : Become(r, n) /\ n.pc # "push"
  BY BeginGoes, WorkGoes
<1>3. \A q \in Request : req'[q] = IF q = r THEN n ELSE req[q]
  BY <1>2, OthersWait DEF IInv
<1> QED BY <1>1, <1>2, <1>3

\* When nothing is pushed twice or with an error, neither is it from this step on.
LEMMA QuietBefore ==
  ASSUME IInv, [Next]_vars, Quiet'
  PROVE  Quiet /\ ~Fail("push") /\ ~Fail("resend")
<1>1. /\ faults["push"] \in Nat /\ faults'["push"] >= faults["push"]
      /\ Fail("push") => faults'["push"] > 0
      /\ faults["resend"] \in Nat /\ faults'["resend"] >= faults["resend"]
      /\ Fail("resend") => faults'["resend"] > 0
  BY FaultsGrow DEF Fault
<1> QED BY <1>1 DEF Quiet

LEMMA TokenNext == IInv /\ (Quiet => OneToken) /\ [Next]_vars => (Quiet => OneToken)'
<1> SUFFICES ASSUME IInv, Quiet => OneToken, [Next]_vars, Quiet' PROVE OneToken'
  OBVIOUS
<1>1. OneToken /\ ~Fail("push") /\ ~Fail("resend")
  BY QuietBefore
<1>2. ASSUME NEW r \in Request, Begin(r) \/ Work(r) PROVE OneToken'
  <2>1. CASE PushMessage(r)
    <3>1. /\ req[r].pc = "push" /\ queue' = Append(queue, req[r].log) /\ UNCHANGED <<logs, sent, worker>>
          /\ Become(r, [req[r] EXCEPT !.pc = "dispatch", !.log = 0])
      BY <1>1, <2>1, RequestFrameParts DEF PushMessage
    <3> DEFINE n == [req[r] EXCEPT !.pc = "dispatch", !.log = 0]
    <3>2. Become(r, n) /\ n.pc # "push"
      BY <3>1, StartKept DEF IInv
    <3> HIDE DEF n
    <3> QED BY <1>1, <3>1, <3>2, TokenPushed
  <2>2. CASE MakesRow(r)
    <3>1. Dispatches(r) /\ UNCHANGED <<sent, queue, worker>> /\ req[r].next \in DOMAIN elementIds
          /\ elementIds \in Lists
      BY <2>2, RowMade, EntryType DEF IInv, RestPart
    <3>2. CASE UNCHANGED logs /\ Become(r, NextEntry(r))
      <4>1. NextEntry(r).pc # "push"
        BY <3>1, EntryType
      <4>2. \A q \in Request : req'[q].pc = "push" => req'[q] = req[q]
        BY <3>2, <4>1, OthersWait DEF IInv
      <4> QED BY <1>1, <3>1, <3>2, <4>2, TokensKept
    <3>3. CASE logs' = Append(logs, NewLog(req[r].next)) /\ Become(r, WithRow(r))
      <4>1. WithRow(r).log = Len(logs) + 1 /\ ~NewLog(req[r].next).done
        BY <3>1, EntryType, NewLogType
      <4> QED BY <1>1, <3>1, <3>3, <4>1, TokenMade
    <3>4. CASE /\ logs' = Append(logs, [NewLog(req[r].next) EXCEPT !.done = TRUE])
               /\ Become(r, NextEntry(r))
      <4>1. NextEntry(r).pc # "push"
        BY <3>1, EntryType
      <4> QED BY <1>1, <3>1, <3>4, <4>1, TokenMade
    <3> QED BY <2>2, <3>2, <3>3, <3>4, RowMade
  <2> QED BY <1>1, <1>2, <2>1, <2>2, RequestsQuiet, TokensKept
<1>3. CASE WorkerStep
  <2>1. UNCHANGED req
    BY <1>3, WorkerRest
  <2>2. worker \in [pc : {"rest", "find", "file", "send", "mark", "fail"},
                    log : {0} \cup DOMAIN logs, row : Log, to : Element \cup {Nobody}]
    BY DEF IInv, WorkerPart
  <2>3. CASE Pop
    BY <1>1, <2>3, TokenTaken
  <2>4. CASE Find
    <3>1. UNCHANGED <<logs, sent, queue>> /\ worker.pc = "find"
      BY <2>4 DEF Find
    <3>2. CASE worker' = Resting
      BY <1>1, <2>1, <3>1, <3>2, RestFields, TokensKept
    <3>3. CASE worker' = [worker EXCEPT !.pc = "fail"]
      <4>1. worker'.pc = "fail" /\ worker'.log = worker.log
        BY <2>2, <3>3
      <4> QED BY <1>1, <2>1, <3>1, <4>1, TokenKeptInHand
    <3>4. CASE worker' = [worker EXCEPT !.pc = "file", !.row = logs[worker.log],
                                        !.to = IF logs[worker.log].el \in deleted THEN Nobody
                                               ELSE logs[worker.log].el]
      <4>1. worker'.pc = "file" /\ worker'.log = worker.log /\ worker'.row = logs[worker.log]
        BY <2>2, <3>4
      <4> QED BY <1>1, <2>1, <3>1, <4>1, TokenKeptInHand
    <3> QED BY <2>4, <3>2, <3>3, <3>4 DEF Find
  <2>5. CASE FindFile
    <3>1. UNCHANGED <<logs, sent, queue>> /\ worker.pc = "file"
      BY <2>5 DEF FindFile
    <3>2. worker' = [worker EXCEPT !.pc = "send"] \/ worker' = [worker EXCEPT !.pc = "fail"]
      BY <2>5 DEF FindFile
    <3>3. /\ worker'.pc = "send" \/ worker'.pc = "fail"
          /\ worker'.log = worker.log /\ worker'.row = worker.row
      BY <2>2, <3>2
    <3> QED BY <1>1, <2>1, <3>1, <3>3, TokenKeptInHand
  <2>6. CASE SendDownload
    <3>1. UNCHANGED <<logs, queue>> /\ worker.pc = "send"
          /\ sent' = Append(sent, [log |-> worker.log, to |-> worker.to])
          /\ worker' = [worker EXCEPT !.pc = "mark"]
      BY <1>1, <2>6 DEF SendDownload
    <3>2. worker'.pc = "mark" /\ worker'.log = worker.log /\ worker'.row = worker.row
      BY <2>2, <3>1
    <3> QED BY <1>1, <2>1, <3>1, <3>2, TokenSent
  <2>7. CASE MarkDownloaded
    <3>1. UNCHANGED <<sent, queue>> /\ worker.pc = "mark" /\ worker' = Resting
      BY <2>7 DEF MarkDownloaded
    <3>2. CASE UNCHANGED logs
      BY <1>1, <2>1, <3>1, <3>2, RestFields, TokensKept
    <3>3. CASE logs' = [logs EXCEPT ![worker.log] = [worker.row EXCEPT !.downloaded = TRUE]]
      <4> DEFINE l == [worker.row EXCEPT !.downloaded = TRUE]
      <4>1. ~l.done
        <5>1. worker.row \in Log /\ ~worker.row.done
          BY <1>1, <2>2, <3>1 DEF OneToken, TakenOnce
        <5> QED BY <5>1 DEF Log
      <4>2. logs' = [logs EXCEPT ![worker.log] = l]
        BY <3>3
      <4> HIDE DEF l
      <4> QED BY <1>1, <2>1, <3>1, <4>1, <4>2, TokenSpent
    <3> QED BY <2>7, <3>2, <3>3 DEF MarkDownloaded
  <2>8. CASE MarkFailed
    <3>1. UNCHANGED <<sent, queue>> /\ worker.pc = "fail" /\ worker' = Resting
      BY <2>8 DEF MarkFailed
    <3>2. CASE UNCHANGED logs
      BY <1>1, <2>1, <3>1, <3>2, RestFields, TokensKept
    <3>3. CASE logs' = [logs EXCEPT ![worker.log].done = TRUE, ![worker.log].success = FALSE]
      <4> DEFINE l == [logs[worker.log] EXCEPT !.done = TRUE, !.success = FALSE]
      <4>1. logs \in Seq(Log) /\ worker.log \in DOMAIN logs
        BY <3>1 DEF IInv, LogPart, WorkerPart
      <4>2. logs' = [logs EXCEPT ![worker.log] = l]
        BY <3>3, <4>1
      <4>3. SendsOf(worker.log) = {}
        BY <1>1, <3>1 DEF OneToken, TakenOnce
      <4> HIDE DEF l
      <4> QED BY <1>1, <2>1, <3>1, <4>2, <4>3, TokenSpent
    <3> QED BY <2>8, <3>2, <3>3 DEF MarkFailed
  <2> QED BY <1>3, <2>3, <2>4, <2>5, <2>6, <2>7, <2>8 DEF WorkerStep
<1>4. CASE Crash
  <2>1. UNCHANGED <<logs, sent, queue>> /\ worker' = Resting /\ \A q \in Request : req'[q] = Idle
    BY <1>4 DEF Crash
  <2>2. worker'.pc = "rest" /\ \A q \in Request : req'[q].pc # "push"
    BY <2>1, RestFields, IdleState
  <2> QED BY <1>1, <2>1, <2>2, TokensKept
<1>5. CASE \/ DeleteTask \/ StartLockExpires \/ CancelLockExpires \/ DeleteUpgradeFile
           \/ UNCHANGED vars \/ \E e \in Element : DeleteDevice(e)
  <2>1. UNCHANGED <<logs, sent, queue, worker, req>>
    BY <1>5, RequestFrameParts DEF DeleteTask, StartLockExpires, CancelLockExpires,
       DeleteUpgradeFile, DeleteDevice, workVars, vars
  <2> QED BY <1>1, <2>1, TokensKept
<1> QED BY <1>2, <1>3, <1>4, <1>5 DEF Next

LEMMA TokenInit == Init => OneToken
<1> SUFFICES ASSUME Init PROVE OneToken
  OBVIOUS
<1>1. \A r \in Request : req[r].pc = "idle"
  BY IdleState DEF Init
<1>2. logs = <<>> /\ queue = <<>> /\ sent = <<>> /\ worker.pc = "rest"
  BY RestingState DEF Init
<1> QED BY <1>1, <1>2 DEF OneToken, PushedOnce, QueuedOnce, TakenOnce, FailedUnsent, Pushing

-----------------------------------------------------------------------------
(* A cancelled task *)

\* Nothing that could start the task is under way.
Over ==
  /\ status \in {"cancelled", "gone"}
  /\ \A r \in Request : req[r].pc \in {"idle", "saveDropped"}

LEMMA OverNext == IInv /\ Over /\ [Next]_vars => Over'
<1> SUFFICES ASSUME IInv, Over, [Next]_vars PROVE Over'
  OBVIOUS
<1>1. ASSUME NEW r \in Request, Begin(r) PROVE Over'
  <2>1. /\ Become(r, Busy("saveDropped", FALSE)) /\ status' = status
    BY <1>1 DEF Begin, CreateTask, ReadToStart, ReadToCancel, ReadToDrop, AddTask, Over
  <2>2. Busy("saveDropped", FALSE).pc = "saveDropped"
    BY DEF Busy
  <2> QED BY <2>1, <2>2, OthersWait DEF Over, IInv
<1>2. ASSUME NEW r \in Request, Work(r) PROVE Over'
  <2>1. SaveDropped(r)
    <3>1. req[r].pc \in {"idle", "saveDropped"}
      BY DEF Over
    <3> QED BY <1>2, <3>1 DEF Work, SaveNewStatus, LockStart, SaveStarted, PushMessage, EndDispatch,
       CreateLog, RefuseInUpgrade, SkipBlacklisted, LockCancel, SaveCancelled, Dispatches
  <2>2. Become(r, Idle) /\ status' \in {status, "cancelled"}
    BY <2>1 DEF SaveDropped
  <2> QED BY <2>2, OthersWait, IdleState DEF Over, IInv
<1>3. CASE WorkerStep
  BY <1>3, WorkerRest DEF Over
<1>4. CASE Crash
  BY <1>4, IdleState DEF Crash, taskVars, Over
<1>5. CASE \/ DeleteTask \/ StartLockExpires \/ CancelLockExpires \/ DeleteUpgradeFile
           \/ UNCHANGED vars \/ \E e \in Element : DeleteDevice(e)
  <2>1. UNCHANGED req /\ status' \in {status, "gone"}
    BY <1>5 DEF DeleteTask, StartLockExpires, CancelLockExpires, DeleteUpgradeFile, DeleteDevice,
       vars, taskVars
  <2> QED BY <2>1 DEF Over
<1> QED BY <1>1, <1>2, <1>3, <1>4, <1>5 DEF Next

-----------------------------------------------------------------------------
(* Rows for an entry of the list *)

DispatchPc == {"dispatch", "push"}

\* A request in state n may yet make a row for place p of the list; it is dispatching
\* and has not been there; it starts the task or dispatches.
Owes(n, p) ==
  \/ n.pc \in {"mode", "lock", "save"}
  \/ n.pc \in DispatchPc /\ n.next <= p

Serves(n, p) == n.pc \in DispatchPc /\ n.next <= p

IsActive(n) == n.start \/ n.pc \in {"mode", "dispatch", "push"}

Owing(p) == {r \in Request : Owes(req[r], p)}

Serving(p) == {r \in Request : Serves(req[r], p)}

Limit == (IF overlap THEN Cardinality(Request) ELSE 1) + faults["db"]

WithinLimit ==
  \A p \in DOMAIN elementIds : Cardinality(RowsAt(p)) + Cardinality(Owing(p)) <= Limit

\* While the task still waits, only a save that failed has let anybody dispatch.
PaidFor ==
  status = "waiting" =>
    /\ \A p \in DOMAIN elementIds :
         Cardinality(RowsAt(p)) + Cardinality(Serving(p)) <= faults["db"]
    /\ \A r \in Request : IsActive(req[r]) => req[r].start

\* The request that makes the task is alone with it.
FirstRequest ==
  /\ status = "none" => logs = <<>> /\ \A r \in Request : ~IsActive(req[r])
  /\ \A r \in Request : req[r].pc = "mode" =>
       /\ Worked /\ status = "new" /\ logs = <<>>
       /\ \A q \in Request : IsActive(req[q]) => q = r
  /\ \A r \in Request : req[r].pc = "saveDropped" => ~Worked

Round == WithinLimit /\ PaidFor /\ FirstRequest

LEMMA Fewer ==
  ASSUME NEW A, IsFiniteSet(A), NEW B, B \subseteq A
  PROVE  /\ IsFiniteSet(B) /\ Cardinality(B) \in Nat /\ Cardinality(A) \in Nat
         /\ Cardinality(B) <= Cardinality(A)
BY FS_Subset, FS_CardinalityType

LEMMA OneLess ==
  ASSUME NEW A, IsFiniteSet(A), NEW x \in A, NEW B, B \subseteq A \ {x}
  PROVE  /\ Cardinality(B) \in Nat /\ Cardinality(A) \in Nat
         /\ Cardinality(B) <= Cardinality(A) - 1
<1>1. IsFiniteSet(A \ {x}) /\ Cardinality(A \ {x}) = Cardinality(A) - 1
  BY FS_RemoveElement
<1> QED BY <1>1, Fewer, FS_CardinalityType

LEMMA OneMore ==
  ASSUME NEW A, IsFiniteSet(A), NEW x, NEW B, B \subseteq A \cup {x}
  PROVE  /\ IsFiniteSet(B) /\ Cardinality(B) \in Nat /\ Cardinality(A) \in Nat
         /\ Cardinality(B) <= Cardinality(A) + 1
<1>1. /\ IsFiniteSet(A \cup {x})
      /\ Cardinality(A \cup {x}) = IF x \in A THEN Cardinality(A) ELSE Cardinality(A) + 1
  BY FS_AddElement
<1>2. Cardinality(A) \in Nat
  BY FS_CardinalityType
<1> QED BY <1>1, <1>2, Fewer

LEMMA AtMostOne ==
  ASSUME NEW x, NEW B, B \subseteq {x}
  PROVE  /\ IsFiniteSet(B) /\ Cardinality(B) \in Nat /\ Cardinality(B) <= 1
<1>1. IsFiniteSet({x}) /\ Cardinality({x}) = 1
  BY FS_Singleton
<1> QED BY <1>1, Fewer

LEMMA RoundFinite ==
  ASSUME IInv, NEW p
  PROVE  /\ IsFiniteSet(RowsAt(p)) /\ Cardinality(RowsAt(p)) \in Nat
         /\ IsFiniteSet(Owing(p)) /\ Cardinality(Owing(p)) \in Nat
         /\ IsFiniteSet(Serving(p)) /\ Cardinality(Serving(p)) \in Nat
         /\ Cardinality(Request) \in Nat
<1>1. IsFiniteSet(Request)
  BY TasksAssumption
<1>2. Owing(p) \subseteq Request /\ Serving(p) \subseteq Request
  BY DEF Owing, Serving
<1>3. IsFiniteSet(DOMAIN logs) /\ RowsAt(p) \subseteq DOMAIN logs
  <2>1. logs \in Seq(Log)
    BY DEF IInv, LogPart
  <2>2. DOMAIN logs = 1..Len(logs) /\ Len(logs) \in Nat
    BY <2>1
  <2> QED BY <2>2, FS_Interval DEF RowsAt
<1> QED BY <1>1, <1>2, <1>3, Fewer

\* Places on the list, and the places requests are at, are numbers.
LEMMA Places ==
  ASSUME IInv
  PROVE  /\ \A p \in DOMAIN elementIds : p \in Int
         /\ \A r \in Request : req[r].next \in Int /\ req[r] \in ReqState
<1>1. \A r \in Request : req[r] \in ReqState
  BY DEF IInv, ReqPart
<1>2. Len(elementIds) \in Nat /\ DOMAIN elementIds = 1..Len(elementIds)
  BY ListType DEF IInv, RestPart
<1> QED BY <1>1, <1>2 DEF ReqState

\* Nobody comes in, no row is made, and the task does not come to wait.
LEMMA RoundKept ==
  ASSUME IInv, IInv', Round, [Next]_vars, UNCHANGED <<kind, elementIds, overlap>>,
         DOMAIN logs' = DOMAIN logs, \A i \in DOMAIN logs : logs'[i].at = logs[i].at,
         status' \in {"none", "waiting"} => status' = status,
         \A q \in Request :
           /\ \A p \in DOMAIN elementIds : /\ Owes(req'[q], p) => Owes(req[q], p)
                                           /\ Serves(req'[q], p) => Serves(req[q], p)
           /\ IsActive(req'[q]) => IsActive(req[q]) /\ req'[q].start = req[q].start
           /\ req'[q].pc = "mode" => req[q].pc = "mode" /\ status' = status
           /\ req'[q].pc = "saveDropped" => ~Worked
  PROVE  Round'
<1>1. faults["db"] \in Nat /\ faults'["db"] \in Nat /\ faults'["db"] >= faults["db"]
  BY FaultsGrow DEF Fault
<1>2. \A p \in DOMAIN elementIds :
        /\ Cardinality(RowsAt(p))' = Cardinality(RowsAt(p)) /\ Cardinality(RowsAt(p)) \in Nat
        /\ Cardinality(Owing(p))' <= Cardinality(Owing(p)) /\ Cardinality(Owing(p))' \in Nat
        /\ Cardinality(Serving(p))' <= Cardinality(Serving(p)) /\ Cardinality(Serving(p))' \in Nat
        /\ Cardinality(Owing(p)) \in Nat /\ Cardinality(Serving(p)) \in Nat
  <2> TAKE p \in DOMAIN elementIds
  <2>1. RowsAt(p)' = RowsAt(p)
    BY DEF RowsAt
  <2>2. Owing(p)' \subseteq Owing(p) /\ Serving(p)' \subseteq Serving(p)
    BY DEF Owing, Serving
  <2> QED BY <2>1, <2>2, RoundFinite, Fewer
<1>3. WithinLimit'
  <2>1. Cardinality(Request) \in Nat
    BY RoundFinite
  <2> SUFFICES ASSUME NEW p \in DOMAIN elementIds
               PROVE  Cardinality(RowsAt(p))' + Cardinality(Owing(p))' <= Limit'
    BY DEF WithinLimit
  <2>2. Cardinality(RowsAt(p)) + Cardinality(Owing(p)) <= Limit
    BY DEF Round, WithinLimit
  <2> QED BY <1>1, <1>2, <2>1, <2>2 DEF Limit
<1>4. PaidFor'
  <2> SUFFICES ASSUME status' = "waiting"
               PROVE  /\ \A p \in DOMAIN elementIds :
                           Cardinality(RowsAt(p))' + Cardinality(Serving(p))' <= faults'["db"]
                      /\ \A r \in Request : IsActive(req'[r]) => req'[r].start
    BY DEF PaidFor, IsActive
  <2>1. /\ \A p \in DOMAIN elementIds :
             Cardinality(RowsAt(p)) + Cardinality(Serving(p)) <= faults["db"]
        /\ \A r \in Request : IsActive(req[r]) => req[r].start
    BY DEF Round, PaidFor
  <2> QED BY <1>1, <1>2, <2>1
<1>5. FirstRequest'
  <2>1. logs \in Seq(Log) /\ logs' \in Seq(Log')
    BY DEF IInv, LogPart
  <2>2. logs = <<>> => logs' = <<>>
    BY <2>1
  <2>3. Worked' <=> Worked
    BY DEF Worked
  <2>4. status' = "none" => logs' = <<>> /\ \A r \in Request : ~IsActive(req'[r])
    BY <2>2 DEF Round, FirstRequest
  <2>5. \A r \in Request : req'[r].pc = "mode" =>
          /\ Worked /\ status' = "new" /\ logs' = <<>>
          /\ \A q \in Request : IsActive(req'[q]) => q = r
    BY <2>2 DEF Round, FirstRequest
  <2> QED BY <2>3, <2>4, <2>5 DEF FirstRequest, IsActive
<1> QED BY <1>3, <1>4, <1>5 DEF Round

\* Request r goes on as n, and gets no further from its end.
LEMMA RoundGoesOn ==
  ASSUME IInv, IInv', Round, [Next]_vars, UNCHANGED <<kind, elementIds, overlap, logs>>,
         status' \in {"none", "waiting", "new"} => status' = status,
         Worked /\ status = "new" => status' = status,
         NEW r \in Request, NEW n, Become(r, n),
         \A p \in DOMAIN elementIds : /\ Owes(n, p) => Owes(req[r], p)
                                      /\ Serves(n, p) => Serves(req[r], p),
         IsActive(n) => IsActive(req[r]) /\ n.start = req[r].start,
         n.pc # "mode", n.pc = "saveDropped" => ~Worked
  PROVE  Round'
<1>1. \A q \in Request : req'[q] = IF q = r THEN n ELSE req[q]
  BY OthersWait DEF IInv
<1>2. \A q \in Request : req[q].pc = "mode" => Worked /\ status = "new"
  BY DEF Round, FirstRequest
<1>3. \A q \in Request : req[q].pc = "saveDropped" => ~Worked
  BY DEF Round, FirstRequest
<1>4. \A q \in Request :
        /\ \A p \in DOMAIN elementIds : /\ Owes(req'[q], p) => Owes(req[q], p)
                                        /\ Serves(req'[q], p) => Serves(req[q], p)
        /\ IsActive(req'[q]) => IsActive(req[q]) /\ req'[q].start = req[q].start
        /\ req'[q].pc = "mode" => req[q].pc = "mode" /\ status' = status
        /\ req'[q].pc = "saveDropped" => ~Worked
  BY <1>1, <1>2, <1>3
<1> QED BY <1>4, RoundKept

\* A request ends, or goes on with something other than to start the task.
LEMMA RoundAside ==
  ASSUME IInv, IInv', Round, [Next]_vars, UNCHANGED <<kind, elementIds, overlap, logs>>,
         status' \in {"none", "waiting", "new"} => status' = status,
         Worked /\ status = "new" => status' = status,
         NEW r \in Request, NEW n, Become(r, n), ~n.start,
         n.pc \in {"idle", "lockCancel", "saveCancel", "saveDropped"},
         n.pc = "saveDropped" => ~Worked
  PROVE  Round'
<1>1. /\ \A p \in DOMAIN elementIds : ~Owes(n, p) /\ ~Serves(n, p)
      /\ ~IsActive(n)
  BY DEF Owes, Serves, IsActive, DispatchPc
<1> QED BY <1>1, RoundGoesOn

\* The task is made: there is no row, and nobody else who could make one.
LEMMA RoundMade ==
  ASSUME IInv, IInv', Round, [Next]_vars, UNCHANGED <<kind, elementIds, logs>>, overlap' = overlap,
         NEW r \in Request, NEW n, Become(r, n),
         logs = <<>>, \A q \in Request \ {r} : ~IsActive(req[q]) /\ req[q].pc \notin {"lock", "save"},
         status' # "none", status' = "waiting" => ~IsActive(n),
         n.pc = "mode" => Worked /\ status' = "new",
         n.pc # "saveDropped"
  PROVE  Round'
<1>1. \A q \in Request : req'[q] = IF q = r THEN n ELSE req[q]
  BY OthersWait DEF IInv
<1>2. \A q \in Request \ {r} : \A p : ~Owes(req[q], p) /\ ~Serves(req[q], p)
  BY DEF Owes, Serves, IsActive, DispatchPc
<1>3. \A p : /\ RowsAt(p)' = {} /\ Owing(p)' \subseteq {r}
             /\ Cardinality(RowsAt(p))' = 0 /\ Cardinality(Owing(p))' <= 1
             /\ Cardinality(Owing(p))' \in Nat
  <2> TAKE p
  <2>1. RowsAt(p)' = {} /\ Owing(p)' \subseteq {r}
    BY <1>1, <1>2 DEF RowsAt, Owing
  <2> QED BY <2>1, FS_EmptySet, AtMostOne
<1>4. faults'["db"] \in Nat /\ Cardinality(Request) \in Nat /\ Cardinality(Request) >= 1
  <2>1. faults'["db"] \in Nat
    BY FaultsGrow DEF Fault
  <2>2. IsFiniteSet(Request) /\ {r} \subseteq Request /\ Cardinality({r}) = 1
    BY TasksAssumption, FS_Singleton
  <2> QED BY <2>1, <2>2, Fewer
<1>5. WithinLimit'
  BY <1>3, <1>4 DEF WithinLimit, Limit
<1>6. PaidFor'
  <2> SUFFICES ASSUME status' = "waiting"
               PROVE  /\ \A p \in DOMAIN elementIds :
                           Cardinality(RowsAt(p))' + Cardinality(Serving(p))' <= faults'["db"]
                      /\ \A q \in Request : IsActive(req'[q]) => req'[q].start
    BY DEF PaidFor, IsActive
  <2>1. \A p : Serving(p)' = {}
    BY <1>1, <1>2 DEF Serving, Serves, IsActive, DispatchPc
  <2>2. \A p : Cardinality(Serving(p))' = 0
    BY <2>1, FS_EmptySet
  <2> QED BY <1>1, <1>3, <1>4, <2>2
<1>7. FirstRequest'
  <2>1. Worked' <=> Worked
    BY DEF Worked
  <2>2. \A q \in Request : req'[q].pc = "saveDropped" => ~Worked
    BY <1>1 DEF Round, FirstRequest
  <2>3. \A q \in Request : req'[q].pc = "mode" =>
          /\ Worked /\ status' = "new" /\ logs' = <<>>
          /\ \A o \in Request : IsActive(req'[o]) => o = q
    BY <1>1 DEF IsActive
  <2> QED BY <2>1, <2>2, <2>3 DEF FirstRequest, IsActive
<1> QED BY <1>5, <1>6, <1>7 DEF Round

\* A request has seen that the task waits.
LEMMA RoundRead ==
  ASSUME IInv, IInv', Round, Exclusive, [Next]_vars, NEW r \in Request, ReadToStart(r)
  PROVE  Round'
<1> DEFINE n == Busy("lock", TRUE)
<1>1. /\ UNCHANGED <<kind, elementIds, logs, status, faults>> /\ status = "waiting"
      /\ Become(r, n) /\ overlap' = (overlap \/ \E q \in Request : req[q].start)
  BY RequestFrameParts DEF ReadToStart, PastStatus
<1>2. n.pc = "lock" /\ n.start /\ \A p : ~Serves(n, p)
  BY DEF Busy, Serves, DispatchPc
<1> HIDE DEF n
<1>3. \A q \in Request : req'[q] = IF q = r THEN n ELSE req[q]
  BY <1>1, OthersWait DEF IInv
<1>4. /\ \A p \in DOMAIN elementIds :
           Cardinality(RowsAt(p)) + Cardinality(Serving(p)) <= faults["db"]
      /\ \A q \in Request : IsActive(req[q]) => req[q].start
  BY <1>1 DEF Round, PaidFor
<1>5. faults["db"] \in Nat /\ faults'["db"] = faults["db"]
  BY <1>1, FaultsGrow DEF Fault
<1>6. overlap \in BOOLEAN /\ overlap' \in BOOLEAN
  BY DEF IInv, RestPart
<1>7. WithinLimit'
  <2> SUFFICES ASSUME NEW p \in DOMAIN elementIds
               PROVE  Cardinality(RowsAt(p))' + Cardinality(Owing(p))' <= Limit'
    BY <1>1 DEF WithinLimit
  <2>1. /\ Cardinality(RowsAt(p)) \in Nat /\ Cardinality(Serving(p)) \in Nat
        /\ Cardinality(Owing(p)) \in Nat /\ Cardinality(Request) \in Nat
    BY RoundFinite
  <2>2. RowsAt(p)' = RowsAt(p) /\ Cardinality(RowsAt(p)) <= faults["db"]
    BY <1>1, <1>4, <1>5, <2>1 DEF RowsAt
  <2>3. CASE overlap'
    <3>1. Owing(p)' \subseteq Request
      BY DEF Owing
    <3>2. Cardinality(Owing(p))' <= Cardinality(Request) /\ Cardinality(Owing(p))' \in Nat
      BY <3>1, Fewer, TasksAssumption
    <3> QED BY <1>5, <2>1, <2>2, <2>3, <3>2 DEF Limit
  <2>4. CASE ~overlap'
    <3>1. \A q \in Request : ~req[q].start
      BY <1>1, <2>4
    <3>2. \A q \in Request : ~Owes(req[q], p)
      BY <1>4, <3>1 DEF Owes, IsActive, DispatchPc, Exclusive
    <3>3. Owing(p)' \subseteq {r}
      BY <1>1, <1>3, <3>2 DEF Owing
    <3>4. Cardinality(Owing(p))' <= 1 /\ Cardinality(Owing(p))' \in Nat
      BY <3>3, AtMostOne
    <3> QED BY <1>5, <2>1, <2>2, <2>4, <3>4 DEF Limit
  <2> QED BY <2>3, <2>4
<1>8. PaidFor'
  <2>1. \A p \in DOMAIN elementIds : /\ RowsAt(p)' = RowsAt(p)
                                     /\ Serving(p)' \subseteq Serving(p)
    BY <1>1, <1>2, <1>3 DEF RowsAt, Serving
  <2>2. \A p \in DOMAIN elementIds :
          Cardinality(RowsAt(p))' + Cardinality(Serving(p))' <= faults'["db"]
    <3> TAKE p \in DOMAIN elementIds
    <3>1. /\ Cardinality(Serving(p))' <= Cardinality(Serving(p))
          /\ Cardinality(Serving(p))' \in Nat /\ Cardinality(Serving(p)) \in Nat
          /\ Cardinality(RowsAt(p)) \in Nat
      BY <2>1, RoundFinite, Fewer
    <3> QED BY <1>4, <1>5, <2>1, <3>1
  <2>3. \A q \in Request : IsActive(req'[q]) => req'[q].start
    BY <1>2, <1>3, <1>4
  <2> QED BY <1>1, <2>2, <2>3 DEF PaidFor, IsActive
<1>9. FirstRequest'
  <2>1. \A q \in Request : req[q].pc # "mode" /\ (req[q].pc = "saveDropped" => ~Worked)
    BY <1>1 DEF Round, FirstRequest
  <2>2. Worked' <=> Worked
    BY <1>1 DEF Worked
  <2>3. \A q \in Request : req'[q].pc # "mode" /\ (req'[q].pc = "saveDropped" => ~Worked)
    BY <1>2, <1>3, <2>1
  <2>4. status' # "none"
    BY <1>1
  <2> QED BY <2>2, <2>3, <2>4 DEF FirstRequest, IsActive
<1> QED BY <1>7, <1>8, <1>9 DEF Round

\* The task is at its request that dispatches, and is not being made.
LEMMA NotFirst ==
  ASSUME Round, NEW r \in Request, IsActive(req[r]), req[r].pc # "mode"
  PROVE  status # "none" /\ \A q \in Request : req[q].pc # "mode"
BY DEF Round, FirstRequest

\* A request starts the task; when its save fails the task still waits.
LEMMA RoundStarts ==
  ASSUME IInv, IInv', Round, Exclusive, [Next]_vars, NEW r \in Request, SaveStarted(r)
  PROVE  Round'
<1> DEFINE n == Busy("dispatch", TRUE)
<1>1. /\ UNCHANGED <<kind, elementIds, logs, overlap>> /\ req[r].pc = "save" /\ req[r].start
      /\ Become(r, n) /\ (status' = "executing" \/ (status' = status /\ Fail("db")))
  BY RequestFrameParts DEF SaveStarted, Exclusive, lockVars
<1>2. n.pc = "dispatch" /\ n.start
  BY DEF Busy
<1> HIDE DEF n
<1>3. \A q \in Request : req'[q] = IF q = r THEN n ELSE req[q]
  BY <1>1, OthersWait DEF IInv
<1>4. status # "none" /\ \A q \in Request : req[q].pc # "mode"
  BY <1>1, NotFirst DEF IsActive
<1>5. /\ faults["db"] \in Nat /\ faults'["db"] \in Nat /\ faults'["db"] >= faults["db"]
      /\ Fail("db") => faults'["db"] = faults["db"] + 1
  BY FaultsGrow, FailTyped DEF Fault, IInv
<1>6. \A p \in DOMAIN elementIds :
        /\ RowsAt(p)' = RowsAt(p) /\ Cardinality(RowsAt(p)) \in Nat
        /\ Cardinality(Owing(p))' <= Cardinality(Owing(p)) /\ Cardinality(Owing(p))' \in Nat
        /\ Cardinality(Serving(p))' <= Cardinality(Serving(p)) + 1
        /\ Cardinality(Serving(p))' \in Nat
        /\ Cardinality(Owing(p)) \in Nat /\ Cardinality(Serving(p)) \in Nat
  <2> TAKE p \in DOMAIN elementIds
  <2>1. RowsAt(p)' = RowsAt(p)
    BY <1>1 DEF RowsAt
  <2>2. Owing(p)' \subseteq Owing(p) /\ Serving(p)' \subseteq Serving(p) \cup {r}
    BY <1>1, <1>3 DEF Owing, Owes, Serving
  <2> QED BY <2>1, <2>2, RoundFinite, Fewer, OneMore
<1>7. WithinLimit'
  <2>1. Cardinality(Request) \in Nat
    BY RoundFinite
  <2> SUFFICES ASSUME NEW p \in DOMAIN elementIds
               PROVE  Cardinality(RowsAt(p))' + Cardinality(Owing(p))' <= Limit'
    BY <1>1 DEF WithinLimit
  <2>2. Cardinality(RowsAt(p)) + Cardinality(Owing(p)) <= Limit
    BY DEF Round, WithinLimit
  <2> QED BY <1>1, <1>5, <1>6, <2>1, <2>2 DEF Limit
<1>8. PaidFor'
  <2> SUFFICES ASSUME status' = "waiting"
               PROVE  /\ \A p \in DOMAIN elementIds :
                           Cardinality(RowsAt(p))' + Cardinality(Serving(p))' <= faults'["db"]
                      /\ \A q \in Request : IsActive(req'[q]) => req'[q].start
    BY <1>1 DEF PaidFor, IsActive
  <2>1. status = "waiting" /\ Fail("db")
    BY <1>1
  <2>2. /\ \A p \in DOMAIN elementIds :
             Cardinality(RowsAt(p)) + Cardinality(Serving(p)) <= faults["db"]
        /\ \A q \in Request : IsActive(req[q]) => req[q].start
    BY <2>1 DEF Round, PaidFor
  <2> QED BY <1>2, <1>3, <1>5, <1>6, <2>1, <2>2
<1>9. FirstRequest'
  <2>1. \A q \in Request : req[q].pc = "saveDropped" => ~Worked
    BY DEF Round, FirstRequest
  <2>2. Worked' <=> Worked
    BY <1>1 DEF Worked
  <2> QED BY <1>1, <1>2, <1>3, <1>4, <2>1, <2>2 DEF FirstRequest
<1> QED BY <1>7, <1>8, <1>9 DEF Round

\* A request that goes on to the next entry of the list owes one row less.
LEMMA EntryDone ==
  ASSUME IInv, NEW r \in Request, Dispatches(r), NEW n,
         n \in {NextEntry(r), WithRow(r)}, NEW p \in DOMAIN elementIds
  PROVE  /\ Owes(req[r], p) <=> p >= req[r].next
         /\ Serves(req[r], p) <=> p >= req[r].next
         /\ Owes(n, p) <=> p > req[r].next
         /\ Serves(n, p) <=> p > req[r].next
<1>1. n.next = req[r].next + 1 /\ n.pc \in DispatchPc /\ req[r].pc \in DispatchPc
  BY EntryType DEF Dispatches, DispatchPc
<1>2. req[r].next \in Int /\ p \in Int
  BY Places
<1> QED BY <1>1, <1>2 DEF Owes, Serves, DispatchPc

LEMMA RoundRow ==
  ASSUME IInv, IInv', Round, [Next]_vars, NEW r \in Request, MakesRow(r)
  PROVE  Round'
<1>1. /\ UNCHANGED <<kind, elementIds, status, overlap>> /\ Dispatches(r)
      /\ req[r].next \in DOMAIN elementIds /\ elementIds \in Lists
      /\ req[r].pc = "dispatch"
  BY RowMade, EntryType DEF IInv, RestPart, Dispatches
<1>2. CASE UNCHANGED logs /\ Become(r, NextEntry(r))
  <2>1. \A p \in DOMAIN elementIds : /\ Owes(NextEntry(r), p) => Owes(req[r], p)
                                     /\ Serves(NextEntry(r), p) => Serves(req[r], p)
    <3> TAKE p \in DOMAIN elementIds
    <3>1. p \in Int /\ req[r].next \in Int
      BY Places
    <3> QED BY <1>1, <3>1, EntryDone
  <2>2. /\ NextEntry(r).start = req[r].start /\ NextEntry(r).pc = "dispatch" /\ IsActive(req[r])
    BY <1>1, EntryType DEF IsActive
  <2> QED BY <1>1, <1>2, <2>1, <2>2, RoundGoesOn
<1>3. ASSUME NEW row, NEW n, n \in {NextEntry(r), WithRow(r)}, row.at = req[r].next,
             logs' = Append(logs, row), Become(r, n)
      PROVE  Round'
  <2>1. \A q \in Request : req'[q] = IF q = r THEN n ELSE req[q]
    BY <1>3, OthersWait DEF IInv
  <2>2. n.start = req[r].start /\ n.pc \in DispatchPc
    BY <1>1, <1>3, EntryType DEF DispatchPc
  <2>3. status # "none" /\ \A q \in Request : req[q].pc # "mode"
    BY <1>1, NotFirst DEF IsActive
  <2>4. faults["db"] \in Nat /\ faults'["db"] \in Nat /\ faults'["db"] >= faults["db"]
    BY FaultsGrow DEF Fault
  <2>5. logs \in Seq(Log)
    BY DEF IInv, LogPart
  <2>6. /\ DOMAIN logs' = DOMAIN logs \cup {Len(logs) + 1}
        /\ logs'[Len(logs) + 1] = row /\ \A i \in DOMAIN logs : logs'[i] = logs[i]
    BY <1>3, <2>5
  <2>7. \A p \in DOMAIN elementIds :
          /\ Cardinality(RowsAt(p))' + Cardinality(Owing(p))'
               <= Cardinality(RowsAt(p)) + Cardinality(Owing(p))
          /\ Cardinality(RowsAt(p))' + Cardinality(Serving(p))'
               <= Cardinality(RowsAt(p)) + Cardinality(Serving(p))
          /\ Cardinality(RowsAt(p)) \in Nat /\ Cardinality(RowsAt(p))' \in Nat
          /\ Cardinality(Owing(p)) \in Nat /\ Cardinality(Owing(p))' \in Nat
          /\ Cardinality(Serving(p)) \in Nat /\ Cardinality(Serving(p))' \in Nat
    <3> TAKE p \in DOMAIN elementIds
    <3>1. p \in Int /\ req[r].next \in Int
      BY Places
    <3>2. /\ Owes(req[r], p) <=> p >= req[r].next
          /\ Serves(req[r], p) <=> p >= req[r].next
          /\ Owes(n, p) <=> p > req[r].next
          /\ Serves(n, p) <=> p > req[r].next
      BY <1>1, <1>3, EntryDone
    <3>3. CASE p = req[r].next
      <4>1. r \in Owing(p) /\ r \in Serving(p)
        BY <3>1, <3>2, <3>3 DEF Owing, Serving
      <4>2. RowsAt(p)' \subseteq RowsAt(p) \cup {Len(logs) + 1}
        BY <2>6 DEF RowsAt
      <4>3. Owing(p)' \subseteq Owing(p) \ {r} /\ Serving(p)' \subseteq Serving(p) \ {r}
        BY <2>1, <3>1, <3>2, <3>3 DEF Owing, Serving
      <4>4. /\ Cardinality(Owing(p))' <= Cardinality(Owing(p)) - 1
            /\ Cardinality(Owing(p))' \in Nat /\ Cardinality(Owing(p)) \in Nat
        BY <4>1, <4>3, RoundFinite, OneLess
      <4>5. /\ Cardinality(Serving(p))' <= Cardinality(Serving(p)) - 1
            /\ Cardinality(Serving(p))' \in Nat /\ Cardinality(Serving(p)) \in Nat
        BY <4>1, <4>3, RoundFinite, OneLess
      <4>6. /\ Cardinality(RowsAt(p))' <= Cardinality(RowsAt(p)) + 1
            /\ Cardinality(RowsAt(p))' \in Nat /\ Cardinality(RowsAt(p)) \in Nat
        BY <4>2, RoundFinite, OneMore
      <4> QED BY <4>4, <4>5, <4>6
    <3>4. CASE p # req[r].next
      <4>1. RowsAt(p)' = RowsAt(p)
        BY <1>3, <2>6, <3>4 DEF RowsAt
      <4>2. Owing(p)' \subseteq Owing(p) /\ Serving(p)' \subseteq Serving(p)
        BY <2>1, <3>1, <3>2 DEF Owing, Serving
      <4>3. /\ Cardinality(Owing(p))' <= Cardinality(Owing(p))
            /\ Cardinality(Serving(p))' <= Cardinality(Serving(p))
            /\ Cardinality(Owing(p))' \in Nat /\ Cardinality(Serving(p))' \in Nat
        BY <4>2, RoundFinite, Fewer
      <4> QED BY <4>1, <4>3, RoundFinite
    <3> QED BY <3>3, <3>4
  <2>8. WithinLimit'
    <3>1. Cardinality(Request) \in Nat
      BY RoundFinite
    <3> SUFFICES ASSUME NEW p \in DOMAIN elementIds
                 PROVE  Cardinality(RowsAt(p))' + Cardinality(Owing(p))' <= Limit'
      BY <1>1 DEF WithinLimit
    <3>2. Cardinality(RowsAt(p)) + Cardinality(Owing(p)) <= Limit
      BY DEF Round, WithinLimit
    <3> QED BY <1>1, <2>4, <2>7, <3>1, <3>2 DEF Limit
  <2>9. PaidFor'
    <3> SUFFICES ASSUME status' = "waiting"
                 PROVE  /\ \A p \in DOMAIN elementIds :
                             Cardinality(RowsAt(p))' + Cardinality(Serving(p))' <= faults'["db"]
                        /\ \A q \in Request : IsActive(req'[q]) => req'[q].start
      BY <1>1 DEF PaidFor, IsActive
    <3>1. /\ \A p \in DOMAIN elementIds :
               Cardinality(RowsAt(p)) + Cardinality(Serving(p)) <= faults["db"]
          /\ \A q \in Request : IsActive(req[q]) => req[q].start
      BY <1>1 DEF Round, PaidFor
    <3>2. IsActive(req[r])
      BY <1>1 DEF IsActive
    <3> QED BY <2>1, <2>2, <2>4, <2>7, <3>1, <3>2
  <2>10. FirstRequest'
    <3>1. \A q \in Request : req[q].pc = "saveDropped" => ~Worked
      BY DEF Round, FirstRequest
    <3>2. Worked' <=> Worked
      BY <1>1 DEF Worked
    <3> QED BY <1>1, <2>1, <2>2, <2>3, <3>1, <3>2 DEF FirstRequest, DispatchPc
  <2> QED BY <2>8, <2>9, <2>10 DEF Round
<1>4. /\ NewLog(req[r].next).at = req[r].next
      /\ [NewLog(req[r].next) EXCEPT !.done = TRUE].at = req[r].next
  BY <1>1, NewLogType
<1> QED BY <1>2, <1>3, <1>4, RowMade

LEMMA RoundNext == IInv /\ IInv' /\ Exclusive /\ Round /\ [Next]_vars => Round'
<1> SUFFICES ASSUME IInv, IInv', Exclusive, Round, [Next]_vars PROVE Round'
  OBVIOUS
<1>1. \A n \in {Busy("lockCancel", FALSE), Busy("saveCancel", FALSE), Busy("saveDropped", FALSE), Idle} :
        /\ ~n.start /\ ~IsActive(n) /\ n.pc \in {"idle", "lockCancel", "saveCancel", "saveDropped"}
        /\ n.pc = "saveDropped" => n = Busy("saveDropped", FALSE)
  BY DEF Busy, Idle, IsActive
<1>2. ASSUME NEW r \in Request, CreateTask(r) \/ \E now \in BOOLEAN : AddTask(r, now) PROVE Round'
  <2>1. /\ UNCHANGED <<kind, elementIds, logs, overlap>> /\ status = "none"
    BY <1>2, RequestFrameParts DEF CreateTask, AddTask, lockVars
  <2>2. logs = <<>> /\ \A q \in Request : ~IsActive(req[q]) /\ req[q].pc \notin {"lock", "save"}
    BY <2>1 DEF Round, FirstRequest, IsActive, Exclusive
  <2>3. \E n : /\ Become(r, n) /\ status' # "none" /\ n.pc # "saveDropped"
               /\ status' = "waiting" => ~IsActive(n)
               /\ n.pc = "mode" => Worked /\ status' = "new"
    <3>1. CASE CreateTask(r)
      <4>1. /\ Become(r, Busy("mode", FALSE)) /\ status' = "new" /\ Worked
            /\ Busy("mode", FALSE).pc = "mode"
        BY <3>1 DEF CreateTask, Busy
      <4> QED BY <4>1
    <3>2. ASSUME NEW now \in BOOLEAN, AddTask(r, now)
          PROVE  \E n : /\ Become(r, n) /\ status' # "none" /\ n.pc # "saveDropped"
                        /\ status' = "waiting" => ~IsActive(n)
                        /\ n.pc = "mode" => Worked /\ status' = "new"
      <4>1. CASE now
        <5>1. /\ Become(r, Busy("dispatch", FALSE)) /\ status' = "executing"
              /\ Busy("dispatch", FALSE).pc = "dispatch"
          BY <3>2, <4>1 DEF AddTask, Busy
        <5> QED BY <5>1
      <4>2. CASE ~now
        <5>1. Become(r, Idle) /\ status' = "waiting"
          BY <3>2, <4>2 DEF AddTask
        <5>2. ~IsActive(Idle) /\ Idle.pc = "idle"
          BY IdleState DEF IsActive
        <5> QED BY <5>1, <5>2
      <4> QED BY <4>1, <4>2
    <3> QED BY <1>2, <3>1, <3>2
  <2> QED BY <2>1, <2>2, <2>3, RoundMade
<1>3. ASSUME NEW r \in Request, NEW now \in BOOLEAN, SaveNewStatus(r, now) PROVE Round'
  <2>1. /\ UNCHANGED <<kind, elementIds, logs, overlap>> /\ req[r].pc = "mode"
        /\ status' \in {status, IF now THEN "executing" ELSE "waiting"}
        /\ Become(r, IF now THEN Busy("dispatch", FALSE) ELSE Idle)
    BY <1>3, RequestFrameParts DEF SaveNewStatus, lockVars
  <2>2. /\ logs = <<>> /\ status = "new"
        /\ \A q \in Request \ {r} : ~IsActive(req[q]) /\ req[q].pc \notin {"lock", "save"}
    BY <2>1 DEF Round, FirstRequest, IsActive, Exclusive
  <2>3. CASE now
    <3>1. Become(r, Busy("dispatch", FALSE)) /\ status' \in {"new", "executing"}
          /\ Busy("dispatch", FALSE).pc = "dispatch"
      BY <2>1, <2>2, <2>3 DEF Busy
    <3> QED BY <2>1, <2>2, <3>1, RoundMade
  <2>4. CASE ~now
    <3>1. Become(r, Idle) /\ status' \in {"new", "waiting"}
      BY <2>1, <2>2, <2>4
    <3>2. ~IsActive(Idle) /\ Idle.pc = "idle"
      BY IdleState DEF IsActive
    <3> QED BY <2>1, <2>2, <3>1, <3>2, RoundMade
  <2> QED BY <2>3, <2>4
<1>4. ASSUME NEW r \in Request, ReadToCancel(r) \/ ReadToDrop(r) \/ LockCancel(r) PROVE Round'
  <2>1. UNCHANGED <<kind, elementIds, logs, overlap, status>>
    BY <1>4, RequestFrameParts DEF ReadToCancel, ReadToDrop, LockCancel, lockVars
  <2>2. \/ Become(r, Busy("lockCancel", FALSE)) \/ Become(r, Busy("saveCancel", FALSE))
        \/ Become(r, Idle) \/ (Become(r, Busy("saveDropped", FALSE)) /\ ~Worked)
    BY <1>4 DEF ReadToCancel, ReadToDrop, LockCancel
  <2>3. \E n : /\ Become(r, n) /\ ~n.start
               /\ n.pc \in {"idle", "lockCancel", "saveCancel", "saveDropped"}
               /\ n.pc = "saveDropped" => ~Worked
    <3>1. Busy("lockCancel", FALSE).pc = "lockCancel" /\ Busy("saveCancel", FALSE).pc = "saveCancel"
      BY DEF Busy
    <3> QED BY <1>1, <2>2, <3>1, IdleState
  <2> QED BY <2>1, <2>3, RoundAside
<1>5. ASSUME NEW r \in Request, EndDispatch(r) \/ SaveCancelled(r) \/ SaveDropped(r) PROVE Round'
  <2>1. UNCHANGED <<kind, elementIds, logs, overlap>> /\ Become(r, Idle)
    BY <1>5, RequestFrameParts DEF EndDispatch, SaveCancelled, SaveDropped, lockVars
  <2>2. /\ status' \in {"none", "waiting", "new"} => status' = status
        /\ Worked /\ status = "new" => status' = status
    <3>1. CASE EndDispatch(r) \/ SaveCancelled(r)
      BY <3>1 DEF EndDispatch, SaveCancelled
    <3>2. CASE SaveDropped(r)
      <4>1. req[r].pc = "saveDropped" /\ status' \in {status, "cancelled"}
        BY <3>2 DEF SaveDropped
      <4>2. ~Worked
        BY <4>1 DEF Round, FirstRequest
      <4> QED BY <4>1, <4>2
    <3> QED BY <1>5, <3>1, <3>2
  <2> QED BY <2>1, <2>2, IdleState, RoundAside
<1>6. ASSUME NEW r \in Request, LockStart(r) PROVE Round'
  <2>1. UNCHANGED <<kind, elementIds, logs, overlap, status>> /\ req[r].pc = "lock" /\ req[r].start
    BY <1>6, RequestFrameParts DEF LockStart, Exclusive
  <2>2. CASE Become(r, Idle)
    BY <2>1, <2>2, IdleState, RoundAside
  <2>3. CASE Become(r, [req[r] EXCEPT !.pc = "save"])
    <3> DEFINE n == [req[r] EXCEPT !.pc = "save"]
    <3>1. Become(r, n) /\ n.pc = "save" /\ n.start = req[r].start
      BY <2>3, StartKept DEF IInv
    <3> HIDE DEF n
    <3>2. \A p \in DOMAIN elementIds : Owes(req[r], p) /\ ~Serves(n, p)
      BY <2>1, <3>1 DEF Owes, Serves, DispatchPc
    <3>3. IsActive(req[r])
      BY <2>1 DEF IsActive
    <3> QED BY <2>1, <3>1, <3>2, <3>3, RoundGoesOn
  <2> QED BY <1>6, <2>2, <2>3 DEF LockStart
<1>7. ASSUME NEW r \in Request, PushMessage(r) PROVE Round'
  <2> DEFINE n == [req[r] EXCEPT !.pc = "dispatch", !.log = 0]
  <2>1. /\ UNCHANGED <<kind, elementIds, logs, overlap, status>> /\ req[r].pc = "push"
        /\ Become(r, n)
    BY <1>7, RequestFrameParts DEF PushMessage, lockVars
  <2>2. n.pc = "dispatch" /\ n.start = req[r].start /\ n.next = req[r].next
    BY StartKept, Places DEF IInv, ReqState
  <2> HIDE DEF n
  <2>3. /\ \A p \in DOMAIN elementIds : /\ Owes(n, p) => Owes(req[r], p)
                                        /\ Serves(n, p) => Serves(req[r], p)
        /\ IsActive(req[r])
    BY <2>1, <2>2 DEF Owes, Serves, DispatchPc, IsActive
  <2> QED BY <2>1, <2>2, <2>3, RoundGoesOn
<1>8. ASSUME NEW r \in Request, SkipBlacklisted(r) PROVE Round'
  <2>1. /\ UNCHANGED <<kind, elementIds, logs, overlap, status>> /\ Dispatches(r)
        /\ Become(r, NextEntry(r)) /\ req[r].pc = "dispatch"
    BY <1>8, RequestFrameParts DEF SkipBlacklisted, NextEntry, lockVars, Dispatches
  <2>2. \A p \in DOMAIN elementIds : /\ Owes(NextEntry(r), p) => Owes(req[r], p)
                                     /\ Serves(NextEntry(r), p) => Serves(req[r], p)
    <3> TAKE p \in DOMAIN elementIds
    <3>1. p \in Int /\ req[r].next \in Int
      BY Places
    <3> QED BY <2>1, <3>1, EntryDone
  <2>3. NextEntry(r).start = req[r].start /\ NextEntry(r).pc = "dispatch" /\ IsActive(req[r])
    BY <2>1, EntryType DEF IsActive
  <2> QED BY <2>1, <2>2, <2>3, RoundGoesOn
<1>9. CASE WorkerStep
  <2>1. UNCHANGED <<kind, elementIds, req, status, overlap>>
    BY <1>9, WorkerRest
  <2>2. logs \in Seq(Log) /\ LogsStay
    BY <1>9, WorkerInv DEF IInv, LogPart
  <2>3. DOMAIN logs' = DOMAIN logs
    BY <1>9, <2>2 DEF WorkerStep, Pop, Find, FindFile, SendDownload, MarkDownloaded, MarkFailed
  <2>4. \A q \in Request : req[q].pc = "saveDropped" => ~Worked
    BY DEF Round, FirstRequest
  <2> QED BY <2>1, <2>2, <2>3, <2>4, RoundKept DEF LogsStay
<1>10. CASE \/ DeleteTask \/ StartLockExpires \/ CancelLockExpires \/ DeleteUpgradeFile
            \/ UNCHANGED vars \/ \E e \in Element : DeleteDevice(e)
  <2>1. /\ UNCHANGED <<kind, elementIds, req, logs, overlap>>
        /\ status' = status \/ (status' = "gone" /\ ~Worked)
    BY <1>10, RequestFrameParts DEF DeleteTask, StartLockExpires, CancelLockExpires,
       DeleteUpgradeFile, DeleteDevice, taskVars, vars, lockVars
  <2>2. \A q \in Request : /\ req[q].pc = "mode" => Worked
                           /\ req[q].pc = "saveDropped" => ~Worked
    BY DEF Round, FirstRequest
  <2> QED BY <2>1, <2>2, RoundKept
<1>11. CASE Crash
  <2>1. UNCHANGED <<kind, elementIds, status, logs, overlap>> /\ \A q \in Request : req'[q] = Idle
    BY <1>11 DEF Crash, taskVars, lockVars
  <2>2. \A q \in Request : /\ \A p \in DOMAIN elementIds : ~Owes(req'[q], p) /\ ~Serves(req'[q], p)
                           /\ ~IsActive(req'[q]) /\ req'[q].pc = "idle"
    BY <2>1, IdleState DEF Owes, Serves, IsActive, DispatchPc
  <2> QED BY <2>1, <2>2, RoundKept
<1>12. ASSUME NEW r \in Request, Begin(r) \/ Work(r) PROVE Round'
  <2>1. CASE ReadToStart(r)
    BY <2>1, RoundRead
  <2>2. CASE SaveStarted(r)
    BY <2>2, RoundStarts
  <2>3. CASE CreateLog(r) \/ RefuseInUpgrade(r)
    BY <2>3, RoundRow DEF MakesRow
  <2> QED BY <1>2, <1>3, <1>4, <1>5, <1>6, <1>7, <1>8, <1>12, <2>1, <2>2, <2>3 DEF Begin, Work
<1> QED BY <1>9, <1>10, <1>11, <1>12 DEF Next

LEMMA RoundInit == Init => Round
<1> SUFFICES ASSUME Init PROVE Round
  OBVIOUS
<1>1. \A r \in Request : req[r] = Idle
  BY DEF Init
<1>2. \A r \in Request : /\ \A p \in DOMAIN elementIds : ~Owes(req[r], p)
                         /\ ~IsActive(req[r]) /\ req[r].pc = "idle"
  BY <1>1, IdleState DEF Owes, IsActive, DispatchPc
<1>3. IInv /\ status = "none" /\ logs = <<>> /\ DOMAIN logs = {} /\ faults["db"] = 0 /\ ~overlap
  BY InitInv DEF Init, Fault
<1>4. WithinLimit
  <2> SUFFICES ASSUME NEW p \in DOMAIN elementIds
               PROVE  Cardinality(RowsAt(p)) + Cardinality(Owing(p)) <= Limit
    BY DEF WithinLimit
  <2>1. RowsAt(p) = {} /\ Owing(p) = {}
    BY <1>2, <1>3 DEF RowsAt, Owing
  <2> QED BY <1>3, <2>1, FS_EmptySet DEF Limit
<1> QED BY <1>2, <1>3, <1>4 DEF Round, PaidFor, FirstRequest

-----------------------------------------------------------------------------
(* Downloads for a row *)

Queued(i) == {k \in DOMAIN queue : queue[k] = i}

Pushers(i) == {r \in Request : req[r].pc = "push" /\ req[r].log = i}

Held(i) == IF worker.pc \in {"find", "file", "send"} /\ worker.log = i THEN 1 ELSE 0

\* The Downloads sent for row i, and what may still become one.
Copies(i) ==
  Cardinality(Pushers(i)) + Cardinality(Queued(i)) + Held(i) + Cardinality(SendsOf(i))

FewCopies == \A i \in DOMAIN logs : Copies(i) <= 1 + faults["resend"]

CopiesCount ==
  \A i : /\ IsFiniteSet(Pushers(i)) /\ Cardinality(Pushers(i)) \in Nat
         /\ IsFiniteSet(Queued(i)) /\ Cardinality(Queued(i)) \in Nat
         /\ IsFiniteSet(SendsOf(i)) /\ Cardinality(SendsOf(i)) \in Nat
         /\ Held(i) \in {0, 1}

LEMMA CopiesFinite == IInv => CopiesCount
<1> SUFFICES ASSUME IInv, NEW i
             PROVE  /\ IsFiniteSet(Pushers(i)) /\ Cardinality(Pushers(i)) \in Nat
                    /\ IsFiniteSet(Queued(i)) /\ Cardinality(Queued(i)) \in Nat
                    /\ IsFiniteSet(SendsOf(i)) /\ Cardinality(SendsOf(i)) \in Nat
                    /\ Held(i) \in {0, 1}
  BY DEF CopiesCount
<1>1. DOMAIN queue = 1..Len(queue) /\ Len(queue) \in Nat
  BY DEF IInv, LogPart
<1>2. DOMAIN sent = 1..Len(sent) /\ Len(sent) \in Nat
  BY DEF IInv, LogPart
<1>3. IsFiniteSet(DOMAIN queue) /\ IsFiniteSet(DOMAIN sent) /\ IsFiniteSet(Request)
  BY <1>1, <1>2, FS_Interval, TasksAssumption
<1>4. /\ Queued(i) \subseteq DOMAIN queue /\ SendsOf(i) \subseteq DOMAIN sent
      /\ Pushers(i) \subseteq Request
  BY DEF Queued, SendsOf, Pushers
<1> QED BY <1>3, <1>4, Fewer DEF Held

\* The rows are kept, and none gets more copies than LPUSHes are sent twice.
LEMMA CopiesKept ==
  ASSUME IInv, IInv', FewCopies, [Next]_vars, DOMAIN logs' = DOMAIN logs,
         \A i \in DOMAIN logs :
           \/ Copies(i)' <= Copies(i)
           \/ Copies(i)' <= Copies(i) + 1 /\ Fail("resend")
  PROVE  FewCopies'
<1>1. CopiesCount /\ CopiesCount'
  BY CopiesFinite, PTL
<1>2. \A i \in DOMAIN logs : Copies(i) \in Nat /\ Copies(i)' \in Nat
  BY <1>1 DEF CopiesCount, Copies
<1>3. /\ faults["resend"] \in Nat /\ faults'["resend"] \in Nat /\ faults'["resend"] >= faults["resend"]
      /\ Fail("resend") => faults'["resend"] = faults["resend"] + 1
  BY FaultsGrow, FailTyped DEF Fault, IInv
<1>4. \A i \in DOMAIN logs : Copies(i) <= 1 + faults["resend"]
  BY DEF FewCopies
<1> QED BY <1>2, <1>3, <1>4 DEF FewCopies

\* Nothing is pushed, taken or sent; messages in hand may be dropped.
LEMMA CopiesRest ==
  ASSUME IInv, IInv', FewCopies, [Next]_vars, DOMAIN logs' = DOMAIN logs, UNCHANGED <<queue, sent>>,
         worker'.pc \in {"find", "file", "send"} =>
           worker.pc \in {"find", "file", "send"} /\ worker'.log = worker.log,
         \A q \in Request : req'[q].pc = "push" => req'[q] = req[q]
  PROVE  FewCopies'
<1> SUFFICES ASSUME NEW i \in DOMAIN logs PROVE Copies(i)' <= Copies(i)
  BY CopiesKept
<1>1. CopiesCount
  BY CopiesFinite
<1>2. Queued(i)' = Queued(i) /\ SendsOf(i)' = SendsOf(i) /\ Pushers(i)' \subseteq Pushers(i)
  BY DEF Queued, SendsOf, Pushers
<1>3. Held(i)' \in {0, 1} /\ Held(i)' <= Held(i)
  BY DEF Held
<1>4. Cardinality(Pushers(i))' <= Cardinality(Pushers(i)) /\ Cardinality(Pushers(i))' \in Nat
  BY <1>1, <1>2, Fewer DEF CopiesCount
<1> QED BY <1>1, <1>2, <1>3, <1>4 DEF CopiesCount, Copies

\* A row is made, and its maker is the only one to have it.
LEMMA CopiesMade ==
  ASSUME IInv, IInv', FewCopies, [Next]_vars, UNCHANGED <<queue, sent, worker>>,
         NEW row, logs' = Append(logs, row),
         NEW r \in Request, req[r].pc # "push",
         NEW n, Become(r, n), n.pc = "push" => n.log = Len(logs) + 1
  PROVE  FewCopies'
<1> DEFINE i == Len(logs) + 1
<1>1. /\ logs \in Seq(Log) /\ DOMAIN logs' = DOMAIN logs \cup {i} /\ i \notin DOMAIN logs /\ i # 0
  BY DEF IInv, LogPart
<1>2. \A q \in Request : req'[q] = IF q = r THEN n ELSE req[q]
  BY OthersWait DEF IInv
<1>3. /\ \A k \in DOMAIN queue : queue[k] \in DOMAIN logs
      /\ \A k \in DOMAIN sent : sent[k].log \in DOMAIN logs
      /\ worker.log \in {0} \cup DOMAIN logs
      /\ \A q \in Request : req[q].pc = "push" => req[q].log \in DOMAIN logs
  <2>1. \A k \in DOMAIN sent : sent[k] \in [log : DOMAIN logs, to : Element \cup {Nobody}]
    BY SeqElements DEF IInv, LogPart
  <2>2. \A k \in DOMAIN queue : queue[k] \in DOMAIN logs
    BY SeqElements DEF IInv, LogPart
  <2> QED BY <2>1, <2>2 DEF IInv, WorkerPart, ReqPart
<1>4. CopiesCount
  BY CopiesFinite
<1>5. faults["resend"] \in Nat /\ faults'["resend"] \in Nat /\ faults'["resend"] >= faults["resend"]
  BY FaultsGrow DEF Fault
<1>6. ASSUME NEW j, j = i PROVE Copies(j)' <= 1
  <2>1. Queued(j)' = {} /\ SendsOf(j)' = {} /\ Held(j)' = 0
    BY <1>1, <1>3, <1>6 DEF Queued, SendsOf, Held
  <2>2. Pushers(j)' \subseteq {r}
    BY <1>1, <1>2, <1>3, <1>6 DEF Pushers
  <2>3. Cardinality(Queued(j)') = 0 /\ Cardinality(SendsOf(j)') = 0
    BY <2>1, FS_EmptySet
  <2>4. Cardinality(Pushers(j)') \in Nat /\ Cardinality(Pushers(j)') <= 1
    BY <2>2, AtMostOne
  <2> QED BY <2>1, <2>3, <2>4 DEF Copies
<1>7. ASSUME NEW j \in DOMAIN logs PROVE Copies(j)' <= Copies(j) /\ Copies(j)' \in Nat
  <2>1. Queued(j)' = Queued(j) /\ SendsOf(j)' = SendsOf(j) /\ Held(j)' = Held(j)
    BY DEF Queued, SendsOf, Held
  <2>2. Pushers(j)' \subseteq Pushers(j)
    BY <1>1, <1>2, <1>7 DEF Pushers
  <2>3. Cardinality(Pushers(j))' <= Cardinality(Pushers(j)) /\ Cardinality(Pushers(j))' \in Nat
    BY <1>4, <2>2, Fewer DEF CopiesCount
  <2> QED BY <1>4, <2>1, <2>3 DEF CopiesCount, Copies
<1>8. ASSUME NEW j \in DOMAIN logs PROVE Copies(j)' <= 1 + faults'["resend"]
  <2>1. Copies(j) <= 1 + faults["resend"] /\ Copies(j) \in Nat
    BY <1>4 DEF FewCopies, CopiesCount, Copies
  <2> QED BY <1>5, <1>7, <2>1
<1>9. CopiesCount'
  BY CopiesFinite, PTL
<1> HIDE DEF i
<1>10. ASSUME NEW j \in DOMAIN logs' PROVE Copies(j)' <= 1 + faults'["resend"]
  <2>1. CASE j \in DOMAIN logs
    BY <1>8, <2>1
  <2>2. CASE j = i
    <3>1. Copies(j)' <= 1
      BY <1>6, <2>2
    <3>2. Copies(j)' \in Nat
      BY <1>9 DEF CopiesCount, Copies
    <3> QED BY <1>5, <3>1, <3>2
  <2> QED BY <1>1, <2>1, <2>2
<1> QED BY <1>10 DEF FewCopies

\* What a sequence gets at its end.
LEMMA PutOnce ==
  ASSUME NEW S, NEW s \in Seq(S), NEW x \in S
  PROVE  \A k \in DOMAIN Append(s, x) :
           \/ k \in DOMAIN s /\ Append(s, x)[k] = s[k]
           \/ k = Len(s) + 1 /\ Append(s, x)[k] = x
OBVIOUS

LEMMA PutTwice ==
  ASSUME NEW S, NEW s \in Seq(S), NEW x \in S
  PROVE  \A k \in DOMAIN (s \o <<x, x>>) :
           \/ k \in DOMAIN s /\ (s \o <<x, x>>)[k] = s[k]
           \/ k \in {Len(s) + 1, Len(s) + 2} /\ (s \o <<x, x>>)[k] = x
<1>1. <<x, x>> \in Seq(S) /\ Len(<<x, x>>) = 2 /\ <<x, x>>[1] = x /\ <<x, x>>[2] = x
  OBVIOUS
<1>2. DOMAIN (s \o <<x, x>>) = 1..(Len(s) + 2) /\ DOMAIN s = 1..Len(s) /\ Len(s) \in Nat
  BY <1>1
<1>3. \A k \in DOMAIN s : (s \o <<x, x>>)[k] = s[k]
  BY <1>1, <1>2
<1>4. (s \o <<x, x>>)[Len(s) + 1] = x
  BY <1>1, <1>2
<1>5. (s \o <<x, x>>)[Len(s) + 2] = x
  BY <1>1, <1>2
<1> QED BY <1>2, <1>3, <1>4, <1>5

LEMMA TwoMore ==
  ASSUME NEW A, IsFiniteSet(A), NEW x, NEW y, NEW B, B \subseteq A \cup {x, y}
  PROVE  /\ Cardinality(B) \in Nat /\ Cardinality(A) \in Nat
         /\ Cardinality(B) <= Cardinality(A) + 2
<1> DEFINE C == A \cup {x}
<1>1. IsFiniteSet(C) /\ Cardinality(C) \in Nat /\ Cardinality(A) \in Nat
      /\ Cardinality(C) <= Cardinality(A) + 1
  BY OneMore
<1>2. B \subseteq C \cup {y}
  OBVIOUS
<1> HIDE DEF C
<1>3. Cardinality(B) \in Nat /\ Cardinality(B) <= Cardinality(C) + 1
  BY <1>1, <1>2, OneMore
<1> QED BY <1>1, <1>3

\* From the request to the queue.
LEMMA CopiesPushed ==
  ASSUME IInv, IInv', FewCopies, [Next]_vars, NEW r \in Request, PushMessage(r)
  PROVE  FewCopies'
<1> DEFINE n == [req[r] EXCEPT !.pc = "dispatch", !.log = 0]
           x == req[r].log
<1>1. /\ UNCHANGED <<logs, sent, worker>> /\ req[r].pc = "push" /\ Become(r, n)
      /\ \/ queue' = queue \/ queue' = Append(queue, x)
         \/ queue' = queue \o <<x, x>> /\ Fail("resend")
  BY RequestFrameParts DEF PushMessage
<1>2. n.pc = "dispatch"
  BY HasPushed DEF IInv
<1>3. x \in DOMAIN logs /\ queue \in Seq(DOMAIN logs) /\ x = req[r].log
  BY <1>1 DEF IInv, ReqPart, LogPart
<1> HIDE DEF n, x
<1>4. \A q \in Request : req'[q] = IF q = r THEN n ELSE req[q]
  BY <1>1, OthersWait DEF IInv
<1>5. CopiesCount
  BY CopiesFinite
<1> SUFFICES ASSUME NEW i \in DOMAIN logs
             PROVE  \/ Copies(i)' <= Copies(i)
                    \/ Copies(i)' <= Copies(i) + 1 /\ Fail("resend")
  BY <1>1, CopiesKept
<1>6. SendsOf(i)' = SendsOf(i) /\ Held(i)' = Held(i)
  BY <1>1 DEF SendsOf, Held
<1>7. ASSUME queue' = Append(queue, x)
      PROVE  Queued(i)' \subseteq Queued(i) \cup (IF i = x THEN {Len(queue) + 1} ELSE {})
  <2>1. \A k \in DOMAIN queue' : \/ k \in DOMAIN queue /\ queue'[k] = queue[k]
                                 \/ k = Len(queue) + 1 /\ queue'[k] = x
    BY <1>3, <1>7, PutOnce
  <2> QED BY <2>1 DEF Queued
<1>8. ASSUME queue' = queue \o <<x, x>>
      PROVE  Queued(i)' \subseteq Queued(i) \cup (IF i = x THEN {Len(queue) + 1, Len(queue) + 2} ELSE {})
  <2>1. \A k \in DOMAIN queue' : \/ k \in DOMAIN queue /\ queue'[k] = queue[k]
                                 \/ k \in {Len(queue) + 1, Len(queue) + 2} /\ queue'[k] = x
    BY <1>3, <1>8, PutTwice
  <2> QED BY <2>1 DEF Queued
<1>9. CASE i = x
  <2>1. r \in Pushers(i) /\ Pushers(i)' \subseteq Pushers(i) \ {r}
    BY <1>1, <1>2, <1>3, <1>4, <1>9 DEF Pushers
  <2>2. /\ Cardinality(Pushers(i))' <= Cardinality(Pushers(i)) - 1
        /\ Cardinality(Pushers(i))' \in Nat
    BY <1>5, <2>1, OneLess DEF CopiesCount
  <2>3. CASE queue' = queue \/ queue' = Append(queue, x)
    <3>1. Queued(i)' \subseteq Queued(i) \cup {Len(queue) + 1}
      BY <1>7, <1>9, <2>3 DEF Queued
    <3>2. Cardinality(Queued(i))' \in Nat /\ Cardinality(Queued(i))' <= Cardinality(Queued(i)) + 1
      BY <1>5, <3>1, OneMore DEF CopiesCount
    <3> QED BY <1>5, <1>6, <2>2, <3>2 DEF CopiesCount, Copies
  <2>4. CASE queue' = queue \o <<x, x>> /\ Fail("resend")
    <3>1. Queued(i)' \subseteq Queued(i) \cup {Len(queue) + 1, Len(queue) + 2}
      BY <1>8, <1>9, <2>4
    <3>2. Cardinality(Queued(i))' \in Nat /\ Cardinality(Queued(i))' <= Cardinality(Queued(i)) + 2
      <4>1. IsFiniteSet(Queued(i))
        BY <1>5 DEF CopiesCount
      <4> QED BY <3>1, <4>1, TwoMore
    <3>3. Cardinality(Pushers(i)) \in Nat /\ Cardinality(Queued(i)) \in Nat
          /\ Held(i) \in Int /\ Cardinality(SendsOf(i)) \in Nat
      BY <1>5 DEF CopiesCount
    <3>4. Copies(i)' <= Copies(i) + 1
      BY <1>6, <2>2, <3>2, <3>3 DEF Copies
    <3> QED BY <2>4, <3>4
  <2> QED BY <1>1, <2>3, <2>4
<1>10. CASE i # x
  <2>1. Pushers(i)' \subseteq Pushers(i)
    BY <1>2, <1>4 DEF Pushers
  <2>2. Queued(i)' \subseteq Queued(i)
    BY <1>1, <1>7, <1>8, <1>10 DEF Queued
  <2>3. /\ Cardinality(Pushers(i))' <= Cardinality(Pushers(i))
        /\ Cardinality(Queued(i))' <= Cardinality(Queued(i))
        /\ Cardinality(Pushers(i))' \in Nat /\ Cardinality(Queued(i))' \in Nat
    BY <1>5, <2>1, <2>2, Fewer DEF CopiesCount
  <2> QED BY <1>5, <1>6, <2>3 DEF CopiesCount, Copies
<1> QED BY <1>9, <1>10

\* From the queue to the worker, or to nowhere.
LEMMA CopiesTaken ==
  ASSUME IInv, IInv', FewCopies, [Next]_vars, Pop
  PROVE  FewCopies'
<1>1. queue \in Seq(DOMAIN logs) /\ queue # <<>> /\ queue' = Tail(queue)
      /\ UNCHANGED <<logs, sent, req>> /\ worker.pc = "rest"
  BY RestFields DEF Pop, IInv, LogPart, WorkerFrame
<1>2. 1 \in DOMAIN queue /\ Head(queue) = queue[1]
      /\ \A k \in DOMAIN queue' : k + 1 \in DOMAIN queue \ {1} /\ queue'[k] = queue[k + 1] /\ k \in Int
  BY <1>1
<1>3. worker'.pc = "rest" \/ (worker'.pc = "find" /\ worker'.log = queue[1])
  <2>1. Resting \in [pc : {"rest", "find", "file", "send", "mark", "fail"},
                     log : {0} \cup DOMAIN logs, row : Log, to : Element \cup {Nobody}]
    BY RestingState DEF IInv, RestPart
  <2>2. CASE UNCHANGED worker
    BY <1>1, <2>2
  <2>3. CASE worker' = [Resting EXCEPT !.pc = "find", !.log = Head(queue)]
    BY <1>2, <2>1, <2>3
  <2> QED BY <2>2, <2>3 DEF Pop
<1>4. CopiesCount
  BY CopiesFinite
<1> SUFFICES ASSUME NEW i \in DOMAIN logs PROVE Copies(i)' <= Copies(i)
  BY <1>1, CopiesKept
<1>5. /\ SendsOf(i)' = SendsOf(i) /\ Pushers(i)' = Pushers(i) /\ Held(i) = 0
      /\ Held(i)' = 0 \/ (Held(i)' = 1 /\ queue[1] = i)
  BY <1>1, <1>3 DEF SendsOf, Pushers, Held
<1>6. ASSUME NEW T, IsFiniteSet(T), \A k \in Queued(i)' : k + 1 \in T
      PROVE  Cardinality(Queued(i))' <= Cardinality(T) /\ Cardinality(Queued(i))' \in Nat
  <2> DEFINE f == [k \in Queued(i)' |-> k + 1]
  <2>1. \A k \in Queued(i)' : k \in Int
    BY <1>2 DEF Queued
  <2>2. f \in [Queued(i)' -> T] /\ \A k, l \in Queued(i)' : f[k] = f[l] => k = l
    BY <1>6, <2>1
  <2>3. f \in Injection(Queued(i)', T)
    BY <2>2 DEF Injection, IsInjective
  <2> HIDE DEF f
  <2>4. IsFiniteSet(Queued(i)') /\ Cardinality(Queued(i)') <= Cardinality(T)
    BY <1>6, <2>3, FS_Injection
  <2> QED BY <2>4, FS_CardinalityType
<1>7. \A k \in Queued(i)' : k + 1 \in Queued(i) \ {1}
  BY <1>2 DEF Queued
<1>8. CASE queue[1] = i
  <2>1. 1 \in Queued(i)
    BY <1>2, <1>8 DEF Queued
  <2>2. IsFiniteSet(Queued(i) \ {1}) /\ Cardinality(Queued(i) \ {1}) <= Cardinality(Queued(i)) - 1
        /\ Cardinality(Queued(i) \ {1}) \in Nat
    BY <1>4, <2>1, OneLess, Fewer DEF CopiesCount
  <2>3. Cardinality(Queued(i))' <= Cardinality(Queued(i) \ {1}) /\ Cardinality(Queued(i))' \in Nat
    BY <1>6, <1>7, <2>2
  <2> QED BY <1>4, <1>5, <2>2, <2>3 DEF CopiesCount, Copies
<1>9. CASE queue[1] # i
  <2>1. Cardinality(Queued(i))' <= Cardinality(Queued(i)) /\ Cardinality(Queued(i))' \in Nat
    BY <1>4, <1>6, <1>7 DEF CopiesCount
  <2> QED BY <1>4, <1>5, <1>9, <2>1 DEF CopiesCount, Copies
<1> QED BY <1>8, <1>9

\* The Download of the row in hand is sent.
LEMMA CopiesSent ==
  ASSUME IInv, IInv', FewCopies, [Next]_vars, SendDownload
  PROVE  FewCopies'
<1> DEFINE S == [log : DOMAIN logs, to : Element \cup {Nobody}]
           x == [log |-> worker.log, to |-> worker.to]
<1>1. /\ UNCHANGED <<logs, queue, req>> /\ worker.pc = "send"
      /\ worker' = [worker EXCEPT !.pc = "mark"] \/ worker' = [worker EXCEPT !.pc = "fail"]
      /\ \/ sent' = sent \/ sent' = Append(sent, x)
         \/ sent' = sent \o <<x, x>> /\ Fail("resend")
  BY DEF SendDownload, WorkerFrame
<1>2. /\ sent \in Seq(S) /\ x \in S /\ x.log = worker.log
      /\ worker'.pc = "mark" \/ worker'.pc = "fail"
  <2>1. worker \in [pc : {"rest", "find", "file", "send", "mark", "fail"},
                    log : {0} \cup DOMAIN logs, row : Log, to : Element \cup {Nobody}]
    BY DEF IInv, WorkerPart
  <2>2. worker'.pc = "mark" \/ worker'.pc = "fail"
    BY <1>1, <2>1
  <2>3. worker.log \in DOMAIN logs /\ worker.to \in Element \cup {Nobody}
    BY <1>1, <2>1 DEF IInv, WorkerPart
  <2> QED BY <2>2, <2>3 DEF IInv, LogPart
<1> HIDE DEF S, x
<1>3. CopiesCount
  BY CopiesFinite
<1> SUFFICES ASSUME NEW i \in DOMAIN logs
             PROVE  \/ Copies(i)' <= Copies(i)
                    \/ Copies(i)' <= Copies(i) + 1 /\ Fail("resend")
  BY <1>1, CopiesKept
<1>4. Queued(i)' = Queued(i) /\ Pushers(i)' = Pushers(i) /\ Held(i)' = 0
  BY <1>1, <1>2 DEF Queued, Pushers, Held
<1>5. ASSUME sent' = Append(sent, x)
      PROVE  SendsOf(i)' \subseteq SendsOf(i) \cup (IF i = worker.log THEN {Len(sent) + 1} ELSE {})
  <2>1. \A k \in DOMAIN sent' : \/ k \in DOMAIN sent /\ sent'[k] = sent[k]
                                \/ k = Len(sent) + 1 /\ sent'[k] = x
    BY <1>2, <1>5, PutOnce
  <2> QED BY <1>2, <2>1 DEF SendsOf
<1>6. ASSUME sent' = sent \o <<x, x>>
      PROVE  SendsOf(i)' \subseteq SendsOf(i) \cup (IF i = worker.log THEN {Len(sent) + 1, Len(sent) + 2} ELSE {})
  <2>1. \A k \in DOMAIN sent' : \/ k \in DOMAIN sent /\ sent'[k] = sent[k]
                                \/ k \in {Len(sent) + 1, Len(sent) + 2} /\ sent'[k] = x
    BY <1>2, <1>6, PutTwice
  <2> QED BY <1>2, <2>1 DEF SendsOf
<1>7. CASE i = worker.log
  <2>1. Held(i) = 1
    BY <1>1, <1>7 DEF Held
  <2>2. CASE sent' = sent \/ sent' = Append(sent, x)
    <3>1. SendsOf(i)' \subseteq SendsOf(i) \cup {Len(sent) + 1}
      BY <1>5, <1>7, <2>2 DEF SendsOf
    <3>2. Cardinality(SendsOf(i))' \in Nat /\ Cardinality(SendsOf(i))' <= Cardinality(SendsOf(i)) + 1
      BY <1>3, <3>1, OneMore DEF CopiesCount
    <3> QED BY <1>3, <1>4, <2>1, <3>2 DEF CopiesCount, Copies
  <2>3. CASE sent' = sent \o <<x, x>> /\ Fail("resend")
    <3>1. SendsOf(i)' \subseteq SendsOf(i) \cup {Len(sent) + 1, Len(sent) + 2}
      BY <1>6, <1>7, <2>3
    <3>2. Cardinality(SendsOf(i))' \in Nat /\ Cardinality(SendsOf(i))' <= Cardinality(SendsOf(i)) + 2
      BY <1>3, <3>1, TwoMore DEF CopiesCount
    <3> QED BY <1>3, <1>4, <2>1, <2>3, <3>2 DEF CopiesCount, Copies
  <2> QED BY <1>1, <2>2, <2>3
<1>8. CASE i # worker.log
  <2>1. SendsOf(i)' \subseteq SendsOf(i)
    BY <1>1, <1>5, <1>6, <1>8 DEF SendsOf
  <2>2. Cardinality(SendsOf(i))' <= Cardinality(SendsOf(i)) /\ Cardinality(SendsOf(i))' \in Nat
    BY <1>3, <2>1, Fewer DEF CopiesCount
  <2> QED BY <1>3, <1>4, <2>2 DEF CopiesCount, Copies
<1> QED BY <1>7, <1>8

LEMMA CopiesNext == IInv /\ IInv' /\ FewCopies /\ [Next]_vars => FewCopies'
<1> SUFFICES ASSUME IInv, IInv', FewCopies, [Next]_vars PROVE FewCopies'
  OBVIOUS
<1>1. ASSUME NEW r \in Request, Begin(r) \/ Work(r) PROVE FewCopies'
  <2>1. CASE PushMessage(r)
    BY <2>1, CopiesPushed
  <2>2. CASE MakesRow(r)
    <3>1. Dispatches(r) /\ UNCHANGED <<sent, queue, worker>> /\ req[r].next \in DOMAIN elementIds
          /\ req[r].pc # "push"
      BY <2>2, RowMade, EntryType DEF Dispatches
    <3>2. NextEntry(r).pc # "push" /\ WithRow(r).log = Len(logs) + 1
      BY <3>1, EntryType
    <3>3. CASE UNCHANGED logs /\ Become(r, NextEntry(r))
      <4>1. \A q \in Request : req'[q].pc = "push" => req'[q] = req[q]
        BY <3>2, <3>3, OthersWait DEF IInv
      <4> QED BY <3>1, <3>3, <4>1, CopiesRest
    <3>4. CASE logs' = Append(logs, NewLog(req[r].next)) /\ Become(r, WithRow(r))
      BY <3>1, <3>2, <3>4, CopiesMade
    <3>5. CASE /\ logs' = Append(logs, [NewLog(req[r].next) EXCEPT !.done = TRUE])
               /\ Become(r, NextEntry(r))
      BY <3>1, <3>2, <3>5, CopiesMade
    <3> QED BY <2>2, <3>3, <3>4, <3>5, RowMade
  <2> QED BY <1>1, <2>1, <2>2, RequestsQuiet, CopiesRest
<1>2. CASE WorkerStep
  <2>1. worker \in [pc : {"rest", "find", "file", "send", "mark", "fail"},
                    log : {0} \cup DOMAIN logs, row : Log, to : Element \cup {Nobody}]
    BY DEF IInv, WorkerPart
  <2>2. UNCHANGED req
    BY <1>2, WorkerRest
  <2>3. CASE Find
    <3>1. UNCHANGED <<logs, sent, queue>> /\ worker.pc = "find"
      BY <2>3 DEF Find
    <3>2. worker'.pc \in {"find", "file", "send"} => worker'.log = worker.log
      <4>1. CASE worker' = Resting
        BY <4>1, RestFields
      <4>2. CASE worker' # Resting
        BY <2>1, <2>3, <4>2 DEF Find
      <4> QED BY <4>1, <4>2
    <3> QED BY <2>2, <3>1, <3>2, CopiesRest
  <2>4. CASE FindFile
    <3>1. UNCHANGED <<logs, sent, queue>> /\ worker.pc = "file" /\ worker'.log = worker.log
      BY <2>1, <2>4 DEF FindFile
    <3> QED BY <2>2, <3>1, CopiesRest
  <2>5. CASE MarkDownloaded \/ MarkFailed
    <3>1. UNCHANGED <<sent, queue>> /\ worker'.pc = "rest" /\ DOMAIN logs' = DOMAIN logs
      <4>1. logs \in Seq(Log)
        BY DEF IInv, LogPart
      <4> QED BY <2>5, <4>1, RestFields DEF MarkDownloaded, MarkFailed
    <3> QED BY <2>2, <3>1, CopiesRest
  <2> QED BY <1>2, <2>3, <2>4, <2>5, CopiesTaken, CopiesSent DEF WorkerStep
<1>3. CASE Crash
  <2>1. UNCHANGED <<logs, sent, queue>> /\ worker' = Resting /\ \A q \in Request : req'[q] = Idle
    BY <1>3 DEF Crash
  <2>2. worker'.pc = "rest" /\ \A q \in Request : req'[q].pc # "push"
    BY <2>1, RestFields, IdleState
  <2> QED BY <2>1, <2>2, CopiesRest
<1>4. CASE \/ DeleteTask \/ StartLockExpires \/ CancelLockExpires \/ DeleteUpgradeFile
           \/ UNCHANGED vars \/ \E e \in Element : DeleteDevice(e)
  <2>1. UNCHANGED <<logs, sent, queue, worker, req>>
    BY <1>4, RequestFrameParts DEF DeleteTask, StartLockExpires, CancelLockExpires,
       DeleteUpgradeFile, DeleteDevice, workVars, vars
  <2> QED BY <2>1, CopiesRest
<1> QED BY <1>1, <1>2, <1>3, <1>4 DEF Next

LEMMA CopiesInit == Init => FewCopies
<1>1. Init => DOMAIN logs = {}
  BY DEF Init
<1> QED BY <1>1 DEF FewCopies

-----------------------------------------------------------------------------
(* The theorems *)

LEMMA Invariance == Spec => []IInv
<1>1. Init => IInv
  BY InitInv
<1>2. IInv /\ [Next]_vars => IInv'
  BY NextInv
<1> QED BY <1>1, <1>2, PTL DEF Spec

\* Requests, messages and the worker only ever know rows that were made: nothing
\* is pushed for an insert that failed (CreateUpgradeLog in the dispatch loop).
THEOREM TypeCorrect == Spec => []TypeOK
<1>1. IInv => TypeOK
  BY DEF IInv, ReqPart, LogPart, WorkerPart, RestPart, TypeOK, ReqState, ReqPc
<1> QED BY <1>1, Invariance, PTL

\* A row that reports the Download of the file has one that was sent, to its device
\* or to nobody when the device had been deleted (SendDownload, MarkDownloaded).
THEOREM RealDownload == Spec => []DownloadIsReal
<1>1. IInv => DownloadIsReal
  BY DEF IInv
<1> QED BY <1>1, Invariance, PTL

\* The start lock keeps all but one request out, and one more for every time it
\* expired under a holder, although its holders delete it whoever has it by now.
THEOREM OneStarts == Spec => []StartIsExclusive
<1>1. IInv /\ Exclusive => StartIsExclusive
  <2> SUFFICES ASSUME IInv, Exclusive PROVE StartIsExclusive
    OBVIOUS
  <2>1. faults \in [Fault -> Nat]
    BY DEF IInv, RestPart
  <2>2. faults["lockTTL"] \in Nat
    BY <2>1 DEF Fault
  <2> QED BY <2>2, StartingFinite DEF Exclusive, StartIsExclusive
<1> QED BY <1>1, ExclusiveInit, ExclusiveNext, Invariance, PTL DEF Spec

\* Without errors and repetitions of pushes, a row that reports a failure is about
\* a Download that was not sent: a message is in one place at a time, from the
\* request over the queue to the worker.
THEOREM HonestFailure == Spec => []FailureIsHonest
<1>1. (Quiet => OneToken) => FailureIsHonest
  BY DEF Quiet, OneToken, FailedUnsent, FailureIsHonest
<1> QED BY <1>1, TokenInit, TokenNext, Invariance, PTL DEF Spec

\* A task that is cancelled with no request in progress is never started again.
THEOREM CancelStands == Spec => CancelledForGood
<1>1. (status = "cancelled" /\ \A r \in Request : req[r] = Idle) => Over
  BY IdleState DEF Over
<1>2. Over => status \in {"cancelled", "gone"}
  BY DEF Over
<1>3. IInv /\ Over /\ [Next]_vars => Over'
  BY OverNext
<1> QED BY <1>1, <1>2, <1>3, Invariance, PTL DEF Spec, CancelledForGood

\* An entry of the list gets one row, and one more for each save that failed, unless
\* two requests had seen the task waiting before either took the lock; then it gets
\* one from each request at the most (Start{Upgrade,Rollback,Reboot,Reset}Task).
THEOREM OneDispatch == Spec => []DispatchedOnce
<1>1. IInv /\ Round => DispatchedOnce
  <2> SUFFICES ASSUME IInv, Round, NEW p \in DOMAIN elementIds
               PROVE  Cardinality(RowsAt(p)) <= Limit
    BY DEF DispatchedOnce, Limit
  <2>1. Cardinality(RowsAt(p)) \in Nat /\ Cardinality(Owing(p)) \in Nat
        /\ Cardinality(Request) \in Nat /\ faults["db"] \in Nat
    BY RoundFinite DEF IInv, RestPart, Fault
  <2>2. Cardinality(RowsAt(p)) + Cardinality(Owing(p)) <= Limit
    BY DEF Round, WithinLimit
  <2> QED BY <2>1, <2>2 DEF Limit
<1> QED BY <1>1, RoundInit, RoundNext, ExclusiveInit, ExclusiveNext, Invariance, PTL DEF Spec

\* One Download is sent for a row, and one more for each LPUSH that the client has sent
\* twice: its message is with one request, once in the queue or with the worker
\* (the dispatch loops, UpgradeWorker.processMessage).
THEOREM OneDownload == Spec => []SentOnce
<1>1. IInv /\ FewCopies => SentOnce
  <2> SUFFICES ASSUME IInv, FewCopies, NEW i \in DOMAIN logs
               PROVE  Cardinality(SendsOf(i)) <= 1 + faults["resend"]
    BY DEF SentOnce
  <2>1. CopiesCount /\ faults["resend"] \in Nat
    BY CopiesFinite DEF IInv, RestPart, Fault
  <2>2. Copies(i) <= 1 + faults["resend"]
    BY DEF FewCopies
  <2> QED BY <2>1, <2>2 DEF CopiesCount, Copies
<1> QED BY <1>1, CopiesInit, CopiesNext, Invariance, PTL DEF Spec

=============================================================================
