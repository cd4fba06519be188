------------------------- MODULE ZtpProvision_proofs -------------------------
(***************************************************************************)
(* Theorems about ZtpProvision for every number of attempts, of faults and *)
(* of results that are processed at a time.                                *)
(***************************************************************************)
EXTENDS ZtpProvision, FiniteSetTheorems, TLAPS

-----------------------------------------------------------------------------
(* The inductive invariant *)

\* There is at most one row per request; that of the attempt in hand is the last.
Counted ==
  /\ Len(logs) + queue + (IF worker.pc = "check" THEN 1 ELSE 0) <= asked
  /\ worker.pc \in {"send", "mark", "close"} => worker.log # 0
  /\ worker.log # 0 => worker.log = Len(logs)

\* What is about to be marked as sent has been sent.
Marked == worker.pc = "mark" => worker.log \in sent

\* One attempt at a time: only the last can be open, or wait for the device.
InTurn ==
  ~overlap =>
    /\ Open \subseteq {Len(logs)}
    /\ \A i \in sent : answer[i] = "none" => i = Len(logs)

\* A good result found the attempt that it answers.
FoundOwn ==
  ~overlap /\ faults["again"] = 0 =>
    \A h \in Handler : handler[h].pc = "ok" /\ handler[h].log # 0 =>
      answer[handler[h].log] = "ok"

IInv ==
  /\ TypeOK
  /\ Counted
  /\ Marked
  /\ InTurn
  /\ FoundOwn
  /\ SuccessIsOwn
  /\ SuccessIsShown

WorkerType == [pc : {"rest", "check", "send", "mark", "close", "retry"}, log : {0} \cup DOMAIN logs]

HandlerType == [pc : {"idle", "ok", "failed", "retry"}, log : {0} \cup DOMAIN logs]

\* A fault counts up one counter.
LEMMA FailCounts ==
  ASSUME TypeOK, NEW f \in Fault, Fail(f)
  PROVE  /\ faults' \in [Fault -> Nat]
         /\ faults'["again"] = 0 => faults["again"] = 0 /\ f # "again"
<1>1. faults' = [faults EXCEPT ![f] = faults[f] + 1]
  BY Zenon DEF Fail
<1>2. faults \in [Fault -> Nat] /\ "again" \in Fault
  BY DEF TypeOK, Fault
<1> QED BY <1>1, <1>2

\* Updating a row by its id.
LEMMA RowUpdated ==
  ASSUME TypeOK, NEW i \in DOMAIN logs, NEW row \in Log, UpdateRow(i, row)
  PROVE  /\ logs' \in Seq(Log) /\ Len(logs') = Len(logs) /\ DOMAIN logs' = DOMAIN logs
         /\ \A j \in DOMAIN logs : j # i => logs'[j] = logs[j]
         /\ logs'[i] = IF logs[i].live THEN row ELSE logs[i]
<1> DEFINE new == IF logs[i].live THEN row ELSE logs[i]
<1>1. logs' = [logs EXCEPT ![i] = new]
  BY DEF UpdateRow
<1>2. logs \in Seq(Log) /\ DOMAIN logs = 1..Len(logs) /\ Len(logs) \in Nat
      /\ logs \in [1..Len(logs) -> Log]
  BY DEF TypeOK
<1>3. new \in Log
  BY <1>2
<1> HIDE DEF new
<1>4. logs' \in [1..Len(logs) -> Log]
  BY <1>1, <1>2, <1>3
<1>5. logs' \in Seq(Log) /\ Len(logs') = Len(logs)
  BY <1>2, <1>4
<1> QED BY <1>1, <1>2, <1>4, <1>5 DEF new

\* The rows have the fields of a row.
LEMMA RowTyped ==
  ASSUME TypeOK
  PROVE  \A i \in DOMAIN logs : logs[i] \in Log
BY DEF TypeOK

\* What the steps write into a row.
LEMMA RowEdits ==
  ASSUME NEW r \in Log
  PROVE  /\ \A p \in {3, 4, 5} : [r EXCEPT !.progress = p] \in Log
                               /\ [r EXCEPT !.progress = p].done = r.done
                               /\ [r EXCEPT !.progress = p].fault = r.fault
                               /\ [r EXCEPT !.progress = p].live = r.live
         /\ [r EXCEPT !.progress = 6, !.done = TRUE, !.fault = TRUE] \in Log
         /\ [r EXCEPT !.progress = 6, !.done = TRUE, !.fault = TRUE].fault = TRUE
         /\ [r EXCEPT !.progress = 6, !.done = TRUE, !.fault = TRUE].done = TRUE
         /\ [r EXCEPT !.progress = 6, !.done = TRUE] \in Log
         /\ [r EXCEPT !.progress = 6, !.done = TRUE].progress = 6
         /\ [r EXCEPT !.progress = 6, !.done = TRUE].done = TRUE
         /\ [r EXCEPT !.done = TRUE, !.fault = TRUE] \in Log
         /\ [r EXCEPT !.done = TRUE, !.fault = TRUE].fault = TRUE
         /\ [r EXCEPT !.done = TRUE, !.fault = TRUE].done = TRUE
         /\ [r EXCEPT !.live = FALSE] \in Log
         /\ [r EXCEPT !.live = FALSE].done = r.done
         /\ [r EXCEPT !.live = FALSE].fault = r.fault
         /\ [r EXCEPT !.live = FALSE].progress = r.progress
         /\ [r EXCEPT !.live = FALSE].live = FALSE
         /\ r.done \in BOOLEAN /\ r.fault \in BOOLEAN /\ r.live \in BOOLEAN
BY DEF Log

-----------------------------------------------------------------------------
(* Each step preserves it *)

LEMMA InitInv == Init => IInv
<1> SUFFICES ASSUME Init PROVE IInv
  OBVIOUS
<1> USE ZtpAssumption
<1>1. logs = <<>> /\ DOMAIN logs = {} /\ Len(logs) = 0 /\ logs \in Seq(Log)
  BY DEF Init
<1>2. TypeOK
  <2>1. /\ queue = 0 /\ asked = 0 /\ filed = {} /\ sent = {} /\ late = {} /\ overlap = FALSE
    BY DEF Init
  <2>2. worker \in WorkerType /\ handler \in [Handler -> HandlerType]
    BY DEF Init, Resting, Idle, WorkerType, HandlerType
  <2>3. answer \in [Attempt -> {"none", "ok", "failed"}] /\ faults \in [Fault -> Nat]
    BY DEF Init
  <2>4. /\ queue \in 0..MaxAttempt /\ asked \in 0..MaxAttempt /\ filed \subseteq DOMAIN logs
        /\ Len(logs) + queue <= asked
    BY <1>1, <2>1
  <2>5. overlap \in BOOLEAN /\ sent \subseteq DOMAIN logs /\ late \subseteq sent
    BY <2>1, Zenon
  <2> QED BY <1>1, <2>2, <2>3, <2>4, <2>5 DEF TypeOK, WorkerType, HandlerType
<1>3. Counted
  BY <1>1 DEF Init, Counted, Resting
<1>4. Marked /\ InTurn /\ FoundOwn /\ SuccessIsOwn /\ SuccessIsShown
  BY <1>1 DEF Init, Marked, Resting, InTurn, Open, FoundOwn, SuccessIsOwn, SuccessIsShown, Succeeded, Idle
<1> QED BY <1>2, <1>3, <1>4 DEF IInv

\* The steps that leave the rows and the device alone.
LEMMA RowsKept ==
  ASSUME IInv, UNCHANGED <<logs, sent, answer, overlap, late>>,
         faults' \in [Fault -> Nat], faults'["again"] = 0 => faults["again"] = 0,
         TypeOK', Counted', worker' = worker \/ worker'.pc # "mark",
         \A h \in Handler : handler'[h].pc = "ok" => handler'[h] = handler[h]
  PROVE  IInv'
<1>1. Marked' /\ InTurn' /\ SuccessIsOwn' /\ SuccessIsShown'
  BY DEF IInv, Marked, InTurn, Open, SuccessIsOwn, SuccessIsShown, Succeeded
<1>2. FoundOwn'
  BY DEF IInv, FoundOwn
<1> QED BY <1>1, <1>2 DEF IInv

LEMMA QuietSteps ==
  ASSUME IInv,
         \/ EnqueueZTPProvision \/ Pop \/ Refuse \/ CreateRetryLog \/ Crash
         \/ \E h \in Handler : SaveFaultRetryLog(h)
  PROVE  IInv'
<1>1. UNCHANGED <<logs, sent, answer, overlap, late>>
  BY DEF EnqueueZTPProvision, Pop, Refuse, CreateRetryLog, Crash, SaveFaultRetryLog,
         WorkerFrame, EventFrame, workVars
<1>2. /\ faults' \in [Fault -> Nat]
      /\ faults'["again"] = 0 => faults["again"] = 0
  <2>1. faults' = faults \/ \E f \in Fault : Fail(f)
    BY DEF EnqueueZTPProvision, Pop, Refuse, CreateRetryLog, Crash, SaveFaultRetryLog, Fault
  <2> QED BY <2>1, FailCounts DEF IInv, TypeOK
<1>3. queue \in Nat /\ asked \in Nat /\ Len(logs) \in Nat
  BY ZtpAssumption DEF IInv, TypeOK
<1>4. CASE EnqueueZTPProvision
  <2>1. /\ asked' \in {asked, asked + 1, asked + 2} /\ asked' <= MaxAttempt
        /\ queue' = queue + (asked' - asked) /\ UNCHANGED <<worker, handler, filed>>
    BY <1>4 DEF EnqueueZTPProvision
  <2>2. /\ queue' \in 0..MaxAttempt /\ asked' \in 0..MaxAttempt
        /\ Len(logs) + queue' <= asked'
        /\ Len(logs) + queue' + (IF worker.pc = "check" THEN 1 ELSE 0) <= asked'
    <3>1. /\ queue >= 0 /\ asked >= 0 /\ asked <= MaxAttempt /\ MaxAttempt \in Nat
          /\ Len(logs) + queue <= asked
          /\ Len(logs) + queue + (IF worker.pc = "check" THEN 1 ELSE 0) <= asked
      BY <1>3, ZtpAssumption DEF IInv, TypeOK, Counted
    <3> DEFINE d == asked' - asked
    <3>2. d \in {0, 1, 2} /\ asked' = asked + d /\ queue' = queue + d
      <4>1. asked' \in {asked, asked + 1, asked + 2} /\ queue' = queue + d
        BY <2>1
      <4>2. CASE asked' = asked
        BY <1>3, <4>1, <4>2
      <4>3. CASE asked' = asked + 1
        BY <1>3, <4>1, <4>3
      <4>4. CASE asked' = asked + 2
        BY <1>3, <4>1, <4>4
      <4> QED BY <4>1, <4>2, <4>3, <4>4
    <3> HIDE DEF d
    <3> QED BY <1>3, <2>1, <3>1, <3>2
  <2>3. TypeOK' /\ Counted'
    BY <1>1, <1>2, <2>1, <2>2 DEF IInv, TypeOK, Counted
  <2> QED BY <1>1, <1>2, <2>1, <2>3, RowsKept
<1>5. CASE Pop
  <2>1. worker' \in WorkerType /\ worker'.log = 0
        /\ \/ worker'.pc = "check"
           \/ worker'.pc = "rest"
    BY <1>1, <1>5 DEF Pop, WorkerType, Resting
  <2>2. /\ queue' = queue - 1 /\ queue > 0
        /\ UNCHANGED <<asked, logs, filed, handler, sent, answer, overlap, late>>
        /\ worker.pc = "rest"
    BY <1>5 DEF Pop, WorkerFrame, Resting
  <2>3. TypeOK'
    BY <1>2, <1>3, <2>1, <2>2, ZtpAssumption DEF IInv, TypeOK, WorkerType
  <2>4. Counted'
    BY <1>3, <2>1, <2>2 DEF IInv, Counted
  <2> QED BY <1>1, <1>2, <2>1, <2>2, <2>3, <2>4, RowsKept
<1>6. CASE Refuse \/ CreateRetryLog
  <2>1. /\ UNCHANGED <<queue, asked, logs, handler, sent, answer, overlap, late>>
        /\ filed' \subseteq DOMAIN logs
    BY <1>6 DEF Refuse, CreateRetryLog, WorkerFrame, IInv, TypeOK, File
  <2>2. /\ worker' \in WorkerType /\ worker'.pc \in {"rest", "retry"}
        /\ worker'.log # 0 => worker'.log = worker.log
    BY <1>1, <1>6 DEF Refuse, CreateRetryLog, Resting, IInv, TypeOK, WorkerType
  <2>3. TypeOK' /\ Counted'
    BY <1>2, <1>3, <2>1, <2>2 DEF IInv, TypeOK, Counted, WorkerType
  <2> QED BY <1>1, <1>2, <2>1, <2>2, <2>3, RowsKept
<1>7. CASE Crash
  <2>1. TypeOK' /\ Counted'
    BY <1>2, <1>3, <1>7 DEF Crash, Resting, Idle, IInv, TypeOK, Counted
  <2>2. \A h \in Handler : handler'[h].pc = "idle"
    BY <1>7 DEF Crash, Idle
  <2>3. worker'.pc = "rest"
    BY <1>7 DEF Crash, Resting
  <2> QED BY <1>1, <1>2, <2>1, <2>2, <2>3, RowsKept
<1>8. CASE \E h \in Handler : SaveFaultRetryLog(h)
  <2> PICK h \in Handler : SaveFaultRetryLog(h)
    BY <1>8
  <2>1. /\ UNCHANGED <<queue, worker, asked, logs, sent, answer, overlap, late>>
        /\ filed' \subseteq DOMAIN logs /\ handler' = [handler EXCEPT ![h] = Idle]
    BY DEF SaveFaultRetryLog, EventFrame, workVars, IInv, TypeOK, File
  <2>2. TypeOK' /\ Counted'
    BY <1>2, <2>1 DEF IInv, TypeOK, Counted, Idle
  <2>3. \A x \in Handler : handler'[x].pc = "ok" => handler'[x] = handler[x]
    BY <2>1 DEF IInv, TypeOK, Idle
  <2> QED BY <1>1, <1>2, <2>1, <2>2, <2>3, RowsKept
<1> QED BY <1>4, <1>5, <1>6, <1>7, <1>8

\* The steps of the worker that have a row in hand.
LEMMA WorkerSteps ==
  ASSUME IInv,
         \/ \E build \in {"send", "close"} : CreateZTPLog(build)
         \/ SendParameters \/ MarkSent \/ CloseAttempt
  PROVE  IInv'
<1>1. /\ UNCHANGED <<queue, asked, handler, answer, filed>>
  BY DEF CreateZTPLog, SendParameters, MarkSent, CloseAttempt, WorkerFrame
<1>2. /\ faults' \in [Fault -> Nat]
      /\ faults'["again"] = 0 => faults["again"] = 0
  <2>1. faults' = faults \/ \E f \in Fault : Fail(f)
    BY DEF CreateZTPLog, SendParameters, MarkSent, CloseAttempt, Fault
  <2> QED BY <2>1, FailCounts DEF IInv, TypeOK
<1>3. /\ queue \in Nat /\ asked \in Nat /\ Len(logs) \in Nat /\ DOMAIN logs = 1..Len(logs)
      /\ logs \in Seq(Log) /\ asked <= MaxAttempt
  BY ZtpAssumption DEF IInv, TypeOK
<1>4. CASE \E build \in {"send", "close"} : CreateZTPLog(build)
  <2> PICK build \in {"send", "close"} : CreateZTPLog(build)
    BY <1>4
  <2>1. UNCHANGED <<sent, late>> /\ worker.pc = "check"
    BY DEF CreateZTPLog, WorkerFrame
  <2>2. CASE /\ logs' = Append(logs, Started)
             /\ worker' = [pc |-> build, log |-> Len(logs) + 1]
             /\ overlap' = (overlap \/ Open # {} \/ \E i \in sent : answer[i] = "none")
    <3>1. Started \in Log /\ ~Started.done /\ Started.live
      BY DEF Started, Log
    <3>2. /\ logs' \in Seq(Log) /\ Len(logs') = Len(logs) + 1 /\ DOMAIN logs' = 1..(Len(logs) + 1)
          /\ \A i \in DOMAIN logs : i \in DOMAIN logs' /\ logs'[i] = logs[i]
          /\ logs'[Len(logs) + 1] = Started
          /\ \A i \in DOMAIN logs' : i \in DOMAIN logs \/ i = Len(logs) + 1
      BY <1>3, <2>2, <3>1
    <3>3. worker' \in [pc : {"rest", "check", "send", "mark", "close", "retry"}, log : {0} \cup DOMAIN logs']
          /\ worker'.pc \in {"send", "close"} /\ worker'.log = Len(logs') /\ worker'.log # 0
      BY <1>3, <2>2, <3>2
    <3>4. Len(logs) + queue + 1 <= asked
      BY <2>1 DEF IInv, Counted
    <3>5. \A h \in Handler : handler'[h] = handler[h] /\ handler[h].log \in {0} \cup DOMAIN logs'
      BY <1>1, <3>2 DEF IInv, TypeOK
    <3>6. handler' \in [Handler -> [pc : {"idle", "ok", "failed", "retry"}, log : {0} \cup DOMAIN logs']]
      BY <1>1, <3>5 DEF IInv, TypeOK
    <3>7. sent \subseteq DOMAIN logs'
      BY <3>2 DEF IInv, TypeOK
    <3>8. TypeOK'
      BY <1>1, <1>2, <1>3, <2>1, <2>2, <3>2, <3>3, <3>4, <3>6, <3>7 DEF IInv, TypeOK
    <3>9. Counted'
      BY <1>1, <1>3, <3>2, <3>3, <3>4 DEF Counted
    <3>10. InTurn'
      BY <1>1, <2>1, <2>2, <3>1, <3>2 DEF IInv, InTurn, Open
    <3>11. FoundOwn'
      BY <1>1, <1>2, <2>2 DEF IInv, FoundOwn
    <3>12. Marked'
      BY <3>3 DEF Marked
    <3>13. /\ ~overlap' => ~overlap
           /\ \A i \in DOMAIN logs' : logs'[i].done => i \in DOMAIN logs /\ logs'[i] = logs[i]
      BY <2>2, <3>1, <3>2
    <3>14. SuccessIsOwn'
      BY <1>1, <1>2, <3>13 DEF IInv, SuccessIsOwn, Succeeded
    <3>15. SuccessIsShown'
      BY <2>1, <3>13 DEF IInv, SuccessIsShown, Succeeded
    <3> QED BY <3>8, <3>9, <3>10, <3>11, <3>12, <3>14, <3>15 DEF IInv
  <2>3. CASE worker' = Resting /\ UNCHANGED <<logs, overlap>>
    <3>1. TypeOK' /\ Counted'
      BY <1>1, <1>2, <1>3, <2>1, <2>3 DEF IInv, TypeOK, Counted, Resting
    <3>2. worker'.pc = "rest"
      BY <2>3 DEF Resting
    <3> QED BY <1>1, <1>2, <2>1, <2>3, <3>1, <3>2, RowsKept
  <2> QED BY <2>2, <2>3 DEF CreateZTPLog
<1>5. CASE SendParameters
  <2>1. /\ UNCHANGED <<logs, overlap, late>> /\ worker.pc = "send"
        /\ sent \subseteq sent' /\ sent' \subseteq sent \cup {worker.log}
        /\ worker'.pc \in {"mark", "close"} /\ worker'.log = worker.log
        /\ worker' \in WorkerType
    BY <1>5 DEF SendParameters, WorkerFrame, IInv, TypeOK, WorkerType
  <2>2. worker.log = Len(logs) /\ worker.log \in DOMAIN logs
    BY <2>1 DEF IInv, Counted, TypeOK
  <2>3. TypeOK'
    BY <1>1, <1>2, <2>1, <2>2 DEF IInv, TypeOK, WorkerType
  <2>4. Counted'
    BY <1>1, <1>3, <2>1, <2>2 DEF IInv, Counted
  <2>6. Marked'
    <3>1. CASE sent' = sent \cup {worker.log}
      BY <2>1, <3>1 DEF Marked
    <3>2. CASE worker' = [worker EXCEPT !.pc = "close"]
      BY <3>2 DEF Marked, IInv, TypeOK
    <3> QED BY <1>5, <3>1, <3>2 DEF SendParameters
  <2>5. InTurn' /\ FoundOwn' /\ SuccessIsOwn' /\ SuccessIsShown'
    BY <1>1, <1>2, <2>1, <2>2
    DEF IInv, InTurn, Open, FoundOwn, SuccessIsOwn, SuccessIsShown, Succeeded
  <2> QED BY <2>3, <2>4, <2>5, <2>6 DEF IInv
<1>6. CASE MarkSent \/ CloseAttempt
  <2> DEFINE i == worker.log
  <2>1. /\ UNCHANGED <<sent, overlap>> /\ worker.pc \in {"mark", "close"}
        /\ worker'.pc \in {"rest", "retry"} /\ worker'.log \in {0, i} /\ worker' \in WorkerType
    BY <1>6 DEF MarkSent, CloseAttempt, WorkerFrame, Resting, IInv, TypeOK, WorkerType
  <2>2. i = Len(logs) /\ i \in DOMAIN logs /\ logs[i] \in Log
    BY <2>1, RowTyped DEF IInv, Counted, TypeOK
  <2>3. /\ logs' \in Seq(Log) /\ Len(logs') = Len(logs) /\ DOMAIN logs' = DOMAIN logs
        /\ \A j \in DOMAIN logs : j # i => logs'[j] = logs[j]
        /\ \/ logs'[i] = logs[i] /\ late' = late
           \/ /\ logs[i].live /\ worker.pc = "mark" /\ logs'[i].done = logs[i].done /\ logs'[i].fault = logs[i].fault
              /\ logs'[i].live = logs[i].live
              /\ late' = IF logs[i].done THEN late \cup {i} ELSE late
           \/ logs'[i].done /\ logs'[i].fault /\ late' = late
    <3>1. CASE UNCHANGED <<logs, late>>
      BY <1>3, <3>1
    <3>2. CASE MarkSent /\ ~UNCHANGED <<logs, late>>
      <4> DEFINE row == [logs[i] EXCEPT !.progress = 3]
      <4>1. /\ UpdateRow(i, row) /\ worker.pc = "mark"
            /\ late' = IF logs[i].live /\ logs[i].done THEN late \cup {i} ELSE late
        BY <3>2 DEF MarkSent
      <4>2. row \in Log /\ row.done = logs[i].done /\ row.fault = logs[i].fault /\ row.live = logs[i].live
        BY <2>2, RowEdits
      <4> HIDE DEF row
      <4> QED BY <2>2, <4>1, <4>2, RowUpdated DEF IInv
    <3>3. CASE CloseAttempt /\ ~UNCHANGED <<logs, late>>
      <4> DEFINE row == [logs[i] EXCEPT !.progress = 6, !.done = TRUE, !.fault = TRUE]
      <4>1. UpdateRow(i, row) /\ late' = late
        BY <3>3 DEF CloseAttempt
      <4>2. row \in Log /\ row.done = TRUE /\ row.fault = TRUE
        BY <2>2, RowEdits
      <4> HIDE DEF row
      <4> QED BY <2>2, <4>1, <4>2, RowUpdated DEF IInv
    <3> QED BY <1>6, <3>1, <3>2, <3>3
  <2>4. late' \subseteq sent
    <3>1. worker.pc = "mark" => i \in sent
      BY DEF IInv, Marked
    <3> QED BY <2>3, <3>1 DEF IInv, TypeOK
  <2>5. TypeOK'
    BY <1>1, <1>2, <1>3, <2>1, <2>3, <2>4 DEF IInv, TypeOK, WorkerType
  <2>6. Counted'
    BY <1>1, <1>3, <2>1, <2>2, <2>3 DEF IInv, Counted
  <2>7. Open' \subseteq Open
    BY <2>2, <2>3 DEF Open
  <2>8. InTurn' /\ FoundOwn'
    BY <1>1, <1>2, <2>1, <2>3, <2>7 DEF IInv, InTurn, FoundOwn
  <2>9. Marked' /\ SuccessIsOwn' /\ SuccessIsShown'
    BY <1>1, <1>2, <2>1, <2>2, <2>3 DEF IInv, Marked, SuccessIsOwn, SuccessIsShown, Succeeded
  <2> QED BY <2>5, <2>6, <2>8, <2>9 DEF IInv
<1> QED BY <1>4, <1>5, <1>6

\* The Informs of the device.
LEMMA StageSteps ==
  ASSUME IInv,
         DeleteZTPLogs \/ \E progress \in {3, 4, 5} : StageReport(progress)
  PROVE  IInv'
<1>1. /\ UNCHANGED <<queue, worker, asked, filed, handler, sent, answer, overlap, late>>
  BY DEF DeleteZTPLogs, StageReport, EventFrame, workVars
<1>2. /\ faults' \in [Fault -> Nat]
      /\ faults'["again"] = 0 => faults["again"] = 0
  <2>1. faults' = faults \/ Fail("delete")
    BY DEF DeleteZTPLogs, StageReport
  <2>2. "delete" \in Fault
    BY DEF Fault
  <2> QED BY <2>1, <2>2, FailCounts DEF IInv, TypeOK
<1>3. Len(logs) \in Nat /\ DOMAIN logs = 1..Len(logs) /\ \A i \in DOMAIN logs : logs[i] \in Log
  BY RowTyped DEF IInv, TypeOK
<1>4. PICK row : /\ logs' = [i \in DOMAIN logs |-> row[i]]
                 /\ \A i \in DOMAIN logs :
                      /\ row[i] \in Log /\ row[i].done = logs[i].done /\ row[i].fault = logs[i].fault
                      /\ row[i].live => logs[i].live
                      /\ logs[i].done => row[i].progress = logs[i].progress
  <2>1. CASE DeleteZTPLogs
    <3> DEFINE row == [i \in DOMAIN logs |-> [logs[i] EXCEPT !.live = FALSE]]
    <3>1. \A i \in DOMAIN logs : row[i] = [logs[i] EXCEPT !.live = FALSE]
      OBVIOUS
    <3>2. logs' = [i \in DOMAIN logs |-> row[i]]
      BY <2>1, <3>1 DEF DeleteZTPLogs
    <3>3. ASSUME NEW i \in DOMAIN logs
          PROVE  /\ row[i] \in Log /\ row[i].done = logs[i].done /\ row[i].fault = logs[i].fault
                 /\ row[i].live = FALSE /\ row[i].progress = logs[i].progress
      BY <1>3, <3>1, RowEdits
    <3> HIDE DEF row
    <3> QED BY <3>2, <3>3
  <2>2. CASE \E progress \in {3, 4, 5} : StageReport(progress)
    <3> PICK p \in {3, 4, 5} : StageReport(p)
      BY <2>2
    <3> DEFINE row == [i \in DOMAIN logs |->
                        IF i \in Open THEN [logs[i] EXCEPT !.progress = p] ELSE logs[i]]
    <3>1. logs' = [i \in DOMAIN logs |-> row[i]]
      BY DEF StageReport
    <3>2. ASSUME NEW i \in DOMAIN logs
          PROVE  /\ row[i] \in Log /\ row[i].done = logs[i].done /\ row[i].fault = logs[i].fault
                 /\ row[i].live => logs[i].live
                 /\ logs[i].done => row[i].progress = logs[i].progress
      <4>1. row[i] = IF i \in Open THEN [logs[i] EXCEPT !.progress = p] ELSE logs[i]
        OBVIOUS
      <4>2. CASE i \in Open
        <5> DEFINE r == logs[i]
        <5>1. r \in Log
          BY <1>3
        <5>2. ~r.done
          BY <4>2 DEF Open
        <5> HIDE DEF r
        <5>3. /\ [r EXCEPT !.progress = p] \in Log
              /\ [r EXCEPT !.progress = p].done = r.done
              /\ [r EXCEPT !.progress = p].fault = r.fault
              /\ [r EXCEPT !.progress = p].live = r.live
          BY <5>1 DEF Log
        <5>4. row[i] = [r EXCEPT !.progress = p]
          BY <4>1, <4>2 DEF r
        <5> HIDE DEF row
        <5>5. /\ row[i] \in Log /\ row[i].done = r.done /\ row[i].fault = r.fault
              /\ row[i].live => r.live
          BY <5>3, <5>4
        <5> QED BY <5>2, <5>5 DEF r
      <4>3. CASE i \notin Open
        BY <1>3, <4>1, <4>3
      <4> QED BY <4>2, <4>3
    <3> HIDE DEF row
    <3> QED BY <3>1, <3>2
  <2> QED BY <2>1, <2>2
<1>5. /\ DOMAIN logs' = DOMAIN logs /\ \A i \in DOMAIN logs : logs'[i] = row[i]
      /\ logs' \in [1..Len(logs) -> Log]
  BY <1>3, <1>4
<1>6. logs' \in Seq(Log) /\ Len(logs') = Len(logs)
  BY <1>3, <1>5
<1>7. TypeOK' /\ Counted' /\ Marked'
  BY <1>1, <1>2, <1>5, <1>6 DEF IInv, TypeOK, Counted, Marked
<1>8. Open' \subseteq Open
  BY <1>4, <1>5 DEF Open
<1>9. InTurn' /\ FoundOwn'
  BY <1>1, <1>2, <1>6, <1>8 DEF IInv, InTurn, FoundOwn
<1>10. SuccessIsOwn' /\ SuccessIsShown'
  BY <1>1, <1>2, <1>4, <1>5 DEF IInv, SuccessIsOwn, SuccessIsShown, Succeeded
<1> QED BY <1>7, <1>9, <1>10 DEF IInv

\* A result that is ignored.
LEMMA ResultIgnored ==
  ASSUME IInv, UNCHANGED <<queue, worker, asked, logs, filed, handler, sent, overlap, late>>,
         NEW i \in Attempt, NEW result \in {"ok", "failed"},
         i \in sent, answer[i] = "none", answer' = [answer EXCEPT ![i] = result], Fail("db")
  PROVE  IInv'
<1>1. /\ faults' \in [Fault -> Nat]
      /\ faults'["again"] = 0 => faults["again"] = 0
  <2>1. "db" \in Fault
    BY DEF Fault
  <2> QED BY <2>1, FailCounts DEF IInv, TypeOK
<1>2. /\ answer' \in [Attempt -> {"none", "ok", "failed"}]
      /\ \A k \in Attempt : /\ answer'[k] = "none" => answer[k] = "none"
                            /\ answer[k] = "ok" => answer'[k] = "ok"
  BY DEF IInv, TypeOK
<1>3. DOMAIN logs \subseteq Attempt /\ sent \subseteq Attempt
  BY ZtpAssumption DEF IInv, TypeOK, Attempt
<1>4. TypeOK' /\ Counted' /\ Marked'
  BY <1>1, <1>2 DEF IInv, TypeOK, Counted, Marked
<1>5. InTurn'
  BY <1>2, <1>3 DEF IInv, InTurn, Open
<1>6. FoundOwn'
  <2>1. \A x \in Handler : handler[x].log # 0 => handler[x].log \in Attempt
    BY <1>3 DEF IInv, TypeOK
  <2> QED BY <1>1, <1>2, <2>1 DEF IInv, FoundOwn
<1>7. SuccessIsOwn' /\ SuccessIsShown'
  BY <1>1, <1>2, <1>3 DEF IInv, SuccessIsOwn, SuccessIsShown, Succeeded
<1> QED BY <1>4, <1>5, <1>6, <1>7 DEF IInv

LEMMA ReportStep ==
  ASSUME IInv, NEW h \in Handler, Report(h)
  PROVE  IInv'
<1>1. PICK i \in Attempt, result \in {"ok", "failed"} : StartupResult(h, i, result)
  BY DEF Report
<1>2. UNCHANGED <<queue, worker, asked, logs, filed, sent, overlap, late>>
  BY <1>1 DEF StartupResult, EventFrame, workVars
<1> SUFFICES ASSUME Reported(i, result),
                    \E j \in IF Open = {} THEN {0} ELSE Open :
                      handler' = [handler EXCEPT ![h] = [pc |-> result, log |-> j]]
             PROVE  IInv'
  BY <1>1, <1>2, ResultIgnored DEF StartupResult
<1>3. PICK j \in IF Open = {} THEN {0} ELSE Open :
        handler' = [handler EXCEPT ![h] = [pc |-> result, log |-> j]]
  OBVIOUS
<1>4. /\ faults' \in [Fault -> Nat]
      /\ faults'["again"] = 0 => faults["again"] = 0
      /\ answer' \in [Attempt -> {"none", "ok", "failed"}]
      /\ \/ /\ i \in sent /\ answer[i] = "none" /\ answer' = [answer EXCEPT ![i] = result]
         \/ faults'["again"] # 0 /\ answer' = answer
  <2>1. CASE i \in sent /\ answer[i] = "none" /\ answer' = [answer EXCEPT ![i] = result] /\ UNCHANGED faults
    BY <2>1 DEF IInv, TypeOK
  <2>2. CASE Fail("again") /\ UNCHANGED answer
    <3>1. "again" \in Fault
      BY DEF Fault
    <3> QED BY <2>2, <3>1, FailCounts DEF IInv, TypeOK
  <2> QED BY <2>1, <2>2 DEF Reported
<1>5. j \in {0} \cup DOMAIN logs /\ (j # 0 => j \in Open)
  BY <1>3 DEF Open
<1>6. /\ handler' \in [Handler -> [pc : {"idle", "ok", "failed", "retry"}, log : {0} \cup DOMAIN logs]]
      /\ handler'[h].log = j /\ handler'[h].pc = result
      /\ \A x \in Handler \ {h} : handler'[x] = handler[x]
  BY <1>3, <1>5 DEF IInv, TypeOK
<1>7. TypeOK' /\ Counted' /\ Marked'
  BY <1>2, <1>4, <1>6 DEF IInv, TypeOK, Counted, Marked
<1>8. InTurn'
  <2>1. \A k \in sent : k \in Attempt
    BY ZtpAssumption DEF IInv, TypeOK, Attempt
  <2>2. \A k \in Attempt : answer'[k] = "none" => answer[k] = "none"
    BY <1>4 DEF IInv, TypeOK
  <2>3. Open' = Open
    BY <1>2 DEF Open
  <2> QED BY <1>2, <2>1, <2>2, <2>3 DEF IInv, InTurn
<1>9. \A k \in Attempt : answer[k] = "ok" => answer'[k] = "ok"
  BY <1>4 DEF IInv, TypeOK
<1>10. DOMAIN logs \subseteq Attempt
  BY ZtpAssumption DEF IInv, TypeOK, Attempt
<1>11. SuccessIsOwn' /\ SuccessIsShown'
  BY <1>2, <1>4, <1>9, <1>10 DEF IInv, SuccessIsOwn, SuccessIsShown, Succeeded
<1>12. FoundOwn'
  <2> SUFFICES ASSUME ~overlap, faults'["again"] = 0, NEW x \in Handler,
                      handler'[x].pc = "ok", handler'[x].log # 0
               PROVE  answer'[handler'[x].log] = "ok"
    BY <1>2 DEF FoundOwn
  <2>1. CASE x = h
    <3>1. i = Len(logs) /\ j = Len(logs) /\ answer' = [answer EXCEPT ![i] = result]
      BY <1>4, <1>5, <1>6, <2>1 DEF IInv, InTurn
    <3> QED BY <1>6, <2>1, <3>1 DEF IInv, TypeOK
  <2>2. CASE x # h
    <3>1. answer[handler[x].log] = "ok" /\ handler'[x] = handler[x] /\ handler[x].log \in DOMAIN logs
      BY <1>4, <1>6, <2>2 DEF IInv, FoundOwn, TypeOK
    <3> QED BY <1>9, <1>10, <3>1
  <2> QED BY <2>1, <2>2
<1> QED BY <1>7, <1>8, <1>11, <1>12 DEF IInv

LEMMA SaveSteps ==
  ASSUME IInv, NEW h \in Handler, SaveSuccess(h) \/ SaveFailure(h)
  PROVE  IInv'
<1> DEFINE i == handler[h].log
<1>1. UNCHANGED <<queue, worker, asked, sent, answer, overlap, late>>
  BY DEF SaveSuccess, SaveFailure, EventFrame, workVars
<1>2. /\ faults' \in [Fault -> Nat]
      /\ faults'["again"] = 0 => faults["again"] = 0
  <2>1. faults' = faults \/ Fail("db")
    BY DEF SaveSuccess, SaveFailure
  <2>2. "db" \in Fault
    BY DEF Fault
  <2> QED BY <2>1, <2>2, FailCounts DEF IInv, TypeOK
<1>3. /\ handler' \in [Handler -> [pc : {"idle", "ok", "failed", "retry"}, log : {0} \cup DOMAIN logs]]
      /\ \A x \in Handler : handler'[x].pc = "ok" => handler'[x] = handler[x]
      /\ filed' \subseteq DOMAIN logs
  <2>1. handler \in [Handler -> HandlerType] /\ filed \subseteq DOMAIN logs
    BY DEF IInv, TypeOK, HandlerType
  <2>2. CASE SaveSuccess(h)
    <3>1. handler' = [handler EXCEPT ![h] = Idle] /\ filed' \subseteq DOMAIN logs
      BY <2>1, <2>2 DEF SaveSuccess, File, HandlerType
    <3>2. Idle \in HandlerType /\ Idle.pc = "idle"
      BY DEF Idle, HandlerType
    <3> QED BY <2>1, <3>1, <3>2 DEF HandlerType
  <2>3. CASE SaveFailure(h)
    <3>1. handler' = [handler EXCEPT ![h] = [handler[h] EXCEPT !.pc = "retry"]] /\ filed' \subseteq DOMAIN logs
      BY <2>1, <2>3 DEF SaveFailure
    <3>2. /\ [handler[h] EXCEPT !.pc = "retry"] \in HandlerType
          /\ [handler[h] EXCEPT !.pc = "retry"].pc = "retry"
      BY <2>1 DEF HandlerType
    <3> QED BY <2>1, <3>1, <3>2 DEF HandlerType
  <2> QED BY <2>2, <2>3
<1>4. \/ logs' = logs
      \/ /\ i \in DOMAIN logs /\ logs' \in Seq(Log) /\ Len(logs') = Len(logs) /\ DOMAIN logs' = DOMAIN logs
         /\ \A j \in DOMAIN logs : j # i => logs'[j] = logs[j]
         /\ \/ logs'[i] = logs[i]
            \/ logs'[i].done /\ logs'[i].fault
            \/ logs'[i].done /\ logs'[i].progress = 6 /\ handler[h].pc = "ok"
  <2>1. CASE SaveSuccess(h) /\ logs' # logs
    <3> DEFINE row == [logs[i] EXCEPT !.progress = 6, !.done = TRUE]
    <3>1. i # 0 /\ UpdateRow(i, row) /\ handler[h].pc = "ok"
      BY <2>1 DEF SaveSuccess
    <3>2. i \in DOMAIN logs
      BY <3>1 DEF IInv, TypeOK
    <3>3. row \in Log /\ row.done = TRUE /\ row.progress = 6
      BY <3>2, RowTyped, RowEdits DEF IInv
    <3> HIDE DEF row
    <3> QED BY <3>1, <3>2, <3>3, RowUpdated DEF IInv
  <2>2. CASE SaveFailure(h) /\ logs' # logs
    <3> DEFINE row == [logs[i] EXCEPT !.done = TRUE, !.fault = TRUE]
    <3>1. i # 0 /\ UpdateRow(i, row)
      BY <2>2 DEF SaveFailure
    <3>2. i \in DOMAIN logs
      BY <3>1 DEF IInv, TypeOK
    <3>3. row \in Log /\ row.done = TRUE /\ row.fault = TRUE
      BY <3>2, RowTyped, RowEdits DEF IInv
    <3> HIDE DEF row
    <3> QED BY <3>1, <3>2, <3>3, RowUpdated DEF IInv
  <2> QED BY <2>1, <2>2
<1>5. CASE logs' = logs
  <2>1. TypeOK' /\ Counted'
    BY <1>1, <1>2, <1>3, <1>5 DEF IInv, TypeOK, Counted
  <2> QED BY <1>1, <1>2, <1>3, <1>5, <2>1, RowsKept
<1>6. CASE logs' # logs
  <2>1. TypeOK' /\ Counted' /\ Marked'
    BY <1>1, <1>2, <1>3, <1>4, <1>6 DEF IInv, TypeOK, Counted, Marked
  <2>2. Open' \subseteq Open
    BY <1>4, <1>6 DEF Open
  <2>3. InTurn' /\ FoundOwn'
    BY <1>1, <1>2, <1>3, <1>4, <1>6, <2>2 DEF IInv, InTurn, FoundOwn
  <2>4. ~overlap /\ faults["again"] = 0 /\ handler[h].pc = "ok" /\ i # 0 => answer[i] = "ok"
    BY DEF IInv, FoundOwn
  <2>5. i # 0
    BY <1>4, <1>6 DEF IInv, TypeOK
  <2>6. SuccessIsOwn' /\ SuccessIsShown'
    BY <1>1, <1>2, <1>4, <1>6, <2>4, <2>5 DEF IInv, SuccessIsOwn, SuccessIsShown, Succeeded
  <2> QED BY <2>1, <2>3, <2>6 DEF IInv
<1> QED BY <1>5, <1>6

LEMMA NextInv == IInv /\ [Next]_vars => IInv'
<1> SUFFICES ASSUME IInv, [Next]_vars PROVE IInv'
  OBVIOUS
<1>1. CASE Next
  BY <1>1, QuietSteps, WorkerSteps, StageSteps, ReportStep, SaveSteps DEF Next, WorkerStep, HandlerStep
<1>2. CASE UNCHANGED vars
  <2>1. TypeOK' /\ Counted'
    BY <1>2 DEF vars, workVars, IInv, TypeOK, Counted
  <2>2. UNCHANGED <<logs, sent, answer, overlap, late, handler, worker, faults>>
    BY <1>2 DEF vars, workVars
  <2>3. faults' \in [Fault -> Nat]
    BY <2>2 DEF IInv, TypeOK
  <2> QED BY <2>1, <2>2, <2>3, RowsKept
<1> QED BY <1>1, <1>2

-----------------------------------------------------------------------------
(* Theorems *)

LEMMA Invariance == Spec => []IInv
BY InitInv, NextInv, PTL DEF Spec

\* All variables keep their types, and there is no more than one row per request.
THEOREM TypeCorrect == Spec => []TypeOK
<1>1. IInv => TypeOK
  BY DEF IInv
<1> QED BY Invariance, <1>1, PTL

\* As long as attempts do not overlap and the device repeats nothing, a success is
\* filed under the attempt it is about.
THEOREM OwnSuccess == Spec => []SuccessIsOwn
<1>1. IInv => SuccessIsOwn
  BY DEF IInv
<1> QED BY Invariance, <1>1, PTL

\* A success is shown as complete but where the worker wrote "sent" after it.
THEOREM ShownSuccess == Spec => []SuccessIsShown
<1>1. IInv => SuccessIsShown
  BY DEF IInv
<1> QED BY Invariance, <1>1, PTL

\* What may happen to a closed attempt in one step.
Untouched(i) ==
  logs[i].done /\ logs'[i] # logs[i] =>
    \/ ~logs'[i].live
    \/ worker.log = i
    \/ \E h \in Handler : handler[h].log = i

LEMMA ClosedStep ==
  ASSUME IInv, [Next]_vars, NEW i \in DOMAIN logs
  PROVE  Untouched(i)
<1>1. logs \in Seq(Log) /\ DOMAIN logs = 1..Len(logs) /\ Len(logs) \in Nat /\ logs[i] \in Log
  BY RowTyped DEF IInv, TypeOK
<1>2. CASE DeleteZTPLogs
  <2>1. logs'[i] = [logs[i] EXCEPT !.live = FALSE]
    BY <1>2 DEF DeleteZTPLogs
  <2>2. [logs[i] EXCEPT !.live = FALSE].live = FALSE
    BY <1>1 DEF Log
  <2> QED BY <2>1, <2>2 DEF Untouched
<1>3. CASE \E progress \in {3, 4, 5} : StageReport(progress)
  <2>1. i \notin Open => logs'[i] = logs[i]
    BY <1>3 DEF StageReport
  <2> QED BY <2>1 DEF Open, Untouched, IInv, TypeOK
<1>4. CASE MarkSent \/ CloseAttempt
  <2>1. logs' = logs \/ \E row : UpdateRow(worker.log, row)
    BY <1>4 DEF MarkSent, CloseAttempt
  <2>2. worker.log # i => logs'[i] = logs[i]
    BY <1>1, <2>1 DEF UpdateRow
  <2> QED BY <2>2 DEF Untouched
<1>5. CASE \E h \in Handler : SaveSuccess(h) \/ SaveFailure(h)
  <2> PICK h \in Handler : SaveSuccess(h) \/ SaveFailure(h)
    BY <1>5
  <2>1. logs' = logs \/ \E row : UpdateRow(handler[h].log, row)
    BY DEF SaveSuccess, SaveFailure
  <2>2. handler[h].log # i => logs'[i] = logs[i]
    BY <1>1, <2>1 DEF UpdateRow
  <2> QED BY <2>2 DEF Untouched
<1>6. CASE \E build \in {"send", "close"} : CreateZTPLog(build)
  <2>1. logs' = logs \/ logs' = Append(logs, Started)
    BY <1>6 DEF CreateZTPLog
  <2>2. logs'[i] = logs[i]
    BY <1>1, <2>1
  <2> QED BY <2>2 DEF Untouched
<1>7. CASE logs' = logs
  BY <1>7 DEF Untouched
<1>8. EnqueueZTPProvision \/ Pop \/ Refuse \/ SendParameters \/ CreateRetryLog \/ Crash
        \/ (\E h \in Handler : Report(h) \/ SaveFaultRetryLog(h)) \/ UNCHANGED vars => logs' = logs
  BY DEF EnqueueZTPProvision, Pop, Refuse, SendParameters, CreateRetryLog, Crash, Report,
         StartupResult, SaveFaultRetryLog, vars
<1> QED BY <1>2, <1>3, <1>4, <1>5, <1>6, <1>7, <1>8 DEF Next, WorkerStep, HandlerStep

\* A closed attempt is only changed by someone who had it in hand, or deleted.
THEOREM ClosedAttemptsStay == Spec => ClosedStays
<1>1. IInv /\ [Next]_vars =>
        [\A i \in DOMAIN logs :
           logs[i].done /\ logs'[i] # logs[i] =>
             \/ ~logs'[i].live
             \/ worker.log = i
             \/ \E h \in Handler : handler[h].log = i]_vars
  BY ClosedStep DEF Untouched
<1> QED BY Invariance, <1>1, PTL DEF ClosedStays, Spec

-----------------------------------------------------------------------------
(* The lines of the history.  Each step that closes an attempt either writes  *)
(* its line at once or leaves a worker or a handler that is about to; that    *)
(* one writes it, or has met an error or a crash.                             *)

\* A fault counts up its own counter and no other.
LEMMA FailAdds ==
  ASSUME TypeOK, NEW f \in Fault, Fail(f)
  PROVE  \A g \in Fault : faults'[g] = IF g = f THEN faults[g] + 1 ELSE faults[g]
<1>1. faults' = [faults EXCEPT ![f] = faults[f] + 1]
  BY Zenon DEF Fail
<1> QED BY <1>1 DEF TypeOK

\* A crash pays for every worker and handler there may be.
LEMMA CrashPays ==
  ASSUME NEW k \in Nat, NEW c \in Nat
  PROVE  (k + 1) * (c + 1) = k * (c + 1) + c + 1 /\ k * (c + 1) \in Nat
OBVIOUS

\* There are finitely many rows and results.
LEMMA FilingFinite ==
  ASSUME TypeOK
  PROVE  /\ IsFiniteSet(Missing) /\ Cardinality(Missing) \in Nat
         /\ Cardinality(Handler) \in Nat
         /\ faults["db"] \in Nat /\ faults["crash"] \in Nat
         /\ faults["crash"] * (Cardinality(Handler) + 1) \in Nat
<1>1. IsFiniteSet(DOMAIN logs)
  <2>1. DOMAIN logs = 1..Len(logs) /\ Len(logs) \in Nat
    BY DEF TypeOK
  <2> QED BY <2>1, FS_Interval
<1>2. IsFiniteSet(Missing) /\ Cardinality(Missing) \in Nat
  <2>1. Missing \in SUBSET DOMAIN logs
    BY DEF Missing
  <2> QED BY <1>1, <2>1, FS_Subset, FS_CardinalityType
<1>3. Cardinality(Handler) \in Nat
  BY ZtpAssumption, FS_CardinalityType
<1>4. faults["db"] \in Nat /\ faults["crash"] \in Nat
  BY DEF Fault, TypeOK
<1> QED BY <1>2, <1>3, <1>4, CrashPays

LEMMA OneMore ==
  ASSUME NEW S, IsFiniteSet(S), NEW x, NEW T \in SUBSET (S \cup {x})
  PROVE  /\ IsFiniteSet(T) /\ Cardinality(T) \in Nat /\ Cardinality(S) \in Nat
         /\ Cardinality(T) <= Cardinality(S) + 1
<1>0. Cardinality(S) \in Nat
  BY FS_CardinalityType
<1>1. /\ IsFiniteSet(S \cup {x}) /\ Cardinality(S) \in Nat
      /\ Cardinality(S \cup {x}) <= Cardinality(S) + 1
  <2>1. /\ IsFiniteSet(S \cup {x})
        /\ Cardinality(S \cup {x}) = IF x \in S THEN Cardinality(S) ELSE Cardinality(S) + 1
    BY FS_AddElement
  <2> QED BY <1>0, <2>1
<1>2. IsFiniteSet(T) /\ Cardinality(T) \in Nat /\ Cardinality(T) <= Cardinality(S \cup {x})
  BY <1>1, FS_Subset, FS_CardinalityType
<1>3. Cardinality(S \cup {x}) \in Nat
  BY <1>1, FS_CardinalityType
<1> QED BY <1>1, <1>2, <1>3

\* A fault other than a crash may cost the line of attempt x, if it is one of the
\* database.
LEMMA LineMissing ==
  ASSUME TypeOK, EveryEndIsFiled, \A i \in DOMAIN logs' : Succeeded(i)' => i \in filed',
         \/ Missing' \subseteq Missing /\ (faults' = faults \/ \E f \in Fault \ {"crash"} : Fail(f))
         \/ \E x : Missing' \subseteq Missing \cup {x} /\ Fail("db")
  PROVE  EveryEndIsFiled'
<1>1. "db" \in Fault /\ "crash" \in Fault
  BY DEF Fault
<1>2. CASE Missing' \subseteq Missing /\ (faults' = faults \/ \E f \in Fault \ {"crash"} : Fail(f))
  <2>1. Cardinality(Missing)' <= Cardinality(Missing) /\ Cardinality(Missing)' \in Nat
    BY <1>2, FilingFinite, FS_Subset, FS_CardinalityType
  <2>2. /\ faults'["crash"] = faults["crash"]
        /\ faults'["db"] \in Nat /\ faults["db"] <= faults'["db"]
    BY <1>1, <1>2, FailAdds, FilingFinite
  <2> QED BY <2>1, <2>2, FilingFinite DEF EveryEndIsFiled
<1>3. ASSUME NEW x, Missing' \subseteq Missing \cup {x}, Fail("db") PROVE EveryEndIsFiled'
  <2>1. Cardinality(Missing)' <= Cardinality(Missing) + 1 /\ Cardinality(Missing)' \in Nat
    BY <1>3, FilingFinite, OneMore
  <2>2. faults'["crash"] = faults["crash"] /\ faults'["db"] = faults["db"] + 1
    BY <1>1, <1>3, FailAdds
  <2> QED BY <2>1, <2>2, FilingFinite DEF EveryEndIsFiled
<1> QED BY <1>2, <1>3

\* What is closed was closed before, or has its line, or somebody is to write it; and
\* who was to write a line still is, or has written it.
LEMMA LinesKept ==
  ASSUME TypeOK, EveryEndIsFiled, filed \subseteq filed',
         \A i \in DOMAIN logs' : logs'[i].done =>
           \/ i \in DOMAIN logs /\ logs[i].done /\ logs'[i].fault = logs[i].fault
           \/ i \in filed'
           \/ BeingFiled(i)' /\ logs'[i].fault,
         \A i \in DOMAIN logs : BeingFiled(i) => BeingFiled(i)' \/ i \in filed',
         faults' = faults \/ \E f \in Fault \ {"crash"} : Fail(f)
  PROVE  EveryEndIsFiled'
<1>1. Missing' \subseteq Missing
  BY DEF Missing
<1>2. \A i \in DOMAIN logs' : Succeeded(i)' => i \in filed'
  BY DEF EveryEndIsFiled, Succeeded
<1> QED BY <1>1, <1>2, LineMissing

\* An update of the row of attempt i.
LEMMA EndOfRow ==
  ASSUME TypeOK, NEW i \in DOMAIN logs, NEW row \in Log, UpdateRow(i, row),
         \/ row.done = logs[i].done /\ row.fault = logs[i].fault
         \/ i \in filed'
         \/ BeingFiled(i)' /\ row.fault
  PROVE  \A j \in DOMAIN logs' : logs'[j].done =>
           \/ j \in DOMAIN logs /\ logs[j].done /\ logs'[j].fault = logs[j].fault
           \/ j \in filed'
           \/ BeingFiled(j)' /\ logs'[j].fault
<1>1. /\ DOMAIN logs' = DOMAIN logs /\ \A j \in DOMAIN logs : j # i => logs'[j] = logs[j]
      /\ logs'[i] = IF logs[i].live THEN row ELSE logs[i]
  BY RowUpdated
<1> SUFFICES ASSUME NEW j \in DOMAIN logs, logs'[j].done
             PROVE  \/ logs[j].done /\ logs'[j].fault = logs[j].fault
                    \/ j \in filed'
                    \/ BeingFiled(j)' /\ logs'[j].fault
  BY <1>1
<1>2. CASE logs'[j] = logs[j]
  BY <1>2
<1>3. CASE j = i /\ logs'[i] = row
  <2>1. CASE row.done = logs[i].done /\ row.fault = logs[i].fault
    BY <1>3, <2>1
  <2>2. CASE i \in filed'
    BY <1>3, <2>2
  <2>3. CASE BeingFiled(i)' /\ row.fault
    BY <1>3, <2>3 DEF BeingFiled
  <2> QED BY <2>1, <2>2, <2>3
<1> QED BY <1>1, <1>2, <1>3

\* No row changes.
LEMMA SameRows ==
  ASSUME TypeOK, EveryEndIsFiled, UNCHANGED <<logs, filed>>,
         \A i \in DOMAIN logs : BeingFiled(i) => BeingFiled(i)',
         faults' = faults \/ \E f \in Fault \ {"crash"} : Fail(f)
  PROVE  EveryEndIsFiled'
BY LinesKept

LEMMA FiledStep == IInv /\ EveryEndIsFiled /\ [Next]_vars => EveryEndIsFiled'
<1> SUFFICES ASSUME IInv, EveryEndIsFiled, [Next]_vars PROVE EveryEndIsFiled'
  OBVIOUS
<1>0. TypeOK /\ TypeOK'
  BY NextInv DEF IInv
<1>1. /\ logs \in Seq(Log) /\ \A i \in DOMAIN logs : logs[i] \in Log
      /\ DOMAIN logs = 1..Len(logs) /\ Len(logs) \in Nat
  BY <1>0, RowTyped DEF TypeOK
<1>3. {"db", "push", "resend", "lose", "again", "delete"} \subseteq Fault \ {"crash"}
  BY DEF Fault
<1>4. ASSUME \/ EnqueueZTPProvision \/ Pop \/ Refuse \/ SendParameters
             \/ UNCHANGED vars
      PROVE  EveryEndIsFiled'
  <2>1. UNCHANGED <<logs, handler, filed>> /\ (UNCHANGED worker \/ worker.pc # "retry")
    BY <1>4 DEF EnqueueZTPProvision, Pop, Refuse, SendParameters, WorkerFrame, vars, workVars, Resting
  <2>2. faults' = faults \/ \E f \in Fault \ {"crash"} : Fail(f)
    BY <1>3, <1>4 DEF EnqueueZTPProvision, Pop, Refuse, SendParameters, vars
  <2>3. \A i \in DOMAIN logs : BeingFiled(i) => BeingFiled(i)'
    BY <2>1 DEF BeingFiled
  <2> QED BY <1>0, <2>1, <2>2, <2>3, SameRows
<1>5. ASSUME DeleteZTPLogs \/ \E progress \in {3, 4, 5} : StageReport(progress)
      PROVE  EveryEndIsFiled'
  <2>1. UNCHANGED <<handler, filed, worker>>
    BY <1>5 DEF DeleteZTPLogs, StageReport, EventFrame, workVars
  <2>2. faults' = faults \/ \E f \in Fault \ {"crash"} : Fail(f)
    BY <1>3, <1>5 DEF DeleteZTPLogs, StageReport
  <2>3. \A i \in DOMAIN logs : BeingFiled(i) => BeingFiled(i)'
    BY <2>1 DEF BeingFiled
  <2>4. /\ DOMAIN logs' = DOMAIN logs
        /\ \A i \in DOMAIN logs : logs'[i].done = logs[i].done /\ logs'[i].fault = logs[i].fault
    <3>1. CASE DeleteZTPLogs
      <4>1. logs' = [i \in DOMAIN logs |-> [logs[i] EXCEPT !.live = FALSE]]
        BY <3>1 DEF DeleteZTPLogs
      <4> QED BY <1>1, <4>1, RowEdits
    <3>2. ASSUME NEW progress \in {3, 4, 5}, StageReport(progress)
          PROVE  /\ DOMAIN logs' = DOMAIN logs
                 /\ \A i \in DOMAIN logs : logs'[i].done = logs[i].done /\ logs'[i].fault = logs[i].fault
      <4>1. logs' = [i \in DOMAIN logs |->
                       IF i \in Open THEN [logs[i] EXCEPT !.progress = progress] ELSE logs[i]]
        BY <3>2 DEF StageReport
      <4>2. \A i \in DOMAIN logs : /\ [logs[i] EXCEPT !.progress = progress].done = logs[i].done
                                   /\ [logs[i] EXCEPT !.progress = progress].fault = logs[i].fault
        BY <1>1 DEF Log
      <4> QED BY <4>1, <4>2
    <3> QED BY <1>5, <3>1, <3>2
  <2> QED BY <1>0, <2>1, <2>2, <2>3, <2>4, LinesKept
<1>6. ASSUME NEW build \in {"send", "close"}, CreateZTPLog(build)
      PROVE  EveryEndIsFiled'
  <2>1. UNCHANGED <<handler, filed>> /\ worker.pc # "retry"
    BY <1>6 DEF CreateZTPLog, WorkerFrame
  <2>2. faults' = faults \/ \E f \in Fault \ {"crash"} : Fail(f)
    BY <1>3, <1>6 DEF CreateZTPLog
  <2>3. \A i \in DOMAIN logs : BeingFiled(i) => BeingFiled(i)'
    BY <2>1 DEF BeingFiled
  <2>4. \A i \in DOMAIN logs' : logs'[i].done => i \in DOMAIN logs /\ logs'[i] = logs[i]
    <3>1. CASE logs' = Append(logs, Started)
      <4>1. \A i \in DOMAIN logs' : (i \in DOMAIN logs /\ logs'[i] = logs[i]) \/ logs'[i] = Started
        BY <1>1, <3>1
      <4>2. ~Started.done
        BY DEF Started
      <4> QED BY <4>1, <4>2
    <3> QED BY <1>6, <3>1 DEF CreateZTPLog
  <2> QED BY <1>0, <2>1, <2>2, <2>3, <2>4, LinesKept
<1>7. ASSUME MarkSent \/ CloseAttempt PROVE EveryEndIsFiled'
  <2>0. PICK i : i = worker.log
    OBVIOUS
  <2>1. UNCHANGED <<handler, filed>> /\ worker.pc # "retry"
    BY <1>7 DEF MarkSent, CloseAttempt, WorkerFrame
  <2>2. faults' = faults \/ \E f \in Fault \ {"crash"} : Fail(f)
    BY <1>3, <1>7 DEF MarkSent, CloseAttempt
  <2>3. i \in DOMAIN logs /\ worker \in [pc : {"rest", "check", "send", "mark", "close", "retry"},
                                          log : {0} \cup DOMAIN logs]
    BY <1>7, <2>0 DEF MarkSent, CloseAttempt, IInv, Counted, TypeOK
  <2>4. \A j \in DOMAIN logs : BeingFiled(j) => BeingFiled(j)'
    BY <2>1 DEF BeingFiled
  <2>5. CASE logs' = logs
    BY <1>0, <2>1, <2>2, <2>4, <2>5, SameRows
  <2>6. CASE MarkSent /\ logs' # logs
    <3> DEFINE row == [logs[i] EXCEPT !.progress = 3]
    <3>1. UpdateRow(i, row)
      BY <2>0, <2>6 DEF MarkSent
    <3>2. row \in Log /\ row.done = logs[i].done /\ row.fault = logs[i].fault
      BY <1>1, <2>3, RowEdits
    <3> HIDE DEF row
    <3> QED BY <1>0, <2>1, <2>2, <2>3, <2>4, <3>1, <3>2, EndOfRow, LinesKept
  <2>7. CASE CloseAttempt /\ logs' # logs
    <3> DEFINE row == [logs[i] EXCEPT !.progress = 6, !.done = TRUE, !.fault = TRUE]
    <3>1. UpdateRow(i, row) /\ worker' = [worker EXCEPT !.pc = "retry"]
      BY <2>0, <2>7 DEF CloseAttempt
    <3>2. row \in Log /\ row.fault
      BY <1>1, <2>3, RowEdits
    <3>3. BeingFiled(i)'
      BY <2>0, <2>3, <3>1 DEF BeingFiled
    <3> HIDE DEF row
    <3> QED BY <1>0, <2>1, <2>2, <2>3, <2>4, <3>1, <3>2, <3>3, EndOfRow, LinesKept
  <2> QED BY <1>7, <2>5, <2>6, <2>7
<1>8. ASSUME NEW h \in Handler, Report(h) PROVE EveryEndIsFiled'
  <2>1. PICK i \in Attempt, result \in {"ok", "failed"} : StartupResult(h, i, result)
    BY <1>8 DEF Report
  <2>2. handler' = handler \/ \E j : handler' = [handler EXCEPT ![h] = [pc |-> result, log |-> j]]
    BY <2>1 DEF StartupResult
  <2>3. UNCHANGED <<logs, filed, worker>> /\ handler[h].pc = "idle"
    BY <2>1 DEF StartupResult, EventFrame, workVars, Idle
  <2>4. faults' = faults \/ \E f \in Fault \ {"crash"} : Fail(f)
    BY <1>3, <2>1 DEF StartupResult, Reported
  <2>5. \A x \in Handler : handler[x].pc = "retry" => handler'[x] = handler[x]
    BY <1>0, <2>2, <2>3 DEF TypeOK
  <2>6. \A j \in DOMAIN logs : BeingFiled(j) => BeingFiled(j)'
    BY <2>3, <2>5 DEF BeingFiled
  <2> QED BY <1>0, <2>3, <2>4, <2>6, SameRows
<1>9. ASSUME CreateRetryLog PROVE EveryEndIsFiled'
  <2> DEFINE x == worker.log
  <2>1. UNCHANGED <<handler, logs>> /\ worker.pc = "retry" /\ worker'.pc = "rest"
    BY <1>9 DEF CreateRetryLog, WorkerFrame, Resting
  <2>2. CASE filed' = File(x) /\ UNCHANGED faults
    <3>1. filed \subseteq filed' /\ (x \in DOMAIN logs => x \in filed')
      BY <1>1, <2>2 DEF File
    <3>2. \A j \in DOMAIN logs : BeingFiled(j) => BeingFiled(j)' \/ j \in filed'
      BY <2>1, <3>1 DEF BeingFiled
    <3> QED BY <1>0, <2>1, <2>2, <3>1, <3>2, LinesKept
  <2>3. CASE Fail("db") /\ UNCHANGED filed
    <3>1. \A j \in DOMAIN logs : BeingFiled(j) => BeingFiled(j)' \/ j = x
      BY <2>1 DEF BeingFiled
    <3>2. Missing' \subseteq Missing \cup {x}
      BY <2>1, <2>3, <3>1 DEF Missing
    <3>3. \A j \in DOMAIN logs' : Succeeded(j)' => j \in filed'
      BY <2>1, <2>3 DEF EveryEndIsFiled, Succeeded
    <3> QED BY <1>0, <2>3, <3>2, <3>3, LineMissing
  <2> QED BY <1>9, <2>2, <2>3 DEF CreateRetryLog
<1>10. ASSUME NEW h \in Handler, SaveFaultRetryLog(h) PROVE EveryEndIsFiled'
  <2> DEFINE x == handler[h].log
  <2>1. UNCHANGED <<worker, logs>> /\ handler' = [handler EXCEPT ![h] = Idle] /\ handler[h].pc = "retry"
    BY <1>10 DEF SaveFaultRetryLog, EventFrame, workVars
  <2>2. \A j \in DOMAIN logs : BeingFiled(j) => BeingFiled(j)' \/ j = x
    <3>1. \A g \in Handler \ {h} : handler'[g] = handler[g]
      BY <1>0, <2>1 DEF TypeOK
    <3> QED BY <2>1, <3>1 DEF BeingFiled
  <2>3. CASE filed' = File(x) /\ UNCHANGED faults
    <3>1. filed \subseteq filed' /\ (x \in DOMAIN logs => x \in filed')
      BY <1>1, <2>3 DEF File
    <3> QED BY <1>0, <2>1, <2>2, <2>3, <3>1, LinesKept
  <2>4. CASE Fail("db") /\ UNCHANGED filed
    <3>1. Missing' \subseteq Missing \cup {x}
      BY <2>1, <2>2, <2>4 DEF Missing
    <3>2. \A j \in DOMAIN logs' : Succeeded(j)' => j \in filed'
      BY <2>1, <2>4 DEF EveryEndIsFiled, Succeeded
    <3> QED BY <1>0, <2>4, <3>1, <3>2, LineMissing
  <2> QED BY <1>10, <2>3, <2>4 DEF SaveFaultRetryLog
<1>11. ASSUME NEW h \in Handler, SaveSuccess(h) PROVE EveryEndIsFiled'
  <2> DEFINE i   == handler[h].log
             row == [logs[i] EXCEPT !.progress = 6, !.done = TRUE]
  <2>1. worker' = worker /\ handler' = [handler EXCEPT ![h] = Idle] /\ handler[h].pc = "ok"
    BY <1>11 DEF SaveSuccess, EventFrame, workVars
  <2>2. faults' = faults \/ \E f \in Fault \ {"crash"} : Fail(f)
    BY <1>3, <1>11 DEF SaveSuccess
  <2>3. \A j \in DOMAIN logs : BeingFiled(j) => BeingFiled(j)'
    <3>1. \A g \in Handler \ {h} : handler'[g] = handler[g]
      BY <1>0, <2>1 DEF TypeOK
    <3> QED BY <2>1, <3>1 DEF BeingFiled
  <2>4. \/ logs' = logs /\ filed' = filed
        \/ i # 0 /\ UpdateRow(i, row) /\ filed' = File(i)
    BY <1>11 DEF SaveSuccess
  <2>5. CASE logs' = logs /\ filed' = filed
    BY <1>0, <2>2, <2>3, <2>5, SameRows
  <2>6. CASE i # 0 /\ UpdateRow(i, row) /\ filed' = File(i)
    <3>1. i \in DOMAIN logs
      BY <1>0, <2>6 DEF TypeOK
    <3>2. row \in Log
      BY <1>1, <3>1, RowEdits
    <3> HIDE DEF i, row
    <3>3. filed \subseteq filed' /\ i \in filed'
      BY <2>6 DEF File
    <3> QED BY <1>0, <2>2, <2>3, <2>6, <3>1, <3>2, <3>3, EndOfRow, LinesKept
  <2> QED BY <2>4, <2>5, <2>6
<1>12. ASSUME NEW h \in Handler, SaveFailure(h) PROVE EveryEndIsFiled'
  <2>0. PICK i : i = handler[h].log
    OBVIOUS
  <2> DEFINE row == [logs[i] EXCEPT !.done = TRUE, !.fault = TRUE]
  <2>1. /\ UNCHANGED <<worker, filed>>
        /\ handler' = [handler EXCEPT ![h] = [handler[h] EXCEPT !.pc = "retry"]]
        /\ handler[h].pc = "failed"
    BY <1>12 DEF SaveFailure, EventFrame, workVars
  <2>2. faults' = faults \/ \E f \in Fault \ {"crash"} : Fail(f)
    BY <1>3, <1>12 DEF SaveFailure
  <2>3. /\ \A g \in Handler \ {h} : handler'[g] = handler[g]
        /\ handler'[h].pc = "retry" /\ handler'[h].log = i
    BY <1>0, <2>0, <2>1 DEF TypeOK
  <2>4. BeingFiled(i)' /\ \A j \in DOMAIN logs : BeingFiled(j) => BeingFiled(j)'
    BY <2>1, <2>3 DEF BeingFiled
  <2>5. CASE logs' = logs
    BY <1>0, <2>1, <2>2, <2>4, <2>5, SameRows
  <2>6. CASE i # 0 /\ UpdateRow(i, row)
    <3>1. i \in DOMAIN logs
      BY <1>0, <2>0, <2>6 DEF TypeOK
    <3>2. row \in Log /\ row.fault
      BY <1>1, <3>1, RowEdits
    <3>3. BeingFiled(i)'
      BY <2>4
    <3> HIDE DEF row
    <3> QED BY <1>0, <2>1, <2>2, <2>4, <2>6, <3>1, <3>2, <3>3, EndOfRow, LinesKept
  <2> QED BY <1>12, <2>0, <2>5, <2>6 DEF SaveFailure
<1>13. ASSUME Crash PROVE EveryEndIsFiled'
  <2> DEFINE hand == {handler[h].log : h \in Handler}
             f    == [h \in Handler |-> handler[h].log]
  <2>1. UNCHANGED <<logs, filed>>
    BY <1>13 DEF Crash
  <2>2. faults'["db"] = faults["db"] /\ faults'["crash"] = faults["crash"] + 1
    <3>1. "db" \in Fault /\ "crash" \in Fault
      BY DEF Fault
    <3> QED BY <1>0, <1>13, <3>1, FailAdds DEF Crash
  <2>3. IsFiniteSet(hand) /\ Cardinality(hand) <= Cardinality(Handler)
    <3>1. f \in Surjection(Handler, hand)
      BY DEF Surjection
    <3> QED BY <3>1, FS_Surjection, ZtpAssumption
  <2>4. Missing' \subseteq (Missing \cup hand) \cup {worker.log}
    BY <2>1 DEF Missing, BeingFiled
  <2> HIDE DEF hand
  <2>5. /\ IsFiniteSet(Missing \cup hand) /\ Cardinality(Missing \cup hand) \in Nat
        /\ Cardinality(Missing \cup hand) <= Cardinality(Missing) + Cardinality(Handler)
    <3>1. IsFiniteSet(Missing) /\ Cardinality(Missing) \in Nat /\ Cardinality(hand) \in Nat
          /\ Cardinality(Handler) \in Nat
      BY <1>0, <2>3, FilingFinite, FS_CardinalityType
    <3>2. /\ IsFiniteSet(Missing \cup hand)
          /\ Cardinality(Missing \cup hand)
               = Cardinality(Missing) + Cardinality(hand) - Cardinality(Missing \cap hand)
      BY <2>3, <3>1, FS_Union
    <3>3. Cardinality(Missing \cap hand) \in Nat /\ Cardinality(Missing \cup hand) \in Nat
      <4>1. IsFiniteSet(Missing \cap hand)
        BY <3>1, FS_Intersection
      <4> QED BY <3>2, <4>1, FS_CardinalityType
    <3> QED BY <2>3, <3>1, <3>2, <3>3
  <2>6. Cardinality(Missing)' \in Nat
        /\ Cardinality(Missing)' <= Cardinality(Missing \cup hand) + 1
    BY <2>4, <2>5, OneMore
  <2>7. (faults["crash"] + 1) * (Cardinality(Handler) + 1)
          = faults["crash"] * (Cardinality(Handler) + 1) + Cardinality(Handler) + 1
    BY <1>0, FilingFinite, CrashPays
  <2>8. \A j \in DOMAIN logs' : Succeeded(j)' => j \in filed'
    BY <2>1 DEF EveryEndIsFiled, Succeeded
  <2> QED BY <1>0, <2>2, <2>5, <2>6, <2>7, <2>8, FilingFinite DEF EveryEndIsFiled
<1> QED BY <1>4, <1>5, <1>6, <1>7, <1>8, <1>9, <1>10, <1>11, <1>12, <1>13
        DEF Next, WorkerStep, HandlerStep

\* An attempt that succeeded has its line in the history.  One that failed has it, is
\* about to get it, or lost it to an insert that failed or to a crash between the two
\* writes (createRetryLog of the ZTP worker, handleStartupResult).
THEOREM EndsAreFiled == Spec => []EveryEndIsFiled
<1>1. Init => EveryEndIsFiled
  <2> SUFFICES ASSUME Init PROVE EveryEndIsFiled
    OBVIOUS
  <2>1. TypeOK
    BY InitInv DEF IInv
  <2>2. Missing = {} /\ DOMAIN logs = {} /\ Cardinality({}) = 0
    BY FS_EmptySet DEF Init, Missing
  <2> QED BY <2>1, <2>2, FilingFinite DEF EveryEndIsFiled
<1> QED BY <1>1, FiledStep, Invariance, PTL DEF Spec

=============================================================================
