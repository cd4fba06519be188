---------------------------- MODULE ZtpProvision ----------------------------
(***************************************************************************)
(* Zero-touch provisioning of one device.  A request puts a message on     *)
(* queue:ztp; the ZTP worker makes a ztp_log row for the attempt, sends    *)
(* the parameters, and writes down how far it came.  The device starts up  *)
(* with them and reports its stages and the result in Informs, which the   *)
(* server files under whatever attempt is open.                            *)
(***************************************************************************)
EXTENDS Integers, Sequences, FiniteSets, Functions

CONSTANTS
  Handler,      \* Informs with a startup result that are processed at a time
  MaxAttempt,   \* bound on the messages put on the queue
  MaxFault      \* bound on the number of faults in a behaviour

\* again is a startup result that answers no attempt, or one a second time.
Fault == {"db", "push", "resend", "lose", "again", "delete", "crash"}

ASSUME ZtpAssumption ==
  /\ MaxAttempt \in Nat /\ MaxFault \in Nat
  /\ IsFiniteSet(Handler)

VARIABLES
  queue,     \* how many messages are on queue:ztp
  asked,     \* how many messages have been put there
  logs,      \* the rows of ztp_log, in the order of their ids
  filed,     \* the attempts that have a row in ztp_retry_log
  worker,    \* the message the worker has in hand
  handler,   \* the startup results being processed
  sent,      \* the attempts whose parameters were put into the command channel
  answer,    \* what the device reported of each attempt
  overlap,   \* was an attempt begun before the device had finished another?
  late,      \* the attempts marked as sent after they had been closed
  faults     \* how often each fault has happened

workVars == <<queue, worker>>
vars == <<workVars, asked, logs, filed, handler, sent, answer, overlap, late, faults>>

-----------------------------------------------------------------------------

\* Progress is 0 when started, 3 when sent or in the first stage, 4 and 5 in the
\* later stages, 6 when complete.
Log == [progress : {0, 3, 4, 5, 6}, done : BOOLEAN, fault : BOOLEAN, live : BOOLEAN]

Started == [progress |-> 0, done |-> FALSE, fault |-> FALSE, live |-> TRUE]

Open == {i \in DOMAIN logs : logs[i].live /\ ~logs[i].done}

Attempt == 1..MaxAttempt

\* log is 0 as long as the message has no row.
Resting == [pc |-> "rest", log |-> 0]

\* log is the row found for the result, 0 when none was open.
Idle == [pc |-> "idle", log |-> 0]

Init ==
  /\ queue = 0 /\ asked = 0
  /\ logs = <<>>
  /\ filed = {}
  /\ worker = Resting
  /\ handler = [h \in Handler |-> Idle]
  /\ sent = {}
  /\ answer = [i \in Attempt |-> "none"]
  /\ overlap = FALSE
  /\ late = {}
  /\ faults = [f \in Fault |-> 0]

Fail(f) ==
  /\ FoldFunction(+, 0, faults) < MaxFault
  /\ faults' = [faults EXCEPT ![f] = @ + 1]

\* Updates of a row by its id change nothing when the row has been deleted.
UpdateRow(i, row) ==
  logs' = [logs EXCEPT ![i] = IF @.live THEN row ELSE @]

\* A row in ztp_retry_log, for attempt i if there is one.
File(i) == filed \cup ({i} \ {0})

-----------------------------------------------------------------------------
(* Requests *)

\* ProvisionZTP, EnqueueZTPProvision: also for a device that is being provisioned.
\* The client sends the LPUSH again when its connection breaks; when it reports an
\* error the message may be there all the same.
EnqueueZTPProvision ==
  /\ \/ asked' = asked + 1 /\ UNCHANGED faults
     \/ asked' = asked + 2 /\ Fail("resend")
     \/ asked' \in {asked, asked + 1} /\ Fail("push")
  /\ asked' <= MaxAttempt
  /\ queue' = queue + (asked' - asked)
  /\ UNCHANGED <<worker, logs, filed, handler, sent, answer, overlap, late>>

\* BatchReZTP and DeleteZTPFiles delete the rows of the device, open ones too.
DeleteZTPLogs ==
  /\ Open # {}
  /\ Fail("delete")
  /\ logs' = [i \in DOMAIN logs |-> [logs[i] EXCEPT !.live = FALSE]]
  /\ UNCHANGED <<workVars, asked, filed, handler, sent, answer, overlap, late>>

-----------------------------------------------------------------------------
(* ZTPWorker.pollLoop, handleProvision *)

WorkerFrame == UNCHANGED <<asked, handler, answer>>

\* BRPOP; the message may be lost on its way.
Pop ==
  /\ worker = Resting
  /\ queue > 0
  /\ queue' = queue - 1
  /\ \/ worker' = [Resting EXCEPT !.pc = "check"] /\ UNCHANGED faults
     \/ Fail("lose") /\ UNCHANGED worker
  /\ WorkerFrame /\ UNCHANGED <<logs, filed, sent, overlap, late>>

\* The device is gone, has no serial number or no parameters, or the settings
\* cannot be read.
Refuse ==
  /\ worker.pc = "check"
  /\ worker' = [worker EXCEPT !.pc = "retry"]
  /\ WorkerFrame /\ UNCHANGED <<queue, logs, filed, sent, overlap, late, faults>>

\* Mutant of CreateZTPLog: the row is not made.
SendUnlogged(build) ==
  /\ worker.pc = "check"
  /\ worker' = [pc |-> build, log |-> Len(logs) + 1]
  /\ overlap' = (overlap \/ Open # {} \/ \E i \in sent : answer[i] = "none")
  /\ WorkerFrame /\ UNCHANGED <<logs, queue, filed, sent, late, faults>>

\* The rows of ztp_log and event_log are made in one transaction; when it fails
\* the message is dropped.  Then there may be no parameters to send.
CreateZTPLog(build) ==
  /\ worker.pc = "check"
  /\ \/ /\ logs' = Append(logs, Started)
        /\ worker' = [pc |-> build, log |-> Len(logs) + 1]
        /\ overlap' = (overlap \/ Open # {} \/ \E i \in sent : answer[i] = "none")
        /\ UNCHANGED faults
     \/ /\ Fail("db")
        /\ worker' = Resting
        /\ UNCHANGED <<logs, overlap>>
  /\ WorkerFrame /\ UNCHANGED <<queue, filed, sent, late>>

\* SendSetParameterValues: when it reports an error the command may be in the
\* channel all the same.
SendParameters ==
  /\ worker.pc = "send"
  /\ \/ /\ sent' = sent \cup {worker.log}
        /\ worker' = [worker EXCEPT !.pc = "mark"]
        /\ UNCHANGED faults
     \/ /\ Fail("push")
        /\ sent' \in {sent, sent \cup {worker.log}}
        /\ worker' = [worker EXCEPT !.pc = "close"]
  /\ WorkerFrame /\ UNCHANGED <<queue, logs, filed, overlap, late>>

\* Progress 3 is written whatever the device has reported meanwhile; an error is
\* ignored.
MarkSent ==
  LET row == logs[worker.log] IN
  /\ worker.pc = "mark"
  /\ \/ /\ UpdateRow(worker.log, [row EXCEPT !.progress = 3])
        /\ late' = IF row.live /\ row.done THEN late \cup {worker.log} ELSE late
        /\ UNCHANGED faults
     \/ Fail("db") /\ UNCHANGED <<logs, late>>
  /\ worker' = Resting
  /\ WorkerFrame /\ UNCHANGED <<queue, filed, sent, overlap>>

\* Mutant of CloseAttempt: an attempt that failed gets no line in the history.
CloseQuietly ==
  /\ worker.pc = "close"
  /\ \/ /\ UpdateRow(worker.log, [logs[worker.log] EXCEPT !.progress = 6, !.done = TRUE, !.fault = TRUE])
        /\ UNCHANGED faults
     \/ Fail("db") /\ UNCHANGED logs
  /\ worker' = Resting
  /\ WorkerFrame /\ UNCHANGED <<queue, filed, sent, overlap, late>>

\* Mutants of CloseAttempt: the attempt is not marked as done; success and fault
\* are mixed up.
CloseHalfway ==
  /\ worker.pc = "close"
  /\ UpdateRow(worker.log, [logs[worker.log] EXCEPT !.progress = 6, !.fault = TRUE])
  /\ worker' = [worker EXCEPT !.pc = "retry"]
  /\ WorkerFrame /\ UNCHANGED <<queue, filed, sent, overlap, late, faults>>

CloseAsSuccess ==
  /\ worker.pc = "close"
  /\ UpdateRow(worker.log, [logs[worker.log] EXCEPT !.progress = 6, !.done = TRUE])
  /\ worker' = [worker EXCEPT !.pc = "retry"]
  /\ WorkerFrame /\ UNCHANGED <<queue, filed, sent, overlap, late, faults>>

\* updateZTPLogDone.
CloseAttempt ==
  /\ worker.pc = "close"
  /\ \/ /\ UpdateRow(worker.log, [logs[worker.log] EXCEPT !.progress = 6, !.done = TRUE, !.fault = TRUE])
        /\ UNCHANGED faults
     \/ Fail("db") /\ UNCHANGED logs
  /\ worker' = [worker EXCEPT !.pc = "retry"]
  /\ WorkerFrame /\ UNCHANGED <<queue, filed, sent, overlap, late>>

\* createRetryLog: a row for the attempt, or for a message that was refused.
CreateRetryLog ==
  /\ worker.pc = "retry"
  /\ \/ filed' = File(worker.log) /\ UNCHANGED faults
     \/ Fail("db") /\ UNCHANGED filed
  /\ worker' = Resting
  /\ WorkerFrame /\ UNCHANGED <<queue, logs, sent, overlap, late>>

WorkerStep ==
  \/ Pop \/ Refuse
  \/ \E build \in {"send", "close"} : CreateZTPLog(build)
  \/ SendParameters \/ MarkSent \/ CloseAttempt \/ CreateRetryLog

-----------------------------------------------------------------------------
(* Informs of the device *)

EventFrame == UNCHANGED <<workVars, asked, sent, overlap, late>>

\* handleStartupStage writes down the stage in all open attempts.
StageReport(progress) ==
  /\ sent # {}
  /\ logs' = [i \in DOMAIN logs |->
                IF i \in Open THEN [logs[i] EXCEPT !.progress = progress] ELSE logs[i]]
  /\ EventFrame /\ UNCHANGED <<filed, handler, answer, faults>>

\* The device reports how its startup with the parameters of attempt i went.
Reported(i, result) ==
  \/ /\ i \in sent /\ answer[i] = "none"
     /\ answer' = [answer EXCEPT ![i] = result]
     /\ UNCHANGED faults
  \/ Fail("again") /\ UNCHANGED answer

\* handleStartupResult looks for an open attempt, whichever it is when there are
\* several; that there is none is no error.  When the device or the attempt cannot be
\* looked up the result is ignored.
StartupResult(h, i, result) ==
  /\ handler[h] = Idle
  /\ \/ /\ Reported(i, result)
        /\ \E j \in IF Open = {} THEN {0} ELSE Open :
             handler' = [handler EXCEPT ![h] = [pc |-> result, log |-> j]]
     \/ /\ i \in sent /\ answer[i] = "none"
        /\ answer' = [answer EXCEPT ![i] = result]
        /\ Fail("db")
        /\ UNCHANGED handler
  /\ EventFrame /\ UNCHANGED <<logs, filed>>

\* Mutant of SaveSuccess: the progress stays as it is.
SaveSuccessOnly(h) ==
  /\ handler[h].pc = "ok" /\ handler[h].log # 0
  /\ UpdateRow(handler[h].log, [logs[handler[h].log] EXCEPT !.done = TRUE])
  /\ filed' = File(handler[h].log)
  /\ handler' = [handler EXCEPT ![h] = Idle]
  /\ EventFrame /\ UNCHANGED <<answer, faults>>

\* The row and a line of the history are written in one transaction; an update
\* without a row found is an error, and undoes it.
SaveSuccess(h) ==
  LET i == handler[h].log IN
  /\ handler[h].pc = "ok"
  /\ \/ /\ i # 0
        /\ UpdateRow(i, [logs[i] EXCEPT !.progress = 6, !.done = TRUE])
        /\ filed' = File(i)
        /\ UNCHANGED faults
     \/ /\ (i = 0 /\ UNCHANGED faults) \/ Fail("db")
        /\ UNCHANGED <<logs, filed>>
  /\ handler' = [handler EXCEPT ![h] = Idle]
  /\ EventFrame /\ UNCHANGED answer

\* The error of the update is ignored here.
SaveFailure(h) ==
  LET i == handler[h].log IN
  /\ handler[h].pc = "failed"
  /\ \/ /\ i # 0
        /\ UpdateRow(i, [logs[i] EXCEPT !.done = TRUE, !.fault = TRUE])
        /\ UNCHANGED faults
     \/ /\ (i = 0 /\ UNCHANGED faults) \/ Fail("db")
        /\ UNCHANGED logs
  /\ handler' = [handler EXCEPT ![h].pc = "retry"]
  /\ EventFrame /\ UNCHANGED <<filed, answer>>

\* In a transaction of its own; its error is ignored too.
SaveFaultRetryLog(h) ==
  /\ handler[h].pc = "retry"
  /\ \/ filed' = File(handler[h].log) /\ UNCHANGED faults
     \/ Fail("db") /\ UNCHANGED filed
  /\ handler' = [handler EXCEPT ![h] = Idle]
  /\ EventFrame /\ UNCHANGED <<logs, answer>>

Report(h) == \E i \in Attempt, result \in {"ok", "failed"} : StartupResult(h, i, result)

HandlerStep(h) == SaveSuccess(h) \/ SaveFailure(h) \/ SaveFaultRetryLog(h)

\* The server dies and restarts.
Crash ==
  /\ Fail("crash")
  /\ worker' = Resting
  /\ handler' = [h \in Handler |-> Idle]
  /\ UNCHANGED <<queue, asked, logs, filed, sent, answer, overlap, late>>

Next ==
  \/ EnqueueZTPProvision \/ DeleteZTPLogs
  \/ WorkerStep
  \/ \E progress \in {3, 4, 5} : StageReport(progress)
  \/ \E h \in Handler : Report(h) \/ HandlerStep(h)
  \/ Crash

Spec == Init /\ [][Next]_vars

\* The worker polls for as long as the server runs, and Informs are processed to
\* their end.  A device that got its parameters starts up, and says how it went.
Fairness ==
  /\ WF_vars(WorkerStep)
  /\ \A h \in Handler : WF_vars(HandlerStep(h))
  /\ WF_vars(\E h \in Handler : Report(h) /\ answer' # answer)

FairSpec == Spec /\ Fairness

-----------------------------------------------------------------------------
(* Properties *)

TypeOK ==
  /\ queue \in 0..MaxAttempt /\ asked \in 0..MaxAttempt
  /\ logs \in Seq(Log) /\ Len(logs) + queue <= asked
  /\ filed \subseteq DOMAIN logs
  /\ worker \in [pc : {"rest", "check", "send", "mark", "close", "retry"},
                 log : {0} \cup DOMAIN logs]
  /\ handler \in [Handler -> [pc : {"idle", "ok", "failed", "retry"},
                              log : {0} \cup DOMAIN logs]]
  /\ sent \subseteq DOMAIN logs /\ late \subseteq sent
  /\ answer \in [Attempt -> {"none", "ok", "failed"}]
  /\ overlap \in BOOLEAN
  /\ faults \in [Fault -> Nat]

Succeeded(i) == logs[i].done /\ ~logs[i].fault

\* An attempt that is closed as a success is one the device reported as such, as
\* long as there is one attempt at a time and the device reports nothing twice.
SuccessIsOwn ==
  ~overlap /\ faults["again"] = 0 =>
    \A i \in DOMAIN logs : Succeeded(i) => answer[i] = "ok"

\* A success is shown as complete, unless "sent" was written down after it.
SuccessIsShown ==
  \A i \in DOMAIN logs : Succeeded(i) => logs[i].progress = 6 \/ i \in late

\* Somebody is about to write a line of the history for attempt i.
BeingFiled(i) ==
  \/ worker.pc = "retry" /\ worker.log = i
  \/ \E h \in Handler : handler[h].pc = "retry" /\ handler[h].log = i

Missing == {i \in DOMAIN logs : logs[i].done /\ i \notin filed /\ ~BeingFiled(i)}

\* An attempt that succeeded has its line in the history, whatever fails.  One that
\* failed has it or is about to get it, but for one attempt for every line that could
\* not be written, and those that a crash has found between the two writes.
EveryEndIsFiled ==
  /\ \A i \in DOMAIN logs : Succeeded(i) => i \in filed
  /\ Cardinality(Missing) <= faults["db"] + faults["crash"] * (Cardinality(Handler) + 1)

\* "Create fault retry log (atomic with the update above)" (event_inform.go:240): an
\* attempt that the device reports as failed is closed together with its line.
FailureIsAtomic ==
  \A i \in DOMAIN logs :
    logs[i].done /\ answer[i] = "failed" => i \in filed \/ BeingFiled(i)

\* A closed attempt changes only by someone who had it in hand when it was open:
\* the worker that sent it, or a result that found it open.
ClosedStays ==
  [][\A i \in DOMAIN logs :
       logs[i].done /\ logs'[i] # logs[i] =>
         \/ ~logs'[i].live
         \/ worker.log = i
         \/ \E h \in Handler : handler[h].log = i]_vars

Lost == overlap \/ \E f \in {"db", "again", "crash"} : faults[f] > 0

\* One attempt at a time is closed in the end, or deleted: by its worker, or by
\* the result the device reports of it.
AttemptsEnd == []<>(Lost \/ Open = {})

=============================================================================
