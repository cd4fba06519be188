----------------------------- MODULE DeviceTasks -----------------------------
(***************************************************************************)
(* A task of operators for several devices: an upgrade, a rollback, a      *)
(* reboot or a factory reset.  Requests create, start, cancel and delete   *)
(* it; starting it goes through the list of its devices, makes a log row   *)
(* for each entry and puts a message for it on a Redis queue.  The         *)
(* messages of upgrades and rollbacks are taken by a worker that sends a   *)
(* Download to the device; those of reboots and resets go to               *)
(* operation_queue, whose consumer is another program.                     *)
(***************************************************************************)
EXTENDS Integers, Sequences, FiniteSets, Functions

CONSTANTS
  Element,   \* the devices
  Lists,     \* the lists of devices a task may be made for
  Request,   \* HTTP requests being processed
  Kinds,     \* the kinds of task considered
  Nobody,    \* the empty serial number
  MaxFault   \* bound on the number of faults in a behaviour

Fault == {"db", "push", "resend", "lose", "lockTTL", "crash", "delete"}

ASSUME TasksAssumption ==
  /\ Kinds \subseteq {"upgrade", "rollback", "reboot", "reset"}
  /\ Lists \subseteq Seq(Element) \ {<<>>}
  /\ Nobody \notin Element
  /\ IsFiniteSet(Request)
  /\ MaxFault \in Nat

VARIABLES
  kind,       \* the kind of the task; never changes
  elementIds, \* the devices of the task, in order; one may be listed twice; never changes
  status,     \* the status column of the task's row
  req,        \* the requests
  startLock,  \* is <kind>_task_start_<id> set?
  cancelLock, \* is <kind>_task_cancel_<id> set?
  overlap,    \* have two requests to start it been past the status at a time?
  logs,       \* upgrade_log, or event_log; a row is known by its place
  queue,      \* queue:upgrade, or operation_queue: rows, oldest first
  worker,     \* the message the upgrade worker has in hand
  sent,       \* the Downloads put into the command channel of a device
  hasFile,    \* is the upgrade file of the task still there?
  deleted,    \* the devices deleted from the registry
  faults      \* how often each fault has happened

taskVars == <<kind, elementIds, status>>
lockVars == <<startLock, cancelLock, overlap>>
workVars == <<worker, sent>>
envVars  == <<hasFile, deleted>>
vars == <<taskVars, req, lockVars, logs, queue, workVars, envVars, faults>>

-----------------------------------------------------------------------------

\* The row is missing, or was made without a status; waiting, executing,
\* cancelled (4 for reboots and resets, 5 for upgrades and rollbacks).
Status == {"none", "gone", "new", "waiting", "executing", "cancelled"}

Exists == status \notin {"none", "gone"}

\* at is the place on the list that the row was made for.
Log == [at : DOMAIN elementIds, el : Element,
        downloaded : BOOLEAN, done : BOOLEAN, success : BOOLEAN]

NewLog(p) == [at |-> p, el |-> elementIds[p],
              downloaded |-> FALSE, done |-> FALSE, success |-> FALSE]

\* next is the place on the list to dispatch to, log the row made for the one before;
\* start says that the request starts the task, and has the lock.
Busy(pc, start) == [pc |-> pc, next |-> 1, log |-> 0, start |-> start]

Idle == Busy("idle", FALSE)

\* row is the log row as it was read, to the serial number found.
Resting == [pc |-> "rest", log |-> 0, row |-> NewLog(1), to |-> Nobody]

Init ==
  /\ kind \in Kinds
  /\ elementIds \in Lists
  /\ status = "none"
  /\ req = [r \in Request |-> Idle]
  /\ startLock = FALSE /\ cancelLock = FALSE /\ overlap = FALSE
  /\ logs = <<>>
  /\ queue = <<>>
  /\ worker = Resting
  /\ sent = <<>>
  /\ hasFile = TRUE
  /\ deleted = {}
  /\ faults = [f \in Fault |-> 0]

Fail(f) ==
  /\ FoldFunction(+, 0, faults) < MaxFault
  /\ faults' = [faults EXCEPT ![f] = @ + 1]

\* Tasks that go through the worker of this server.
Worked == kind \in {"upgrade", "rollback"}

Become(r, state) == req' = [req EXCEPT ![r] = state]

RequestFrame == UNCHANGED <<kind, elementIds, workVars, envVars>>

-----------------------------------------------------------------------------
(* Creation *)

\* CreateUpgradeTask and CreateRollbackTask insert the row and save its status
\* afterwards; at once is execution mode 1.
CreateTask(r) ==
  /\ Worked /\ status = "none"
  /\ req[r] = Idle
  /\ status' = "new"
  /\ Become(r, Busy("mode", FALSE))
  /\ RequestFrame /\ UNCHANGED <<lockVars, logs, queue, faults>>

\* An error of the save is ignored.
SaveNewStatus(r, now) ==
  /\ req[r].pc = "mode"
  /\ \/ status' = (IF now THEN "executing" ELSE "waiting") /\ UNCHANGED faults
     \/ Fail("db") /\ UNCHANGED status
  /\ Become(r, IF now THEN Busy("dispatch", FALSE) ELSE Idle)
  /\ RequestFrame /\ UNCHANGED <<lockVars, logs, queue>>

\* AddRebootTask and AddResetTask insert the row with its status.
AddTask(r, now) ==
  /\ ~Worked /\ status = "none"
  /\ req[r] = Idle
  /\ status' = (IF now THEN "executing" ELSE "waiting")
  /\ Become(r, IF now THEN Busy("dispatch", FALSE) ELSE Idle)
  /\ RequestFrame /\ UNCHANGED <<lockVars, logs, queue, faults>>

-----------------------------------------------------------------------------
(* Start: Start{Upgrade,Rollback,Reboot,Reset}Task *)

PastStatus(r) == req[r].start

\* Mutant of ReadToStart: the status is not looked at.
ReadToRestart(r) ==
  /\ Exists
  /\ req[r] = Idle
  /\ Become(r, Busy("lock", TRUE))
  /\ overlap' = (overlap \/ \E q \in Request : PastStatus(q))
  /\ RequestFrame
  /\ UNCHANGED <<status, startLock, cancelLock, logs, queue, faults>>
  /\ Len(logs) < 4

ReadToStart(r) ==
  /\ status = "waiting"
  /\ req[r] = Idle
  /\ Become(r, Busy("lock", TRUE))
  /\ overlap' = (overlap \/ \E q \in Request : PastStatus(q))
  /\ RequestFrame
  /\ UNCHANGED <<status, startLock, cancelLock, logs, queue, faults>>

\* Mutant of LockStart: SET in place of SET NX.
LockStartAnyway(r) ==
  /\ req[r].pc = "lock"
  /\ startLock' = TRUE
  /\ Become(r, [req[r] EXCEPT !.pc = "save"])
  /\ RequestFrame
  /\ UNCHANGED <<status, cancelLock, overlap, logs, queue, faults>>

LockStart(r) ==
  /\ req[r].pc = "lock"
  /\ startLock' = TRUE
  /\ Become(r, IF startLock THEN Idle ELSE [req[r] EXCEPT !.pc = "save"])
  /\ RequestFrame
  /\ UNCHANGED <<status, cancelLock, overlap, logs, queue, faults>>

\* The whole row that was read is saved as executing, and made again if it has
\* been deleted meanwhile.  An error is ignored.
SaveStarted(r) ==
  /\ req[r].pc = "save"
  /\ \/ status' = "executing" /\ UNCHANGED faults
     \/ Fail("db") /\ UNCHANGED status
  /\ Become(r, Busy("dispatch", TRUE))
  /\ RequestFrame /\ UNCHANGED <<lockVars, logs, queue>>

\* There is an entry left on the list.
Dispatches(r) == req[r].pc = "dispatch" /\ req[r].next <= Len(elementIds)

\* Mutant of CreateLog: a failed insert is not noticed.
CreateLogAnyway(r) ==
  /\ Dispatches(r)
  /\ \/ logs' = Append(logs, NewLog(req[r].next)) /\ UNCHANGED faults
     \/ Fail("db") /\ UNCHANGED logs
  /\ Become(r, [req[r] EXCEPT !.pc = "push", !.next = @ + 1, !.log = Len(logs) + 1])
  /\ RequestFrame /\ UNCHANGED <<status, lockVars, queue>>

\* CreateUpgradeLog, InsertEventLog: a row for the next entry.
CreateLog(r) ==
  /\ Dispatches(r)
  /\ \/ /\ logs' = Append(logs, NewLog(req[r].next))
        /\ Become(r, [req[r] EXCEPT !.pc = "push", !.next = @ + 1, !.log = Len(logs) + 1])
        /\ UNCHANGED faults
     \/ /\ Fail("db")
        /\ Become(r, [req[r] EXCEPT !.next = @ + 1])
        /\ UNCHANGED logs
  /\ RequestFrame /\ UNCHANGED <<status, lockVars, queue>>

\* Reboots and resets leave out a device that cannot be looked up or is on the
\* blacklist.
SkipBlacklisted(r) ==
  /\ ~Worked
  /\ Dispatches(r)
  /\ Become(r, [req[r] EXCEPT !.next = @ + 1])
  /\ RequestFrame /\ UNCHANGED <<status, lockVars, logs, queue, faults>>

\* For a device in upgrade they insert a row that reports the failure, and push no
\* message.  An error of the insert is ignored.
RefuseInUpgrade(r) ==
  /\ ~Worked
  /\ Dispatches(r)
  /\ \/ /\ logs' = Append(logs, [NewLog(req[r].next) EXCEPT !.done = TRUE])
        /\ UNCHANGED faults
     \/ Fail("db") /\ UNCHANGED logs
  /\ Become(r, [req[r] EXCEPT !.next = @ + 1])
  /\ RequestFrame /\ UNCHANGED <<status, lockVars, queue>>

\* Mutant of PushMessage: an error is made up for by pushing again.
PushAgain(r) ==
  LET i == req[r].log IN
  /\ req[r].pc = "push"
  /\ \/ queue' = Append(queue, i) /\ UNCHANGED faults
     \/ queue' \in {Append(queue, i), queue \o <<i, i>>} /\ Fail("push")
  /\ Become(r, [req[r] EXCEPT !.pc = "dispatch", !.log = 0])
  /\ RequestFrame /\ UNCHANGED <<status, lockVars, logs>>

\* LPUSH, sent again by the client when its connection breaks.  An error is
\* logged; the message may be there all the same.
PushMessage(r) ==
  LET i == req[r].log IN
  /\ req[r].pc = "push"
  /\ \/ queue' = Append(queue, i) /\ UNCHANGED faults
     \/ queue' = queue \o <<i, i>> /\ Fail("resend")
     \/ queue' \in {queue, Append(queue, i)} /\ Fail("push")
  /\ Become(r, [req[r] EXCEPT !.pc = "dispatch", !.log = 0])
  /\ RequestFrame /\ UNCHANGED <<status, lockVars, logs>>

\* All devices are served: DEL of the lock, whoever has it by now.
EndDispatch(r) ==
  /\ req[r].pc = "dispatch" /\ req[r].next > Len(elementIds)
  /\ startLock' = (startLock /\ ~req[r].start)
  /\ Become(r, Idle)
  /\ RequestFrame
  /\ UNCHANGED <<status, cancelLock, overlap, logs, queue, faults>>

-----------------------------------------------------------------------------
(* Cancel and delete *)

\* Cancel{Upgrade,Rollback}Task.
ReadToCancel(r) ==
  /\ Worked /\ status \in {"waiting", "executing"}
  /\ req[r] = Idle
  /\ Become(r, Busy("lockCancel", FALSE))
  /\ RequestFrame /\ UNCHANGED <<status, lockVars, logs, queue, faults>>

LockCancel(r) ==
  /\ req[r].pc = "lockCancel"
  /\ cancelLock' = TRUE
  /\ Become(r, IF cancelLock THEN Idle ELSE Busy("saveCancel", FALSE))
  /\ RequestFrame
  /\ UNCHANGED <<status, startLock, overlap, logs, queue, faults>>

\* An UPDATE where the status is waiting or executing.
SaveCancelled(r) ==
  /\ req[r].pc = "saveCancel"
  /\ status' \in {status, IF status \in {"waiting", "executing"}
                          THEN "cancelled" ELSE status}
  /\ cancelLock' = FALSE
  /\ Become(r, Idle)
  /\ RequestFrame /\ UNCHANGED <<startLock, overlap, logs, queue, faults>>

\* CancelRebootTask and CancelResetTask read the row whatever its status, and
\* save all of it; which makes it again if it has been deleted meanwhile.
ReadToDrop(r) ==
  /\ ~Worked /\ Exists
  /\ req[r] = Idle
  /\ Become(r, Busy("saveDropped", FALSE))
  /\ RequestFrame /\ UNCHANGED <<status, lockVars, logs, queue, faults>>

SaveDropped(r) ==
  /\ req[r].pc = "saveDropped"
  /\ status' \in {status, "cancelled"}
  /\ Become(r, Idle)
  /\ RequestFrame /\ UNCHANGED <<lockVars, logs, queue, faults>>

\* DeleteRebootTask, DeleteResetTask.
DeleteTask ==
  /\ ~Worked /\ Exists
  /\ status' = "gone"
  /\ RequestFrame /\ UNCHANGED <<req, lockVars, logs, queue, faults>>

\* A lock expires, after 60 or 30 seconds: while it is held (a fault), or when
\* its holder has died.
StartLockExpires ==
  /\ startLock
  /\ startLock' = FALSE
  /\ IF \E r \in Request : req[r].start /\ req[r].pc # "lock"
     THEN Fail("lockTTL") ELSE UNCHANGED faults
  /\ RequestFrame /\ UNCHANGED <<status, req, cancelLock, overlap, logs, queue>>

CancelLockExpires ==
  /\ cancelLock
  /\ cancelLock' = FALSE
  /\ IF \E r \in Request : req[r].pc = "saveCancel"
     THEN Fail("lockTTL") ELSE UNCHANGED faults
  /\ RequestFrame /\ UNCHANGED <<status, req, startLock, overlap, logs, queue>>

-----------------------------------------------------------------------------
(* UpgradeWorker.pollLoop, processMessage *)

WorkerFrame == UNCHANGED <<taskVars, req, lockVars, envVars>>

\* BRPOP; the message may be lost on its way.
Pop ==
  /\ Worked
  /\ worker = Resting
  /\ queue # <<>>
  /\ queue' = Tail(queue)
  /\ \/ worker' = [Resting EXCEPT !.pc = "find", !.log = Head(queue)] /\ UNCHANGED faults
     \/ Fail("lose") /\ UNCHANGED worker
  /\ WorkerFrame /\ UNCHANGED <<logs, sent>>

\* FindElementInfo finds no serial number for a deleted device, and no error
\* either; then the log row is loaded.  When the first query fails the log is
\* marked failed, when the second fails the message is dropped.
Find ==
  LET row == logs[worker.log] IN
  /\ worker.pc = "find"
  /\ \/ /\ worker' = [worker EXCEPT !.pc = "file", !.row = row,
                                    !.to = IF row.el \in deleted THEN Nobody ELSE row.el]
        /\ UNCHANGED faults
     \/ Fail("db") /\ worker' \in {[worker EXCEPT !.pc = "fail"], Resting}
  /\ WorkerFrame /\ UNCHANGED <<logs, queue, sent>>

\* The file of an upgrade may have been deleted; that of a rollback is asked for
\* with id 0, which no file has.
FindFile ==
  /\ worker.pc = "file"
  /\ \/ /\ worker' = [worker EXCEPT !.pc = IF kind = "upgrade" /\ hasFile THEN "send" ELSE "fail"]
        /\ UNCHANGED faults
     \/ Fail("db") /\ worker' = [worker EXCEPT !.pc = "fail"]
  /\ WorkerFrame /\ UNCHANGED <<logs, queue, sent>>

\* Mutant of SendDownload: an error is ignored.
SendIgnoringErrors ==
  /\ worker.pc = "send"
  /\ \/ sent' = Append(sent, [log |-> worker.log, to |-> worker.to]) /\ UNCHANGED faults
     \/ Fail("push") /\ UNCHANGED sent
  /\ worker' = [worker EXCEPT !.pc = "mark"]
  /\ WorkerFrame /\ UNCHANGED <<logs, queue>>

\* SendDownload puts the command into the channel of the device, twice when the
\* client sends the LPUSH again.  When it reports an error the command may be there
\* all the same.
SendDownload ==
  LET download == [log |-> worker.log, to |-> worker.to] IN
  /\ worker.pc = "send"
  /\ \/ /\ \/ sent' = Append(sent, download) /\ UNCHANGED faults
           \/ sent' = sent \o <<download, download>> /\ Fail("resend")
        /\ worker' = [worker EXCEPT !.pc = "mark"]
     \/ /\ Fail("push")
        /\ sent' \in {sent, Append(sent, download)}
        /\ worker' = [worker EXCEPT !.pc = "fail"]
  /\ WorkerFrame /\ UNCHANGED <<logs, queue>>

\* Mutant of MarkDownloaded: a save that fails is reported as a failure of the
\* upgrade.
MarkOrFail ==
  /\ worker.pc = "mark"
  /\ \/ /\ logs' = [logs EXCEPT ![worker.log] = [worker.row EXCEPT !.downloaded = TRUE]]
        /\ worker' = Resting
        /\ UNCHANGED faults
     \/ /\ Fail("db")
        /\ worker' = [worker EXCEPT !.pc = "fail"]
        /\ UNCHANGED logs
  /\ WorkerFrame /\ UNCHANGED <<queue, sent>>

\* The row that was read is saved with is_downloaded set; an error is logged.
MarkDownloaded ==
  /\ worker.pc = "mark"
  /\ \/ /\ logs' = [logs EXCEPT ![worker.log] = [worker.row EXCEPT !.downloaded = TRUE]]
        /\ UNCHANGED faults
     \/ Fail("db") /\ UNCHANGED logs
  /\ worker' = Resting
  /\ WorkerFrame /\ UNCHANGED <<queue, sent>>

\* Mutant of MarkFailed: a failed log is not marked as done.
MarkFailedOnly ==
  /\ worker.pc = "fail"
  /\ logs' = [logs EXCEPT ![worker.log].success = FALSE]
  /\ worker' = Resting
  /\ WorkerFrame /\ UNCHANGED <<queue, sent, faults>>

\* updateLogFailure reads the row again.
MarkFailed ==
  /\ worker.pc = "fail"
  /\ \/ /\ logs' = [logs EXCEPT ![worker.log].done = TRUE, ![worker.log].success = FALSE]
        /\ UNCHANGED faults
     \/ Fail("db") /\ UNCHANGED logs
  /\ worker' = Resting
  /\ WorkerFrame /\ UNCHANGED <<queue, sent>>

WorkerStep ==
  Pop \/ Find \/ FindFile \/ SendDownload \/ MarkDownloaded \/ MarkFailed

-----------------------------------------------------------------------------

DeleteUpgradeFile ==
  /\ hasFile
  /\ Fail("delete")
  /\ hasFile' = FALSE
  /\ UNCHANGED <<taskVars, req, lockVars, logs, queue, workVars, deleted>>

DeleteDevice(e) ==
  /\ e \notin deleted
  /\ Fail("delete")
  /\ deleted' = deleted \cup {e}
  /\ UNCHANGED <<taskVars, req, lockVars, logs, queue, workVars, hasFile>>

\* The server dies and restarts; Redis and the database keep what they have.
Crash ==
  /\ Fail("crash")
  /\ req' = [r \in Request |-> Idle]
  /\ worker' = Resting
  /\ UNCHANGED <<taskVars, lockVars, logs, queue, sent, envVars>>

Work(r) ==
  \/ \E now \in BOOLEAN : SaveNewStatus(r, now)
  \/ LockStart(r) \/ SaveStarted(r) \/ PushMessage(r) \/ EndDispatch(r)
  \/ CreateLog(r) \/ SkipBlacklisted(r) \/ RefuseInUpgrade(r)
  \/ LockCancel(r) \/ SaveCancelled(r) \/ SaveDropped(r)

Begin(r) ==
  \/ CreateTask(r) \/ ReadToStart(r) \/ ReadToCancel(r) \/ ReadToDrop(r)
  \/ \E now \in BOOLEAN : AddTask(r, now)

Next ==
  \/ \E r \in Request : Begin(r) \/ Work(r)
  \/ DeleteTask
  \/ StartLockExpires \/ CancelLockExpires
  \/ WorkerStep
  \/ DeleteUpgradeFile \/ \E e \in Element : DeleteDevice(e)
  \/ Crash

Spec == Init /\ [][Next]_vars

\* Requests that have begun are processed to their end, and the worker runs for
\* as long as the server does.
Fairness ==
  /\ \A r \in Request : WF_vars(Work(r))
  /\ WF_vars(WorkerStep)

FairSpec == Spec /\ Fairness

-----------------------------------------------------------------------------
(* Properties *)

TypeOK ==
  /\ kind \in Kinds /\ elementIds \in Lists
  /\ status \in Status
  /\ req \in [Request -> [pc : {"idle", "mode", "lock", "save", "dispatch", "push",
                                "lockCancel", "saveCancel", "saveDropped"},
                          next : 1..Len(elementIds) + 1, log : {0} \cup DOMAIN logs,
                          start : BOOLEAN]]
  /\ <<startLock, cancelLock, overlap, hasFile>> \in BOOLEAN \X BOOLEAN \X BOOLEAN \X BOOLEAN
  /\ logs \in Seq(Log)
  /\ queue \in Seq(DOMAIN logs)
  /\ worker \in [pc : {"rest", "find", "file", "send", "mark", "fail"},
                 log : {0} \cup DOMAIN logs, row : Log, to : Element \cup {Nobody}]
  /\ sent \in Seq([log : DOMAIN logs, to : Element \cup {Nobody}])
  /\ deleted \subseteq Element
  /\ faults \in [Fault -> Nat]

\* The requests that have the start lock, or had it when they took it.
Starting == {r \in Request : req[r].start /\ req[r].pc # "lock"}

\* One request at a time dispatches a task that waited, and one more for every
\* lock that expired under its holder: an unlock that deletes the lock of the
\* next holder does not let in more than that.
StartIsExclusive == Cardinality(Starting) <= 1 + faults["lockTTL"]

\* The rows made for place p of the list.
RowsAt(p) == {i \in DOMAIN logs : logs[i].at = p}

\* An entry of the list gets one row, and one more for every save of the status that
\* failed.  The status is not looked at again under the lock: when two requests have
\* been past it at a time, it may get a row from each, one after the other.
DispatchedOnce ==
  \A p \in DOMAIN elementIds :
    Cardinality(RowsAt(p)) <= (IF overlap THEN Cardinality(Request) ELSE 1) + faults["db"]

\* A task that is cancelled with no request in progress stays cancelled, or is
\* deleted.
CancelledForGood ==
  []((status = "cancelled" /\ \A r \in Request : req[r] = Idle) =>
       [](status \in {"cancelled", "gone"}))

SendsOf(i) == {k \in DOMAIN sent : sent[k].log = i}

\* One Download is sent for a row, and one more for every LPUSH, of the message or of
\* the Download itself, that the client has sent twice.
SentOnce == \A i \in DOMAIN logs : Cardinality(SendsOf(i)) <= 1 + faults["resend"]

\* A row that reports a failure is about a Download that was not sent, unless it
\* was sent with an error or its message was there twice.
FailureIsHonest ==
  faults["push"] = 0 /\ faults["resend"] = 0 =>
    \A i \in DOMAIN logs : logs[i].done => SendsOf(i) = {}

\* A row that reports the Download of the file: it was sent to that device, or to
\* nobody because the device had been deleted.
DownloadIsReal ==
  \A i \in DOMAIN logs : logs[i].downloaded =>
    \E k \in SendsOf(i) :
      \/ sent[k].to = logs[i].el
      \/ sent[k].to = Nobody /\ logs[i].el \in deleted

Settled(i) == logs[i].downloaded \/ logs[i].done

Lost == \E f \in {"db", "push", "lose", "crash"} : faults[f] > 0

\* Time and again every log row of an upgrade or rollback is marked as downloaded
\* or failed, if nothing is lost: a message that is gone is not made up for.
LogsSettle ==
  Worked => []<>(Lost \/ \A i \in DOMAIN logs : Settled(i))

=============================================================================
