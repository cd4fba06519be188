----------------------------- MODULE DeviceAlarms -----------------------------
(***************************************************************************)
(* The rows of the alarm table and everyone who writes them: the worker    *)
(* that raises and clears the alarm of a device that is offline, the       *)
(* handlers of the alarm events of Informs, operators who clear and        *)
(* acknowledge, the northbound interface, the threshold checker and the    *)
(* receiver of SNMP traps.  A row has a status and a type that overlap in  *)
(* meaning and that the writers do not treat alike.                        *)
(***************************************************************************)
EXTENDS Integers, Sequences, FiniteSets, Functions

CONSTANTS
  Device,   \* registered devices
  Handler,  \* Inform handlers
  None,     \* no device, row or operator
  Budget,   \* how often each kind of move may happen
  MaxMoves  \* bound on the number of moves in a behaviour

\* What drives the system from outside, and the faults.  Counting them bounds
\* the table: every row costs a move, except the first outage of a device.
Move == {"down", "event", "clear", "ack", "north", "breach", "trap", "dedupTTL",
         "overlap", "db", "redis", "crash"}

ASSUME AlarmsAssumption ==
  /\ Budget \in [Move -> Nat]
  /\ MaxMoves \in Nat
  /\ None \notin Device

VARIABLES
  online,   \* the devices whose device:online:<sn> key exists
  dash,     \* the devices whose online_<id> key, read by screens, exists
  alarms,   \* the alarm table; a row is known by its place, its id
  told,     \* the last message about a device on device:status:change
  worker,   \* the pass of the offline worker
  handler,  \* the alarm events being processed
  ack,      \* an operator's acknowledgement being processed
  checker,  \* the next step of the threshold checker
  dedup,    \* does the deduplication key of the threshold rule exist?
  raced,    \* rows written by an acknowledgement that had read another status
  done      \* how often each move has happened

workerVars == <<dash, told, worker>>
checkVars  == <<checker, dedup>>
vars == <<online, alarms, workerVars, handler, ack, checkVars, raced, done>>

-----------------------------------------------------------------------------

\* status: 1 active, 2 cleared, 3 active and acknowledged, 4 cleared and
\* acknowledged; 0 as the offline worker and the northbound interface clear.
\* type: 1 active, 2 history; 4 for what the threshold checker raises.
Row == [cause : {"offline", "device", "threshold", "trap"},
        dev : Device \cup {None}, status : 0..4, type : {1, 2, 4}]

NewRow(c, d, t) == [cause |-> c, dev |-> d, status |-> 1, type |-> t]

\* The rows of a cause and device.
Of(c, d) == {i \in DOMAIN alarms : alarms[i].cause = c /\ alarms[i].dev = d}

\* The outages the offline worker takes for open, and the alarms of a device
\* that an alarm event finds.
Uncleared(d) == {i \in Of("offline", d) : alarms[i].status # 0}
Active(d)    == {i \in Of("device", d) : alarms[i].type = 1}

Raise(c, d, t) == alarms' = Append(alarms, NewRow(c, d, t))

IdleHandler == [pc |-> "idle", dev |-> None, id |-> 0]

\* The worker is between passes, or handles device dev and has todo left.
Resting == [pc |-> "rest", dev |-> None, todo |-> {}]

WorkerState ==
  [pc : {"rest", "next", "set", "clear", "find", "create", "tellOn", "tellOff", "drop"},
   dev : Device \cup {None}, todo : SUBSET Device]

Init ==
  /\ online \in SUBSET Device
  /\ dash = {}
  /\ alarms = <<>>
  /\ told = [d \in Device |-> "nothing"]
  /\ worker = Resting
  /\ handler = [h \in Handler |-> IdleHandler]
  /\ ack = None
  /\ checker = "rest"
  /\ dedup = FALSE
  /\ raced = {}
  /\ done = [m \in Move |-> 0]

Spend(m) ==
  /\ done[m] < Budget[m]
  /\ FoldFunction(+, 0, done) < MaxMoves
  /\ done' = [done EXCEPT ![m] = @ + 1]

-----------------------------------------------------------------------------
(* Devices: updateDeviceOnlineStatus, with a time to live of 5 minutes *)

Inform(d) ==
  /\ online' = online \cup {d}
  /\ UNCHANGED <<alarms, workerVars, handler, ack, checkVars, raced, done>>

OnlineKeyExpires(d) ==
  /\ d \in online
  /\ Spend("down")
  /\ online' = online \ {d}
  /\ UNCHANGED <<alarms, workerVars, handler, ack, checkVars, raced>>

-----------------------------------------------------------------------------
(* OfflineWorker.checkAllDevices *)

\* What a step of the worker leaves alone.
WorkerStepFrame == UNCHANGED <<online, handler, ack, checkVars, raced>>

Goto(pc) == worker' = [worker EXCEPT !.pc = pc]

\* The worker has finished with a device.
NextDevice ==
  worker' = IF worker.todo = {} THEN Resting
            ELSE [worker EXCEPT !.pc = "next", !.dev = None]

StartPass ==
  /\ worker.pc = "rest"
  /\ worker' = [pc |-> "next", dev |-> None, todo |-> Device]
  /\ WorkerStepFrame /\ UNCHANGED <<dash, told, alarms, done>>

\* EXISTS of the online key; an error reads as "no".
CheckDevice(d) ==
  /\ worker.pc = "next"
  /\ d \in worker.todo
  /\ \/ /\ worker' = [pc |-> IF d \in online THEN "set" ELSE "find",
                      dev |-> d, todo |-> worker.todo \ {d}]
        /\ UNCHANGED done
     \/ /\ d \in online
        /\ Spend("redis")
        /\ worker' = [pc |-> "find", dev |-> d, todo |-> worker.todo \ {d}]
  /\ WorkerStepFrame /\ UNCHANGED <<dash, told, alarms>>

\* A failed SET, PUBLISH or DEL is logged or ignored.
SetDashboardKey ==
  /\ worker.pc = "set"
  /\ \/ dash' = dash \cup {worker.dev} /\ UNCHANGED done
     \/ Spend("redis") /\ UNCHANGED dash
  /\ Goto("clear")
  /\ WorkerStepFrame /\ UNCHANGED <<told, alarms>>

\* Mutants of ClearOfflineAlarm: an acknowledged alarm is not seen as open; the
\* recovery is not announced.
ClearUnacknowledged ==
  LET open == {i \in Uncleared(worker.dev) : alarms[i].status = 1} IN
  /\ worker.pc = "clear"
  /\ alarms' = [i \in DOMAIN alarms |->
        IF i \in open THEN [alarms[i] EXCEPT !.status = 0] ELSE alarms[i]]
  /\ IF open = {} THEN NextDevice ELSE Goto("tellOn")
  /\ WorkerStepFrame /\ UNCHANGED <<dash, told, done>>

ClearSilently ==
  LET open == Uncleared(worker.dev) IN
  /\ worker.pc = "clear"
  /\ alarms' = [i \in DOMAIN alarms |->
        IF i \in open THEN [alarms[i] EXCEPT !.status = 0] ELSE alarms[i]]
  /\ NextDevice
  /\ WorkerStepFrame /\ UNCHANGED <<dash, told, done>>

\* clearOfflineAlarm: one UPDATE, of the status alone.  An error counts as "no
\* row affected".
ClearOfflineAlarm ==
  LET open == Uncleared(worker.dev) IN
  /\ worker.pc = "clear"
  /\ \/ /\ alarms' = [i \in DOMAIN alarms |->
              IF i \in open THEN [alarms[i] EXCEPT !.status = 0] ELSE alarms[i]]
        /\ IF open = {} THEN NextDevice ELSE Goto("tellOn")
        /\ UNCHANGED done
     \/ Spend("db") /\ NextDevice /\ UNCHANGED alarms
  /\ WorkerStepFrame /\ UNCHANGED <<dash, told>>

\* Mutants of FindOfflineAlarm: an acknowledged outage is not seen as open; a
\* cleared one is; a device whose alarm exists keeps its dashboard key.
FindUnacknowledged ==
  /\ worker.pc = "find"
  /\ IF \E i \in Uncleared(worker.dev) : alarms[i].status = 1
     THEN Goto("drop") ELSE Goto("create")
  /\ WorkerStepFrame /\ UNCHANGED <<dash, told, alarms, done>>

FindAny ==
  /\ worker.pc = "find"
  /\ IF Of("offline", worker.dev) # {} THEN Goto("drop") ELSE Goto("create")
  /\ WorkerStepFrame /\ UNCHANGED <<dash, told, alarms, done>>

\* createOfflineAlarm: look for an alarm that is not cleared.  A query that
\* fails reads as "none".
FindOfflineAlarm ==
  /\ worker.pc = "find"
  /\ \/ /\ Uncleared(worker.dev) = {} /\ Goto("create")
        /\ UNCHANGED done
     \/ /\ Uncleared(worker.dev) # {} /\ Goto("drop")
        /\ UNCHANGED done
     \/ Uncleared(worker.dev) # {} /\ Spend("db") /\ Goto("create")
  /\ WorkerStepFrame /\ UNCHANGED <<dash, told, alarms>>

\* createOfflineAlarm: INSERT.  A failure is seen as "already there".
CreateOfflineAlarm ==
  /\ worker.pc = "create"
  /\ \/ Raise("offline", worker.dev, 1) /\ Goto("tellOff") /\ UNCHANGED done
     \/ Spend("db") /\ Goto("drop") /\ UNCHANGED alarms
  /\ WorkerStepFrame /\ UNCHANGED <<dash, told>>

\* publishStatusChange, after which an offline device loses its dashboard key.
Tell ==
  /\ worker.pc \in {"tellOn", "tellOff"}
  /\ \/ /\ told' = [told EXCEPT ![worker.dev] =
                        IF worker.pc = "tellOn" THEN "online" ELSE "offline"]
        /\ UNCHANGED done
     \/ Spend("redis") /\ UNCHANGED told
  /\ IF worker.pc = "tellOn" THEN NextDevice ELSE Goto("drop")
  /\ WorkerStepFrame /\ UNCHANGED <<dash, alarms>>

DropDashboardKey ==
  /\ worker.pc = "drop"
  /\ \/ dash' = dash \ {worker.dev} /\ UNCHANGED done
     \/ Spend("redis") /\ UNCHANGED dash
  /\ NextDevice
  /\ WorkerStepFrame /\ UNCHANGED <<told, alarms>>

WorkerStep ==
  \/ StartPass \/ SetDashboardKey \/ ClearOfflineAlarm \/ FindOfflineAlarm
  \/ CreateOfflineAlarm \/ Tell \/ DropDashboardKey
  \/ \E d \in Device : CheckDevice(d)

-----------------------------------------------------------------------------
(* EventProcessor.handleAlarmGenerated *)

HandlerFrame == UNCHANGED <<online, workerVars, ack, checkVars, raced>>

Busy(d) == \E h \in Handler : handler[h].dev = d

\* Mutant of AlarmEvent: the lookup misses acknowledged alarms.
AlarmEventByStatus(h, d) ==
  LET found == {i \in Active(d) : alarms[i].status = 1} IN
  /\ handler[h].pc = "idle" /\ ~Busy(d) /\ Spend("event")
  /\ \E i \in IF found = {} THEN {0} ELSE found :
        handler' = [handler EXCEPT ![h] =
             [pc |-> IF i = 0 THEN "raise" ELSE "clear", dev |-> d, id |-> i]]
  /\ HandlerFrame /\ UNCHANGED alarms

\* An alarm event looks for an active alarm of the device with the same
\* identifier; one identifier per device stands for all of them.  A device has
\* one Inform in progress, unless it gave up on an earlier one whose handler is
\* still at work.
AlarmEvent(h, d) ==
  /\ handler[h].pc = "idle"
  /\ IF Busy(d) THEN Spend("overlap") ELSE Spend("event")
  /\ \E i \in IF Active(d) = {} THEN {0} ELSE Active(d) :
        handler' = [handler EXCEPT ![h] =
             [pc |-> IF i = 0 THEN "raise" ELSE "clear", dev |-> d, id |-> i]]
  /\ HandlerFrame /\ UNCHANGED alarms

\* A lookup that fails reads as "none".
AlarmEventUnread(h, d) ==
  /\ handler[h].pc = "idle" /\ ~Busy(d)
  /\ Active(d) # {}
  /\ Spend("db")
  /\ handler' = [handler EXCEPT ![h] = [pc |-> "raise", dev |-> d, id |-> 0]]
  /\ HandlerFrame /\ UNCHANGED alarms

\* INSERT, which may fail.
RaiseAlarm(h) ==
  /\ handler[h].pc = "raise"
  /\ Raise("device", handler[h].dev, 1) \/ UNCHANGED alarms
  /\ handler' = [handler EXCEPT ![h] = IdleHandler]
  /\ HandlerFrame /\ UNCHANGED done

\* Mutant of ClearAlarmOfDevice: the status is left to the operators.
ClearTypeOfDevice(h) ==
  /\ handler[h].pc = "clear"
  /\ alarms' = [alarms EXCEPT ![handler[h].id].type = 2]
  /\ handler' = [handler EXCEPT ![h] = IdleHandler]
  /\ HandlerFrame /\ UNCHANGED done

\* UPDATE of the alarm found: history, not acknowledged.  An alarm that is
\* active and reported again is left alone.
ClearAlarmOfDevice(h) ==
  /\ handler[h].pc = "clear"
  /\ \/ alarms' = [alarms EXCEPT ![handler[h].id].status = 2,
                                 ![handler[h].id].type = 2]
     \/ UNCHANGED alarms
  /\ handler' = [handler EXCEPT ![h] = IdleHandler]
  /\ HandlerFrame /\ UNCHANGED done

-----------------------------------------------------------------------------
(* Operators: alarm.Service, and the northbound interface *)

OperatorFrame == UNCHANGED <<online, workerVars, handler, checkVars>>

\* The CASE of the UPDATE: the acknowledgement is kept.
Cleared(s) == CASE s = 1 -> 2 [] s = 3 -> 4 [] OTHER -> s

ClearRow(r) == [r EXCEPT !.status = Cleared(r.status), !.type = 2]

ClearAlarm(i) ==
  /\ i \in DOMAIN alarms
  /\ Spend("clear")
  /\ alarms' = [alarms EXCEPT ![i] = ClearRow(@)]
  /\ OperatorFrame /\ UNCHANGED <<ack, raced>>

\* Mutant of BatchClearAlarms: the type is not set.
BatchClearStatus(S) ==
  /\ S # {} /\ S \subseteq DOMAIN alarms
  /\ Spend("clear")
  /\ alarms' = [i \in DOMAIN alarms |->
       IF i \in S THEN [alarms[i] EXCEPT !.status = Cleared(@)] ELSE alarms[i]]
  /\ OperatorFrame /\ UNCHANGED <<ack, raced>>

\* All rows in one transaction.
BatchClearAlarms(S) ==
  /\ S # {} /\ S \subseteq DOMAIN alarms
  /\ Spend("clear")
  /\ alarms' = [i \in DOMAIN alarms |->
                  IF i \in S THEN ClearRow(alarms[i]) ELSE alarms[i]]
  /\ OperatorFrame /\ UNCHANGED <<ack, raced>>

\* The northbound interface only writes the status.
NorthClearAlarms(S) ==
  /\ S # {} /\ S \subseteq DOMAIN alarms
  /\ Spend("north")
  /\ alarms' = [i \in DOMAIN alarms |->
       IF i \in S THEN [alarms[i] EXCEPT !.status = 0] ELSE alarms[i]]
  /\ OperatorFrame /\ UNCHANGED <<ack, raced>>

\* Mutant of ReadToConfirm: whatever the status, the acknowledged one is two on.
ReadToConfirmAgain(i) ==
  /\ ack = None
  /\ i \in DOMAIN alarms
  /\ Spend("ack")
  /\ ack' = [id |-> i, row |-> alarms[i], next |-> alarms[i].status + 2]
  /\ OperatorFrame /\ UNCHANGED <<alarms, raced>>

\* ConfirmAlarm and UnconfirmAlarm read the row, and go on if there is something
\* to change.
ReadToConfirm(i) ==
  /\ ack = None
  /\ i \in DOMAIN alarms
  /\ alarms[i].status \in {1, 2}
  /\ Spend("ack")
  /\ ack' = [id |-> i, row |-> alarms[i], next |-> alarms[i].status + 2]
  /\ OperatorFrame /\ UNCHANGED <<alarms, raced>>

ReadToUnconfirm(i) ==
  /\ ack = None
  /\ i \in DOMAIN alarms
  /\ alarms[i].status \in {3, 4}
  /\ Spend("ack")
  /\ ack' = [id |-> i, row |-> alarms[i], next |-> alarms[i].status - 2]
  /\ OperatorFrame /\ UNCHANGED <<alarms, raced>>

\* Mutant of SetAlarmStatus: the whole row that was read is saved.
SaveAlarm ==
  /\ ack # None
  /\ alarms' = [alarms EXCEPT ![ack.id] = [ack.row EXCEPT !.status = ack.next]]
  /\ raced' = IF alarms[ack.id].status = ack.row.status THEN raced ELSE raced \cup {ack.id}
  /\ ack' = None
  /\ OperatorFrame /\ UNCHANGED done

\* The next status is written, whatever the status is by now.
SetAlarmStatus ==
  /\ ack # None
  /\ \/ /\ alarms' = [alarms EXCEPT ![ack.id].status = ack.next]
        /\ raced' = IF alarms[ack.id].status = ack.row.status
                    THEN raced ELSE raced \cup {ack.id}
     \/ UNCHANGED <<alarms, raced>>
  /\ ack' = None
  /\ OperatorFrame /\ UNCHANGED done

-----------------------------------------------------------------------------
(* ThresholdChecker.createAlarmFromViolation, for one rule and device *)

CheckFrame == UNCHANGED <<online, workerVars, handler, ack, raced>>

\* A check finds the threshold violated and no deduplication key, or fails to
\* ask for it.
CheckThreshold ==
  /\ checker = "rest"
  /\ \/ Spend("breach") /\ ~dedup
     \/ Spend("redis") /\ dedup
  /\ checker' = "create"
  /\ CheckFrame /\ UNCHANGED <<alarms, dedup>>

\* CreateAlarm.  A suppressed alarm is stored all the same.
CreateThresholdAlarm ==
  /\ checker = "create"
  /\ \/ Raise("threshold", None, 4) /\ checker' = "key"
     \/ UNCHANGED alarms /\ checker' = "rest"
  /\ CheckFrame /\ UNCHANGED <<dedup, done>>

\* Mutant of SetDedupKey: it is not set.
ForgetDedupKey ==
  /\ checker = "key"
  /\ checker' = "rest"
  /\ CheckFrame /\ UNCHANGED <<alarms, dedup, done>>

SetDedupKey ==
  /\ checker = "key"
  /\ checker' = "rest"
  /\ \/ dedup' = TRUE /\ UNCHANGED done
     \/ Spend("redis") /\ UNCHANGED dedup
  /\ CheckFrame /\ UNCHANGED alarms

DedupKeyExpires ==
  /\ dedup
  /\ Spend("dedupTTL")
  /\ dedup' = FALSE
  /\ CheckFrame /\ UNCHANGED <<alarms, checker>>

-----------------------------------------------------------------------------

\* TrapReceiver.processHATrap.
Trap ==
  /\ Spend("trap")
  /\ Raise("trap", None, 1)
  /\ UNCHANGED <<online, workerVars, handler, ack, checkVars, raced>>

\* The server dies and restarts; Redis and the database keep what they have.
Crash ==
  /\ Spend("crash")
  /\ worker' = Resting
  /\ handler' = [h \in Handler |-> IdleHandler]
  /\ ack' = None
  /\ checker' = "rest"
  /\ UNCHANGED <<online, dash, alarms, told, dedup, raced>>

HandlerStep(h) == RaiseAlarm(h) \/ ClearAlarmOfDevice(h)

Next ==
  \/ \E d \in Device : Inform(d) \/ OnlineKeyExpires(d)
  \/ WorkerStep
  \/ \E h \in Handler, d \in Device : AlarmEvent(h, d) \/ AlarmEventUnread(h, d)
  \/ \E h \in Handler : HandlerStep(h)
  \/ \E i \in DOMAIN alarms : ClearAlarm(i) \/ ReadToConfirm(i) \/ ReadToUnconfirm(i)
  \/ \E S \in SUBSET DOMAIN alarms : BatchClearAlarms(S) \/ NorthClearAlarms(S)
  \/ SetAlarmStatus
  \/ CheckThreshold \/ CreateThresholdAlarm \/ SetDedupKey \/ DedupKeyExpires
  \/ Trap
  \/ Crash

Spec == Init /\ [][Next]_vars

\* The worker runs every 5 seconds for as long as the server does, and a request
\* of an operator is processed to its end.
Fairness ==
  /\ WF_vars(WorkerStep)
  /\ WF_vars(SetAlarmStatus)

FairSpec == Spec /\ Fairness

-----------------------------------------------------------------------------
(* Properties *)

TypeOK ==
  /\ online \subseteq Device
  /\ dash \subseteq Device
  /\ alarms \in Seq(Row)
  /\ told \in [Device -> {"nothing", "online", "offline"}]
  /\ worker \in WorkerState
  /\ handler \in [Handler -> [pc : {"idle", "raise", "clear"},
                              dev : Device \cup {None}, id : {0} \cup DOMAIN alarms]]
  /\ ack \in [id : DOMAIN alarms, row : Row, next : 1..4] \cup {None}
  /\ checker \in {"rest", "create", "key"}
  /\ dedup \in BOOLEAN
  /\ raced \subseteq DOMAIN alarms
  /\ done \in [Move -> Nat]

\* An alarm that counts as active by its type, which is what the tally by
\* severity and the lookup of alarm events go by, does not show a cleared
\* status: no clear writes one without the other, and an acknowledgement only
\* writes "cleared" over a row that was history when it was read.
ActiveLooksActive ==
  \A i \in DOMAIN alarms : alarms[i].type # 2 => alarms[i].status \notin {2, 4}

\* A cleared alarm that shows an active status again got it from an
\* acknowledgement that had read the row before the clear, and from nothing else.
OnlyRacesResurrect ==
  \A i \in DOMAIN alarms :
    alarms[i].type = 2 /\ alarms[i].status \in {1, 3} => i \in raced

\* The alarm of a device is active at most once, whoever acknowledges or clears
\* it meanwhile; every Inform whose predecessor is still being processed and
\* every lookup that fails may add one.
OneActiveAlarm ==
  \A d \in Device :
    Cardinality({i \in DOMAIN alarms : /\ alarms[i].cause = "device"
                                       /\ alarms[i].dev = d
                                       /\ alarms[i].type = 1})
      <= 1 + done["overlap"] + done["db"]

\* The worker has one open outage of a device; a query that fails may add one,
\* and a late acknowledgement opens an old one again.
OneOutage ==
  \A d \in Device :
    Cardinality(Uncleared(d) \ raced) <= 1 + done["db"]

\* One alarm of a violated threshold per life of the deduplication key, except
\* for errors of Redis and a crash between the insert and the key.
ThresholdIsPaced ==
  Cardinality(Of("threshold", None)) <=
    1 + done["dedupTTL"] + done["redis"] + done["crash"]

\* A row of the history never becomes active by its type again.
HistoryStays ==
  [][\A i \in DOMAIN alarms : alarms[i].type = 2 => alarms'[i].type = 2]_vars

\* A device that stays offline has an open outage in the end and for good, though
\* the northbound interface clears it, queries fail and the server restarts; an
\* active one, unless an operator cleared it: the worker takes what an operator
\* cleared for open, and raises nothing.
OutageIsRaised ==
  \A d \in Device :
    <>[](d \notin online) =>
      <>[](\E i \in Uncleared(d) : alarms[i].type = 1 \/ done["clear"] > 0)

\* All outages of a device that stays online are cleared in the end, those too
\* that an acknowledgement opened again.
RecoveryIsCleared ==
  \A d \in Device : <>[](d \in online) => <>[](Uncleared(d) = {})

\* The last message about a device does not contradict its state for ever, unless
\* it was lost (the server died between storing a change and announcing it, or
\* Redis failed), the northbound interface cleared an outage, whose end then goes
\* unnoticed, or a late acknowledgement opened one again, behind which the next
\* one hides.
LastWord ==
  \A d \in Device :
    [](\A m \in {"crash", "redis", "north"} : done[m] = 0) /\ [](raced = {}) =>
      /\ <>[](d \notin online) => <>[](told[d] = "offline")
      /\ <>[](d \in online) => <>[](told[d] # "offline")

=============================================================================
