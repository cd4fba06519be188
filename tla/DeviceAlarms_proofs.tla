------------------------- MODULE DeviceAlarms_proofs -------------------------
(***************************************************************************)
(* Theorems about DeviceAlarms for every set of devices and handlers, and  *)
(* however often each move is made.                                        *)
(***************************************************************************)
EXTENDS DeviceAlarms, FiniteSetTheorems, TLAPS

-----------------------------------------------------------------------------
(* The inductive invariant *)

\* What an acknowledgement is about to write: "cleared" only over history, and the
\* other half of the status that was read.
AckInHand ==
  ack # None =>
    /\ ack.next \in {2, 4} => alarms[ack.id].type = 2
    /\ ack.next \in {1, 3} => ack.row.status \in {1, 3}

\* A handler that is about to clear has found a row.
ClearInHand == \A h \in Handler : handler[h].pc = "clear" => handler[h].id # 0

\* In the middle of a pass the worker has a device.
DeviceInHand == worker.pc \notin {"rest", "next"} => worker.dev \in Device

IInv ==
  /\ TypeOK
  /\ DeviceInHand
  /\ AckInHand
  /\ ClearInHand
  /\ ActiveLooksActive
  /\ OnlyRacesResurrect

\* What a step may make of a row, but for an acknowledgement: nothing, the status of
\* a cleared outage, or a row of the history.
Edit(r, s) ==
  /\ s \in Row
  /\ \/ s = r
     \/ s.status = 0 /\ s.type = r.type
     \/ s.status \in {0, 2, 4} /\ s.type = 2

\* A row that becomes history.
History(r, n) == [r EXCEPT !.status = n, !.type = 2]

LEMMA HistoryRow ==
  ASSUME NEW r \in Row, NEW n \in 0..4
  PROVE  History(r, n) \in Row /\ History(r, n).type = 2 /\ History(r, n).status = n
BY DEF Row, History

LEMMA RowEdits ==
  ASSUME NEW r \in Row
  PROVE  /\ Edit(r, r)
         /\ Edit(r, [r EXCEPT !.status = 0])
         /\ Edit(r, ClearRow(r))
         /\ Edit(r, [r EXCEPT !.status = 2, !.type = 2])
<1>1. Cleared(r.status) \in {0, 2, 4}
  BY DEF Row, Cleared
<1>2. Edit(r, ClearRow(r))
  <2>1. ClearRow(r) = History(r, Cleared(r.status))
    BY DEF ClearRow, History
  <2> QED BY <1>1, <2>1, HistoryRow DEF Edit
<1>3. Edit(r, [r EXCEPT !.status = 2, !.type = 2])
  <2>1. [r EXCEPT !.status = 2, !.type = 2] = History(r, 2)
    BY DEF History
  <2> QED BY <2>1, HistoryRow DEF Edit
<1>4. Edit(r, [r EXCEPT !.status = 0]) /\ Edit(r, r)
  BY DEF Edit, Row
<1> QED BY <1>2, <1>3, <1>4

LEMMA RowTyped ==
  ASSUME TypeOK
  PROVE  /\ DOMAIN alarms = 1..Len(alarms) /\ Len(alarms) \in Nat
         /\ \A i \in DOMAIN alarms : alarms[i] \in Row
BY DEF TypeOK

\* Steps that edit rows, none of them by an acknowledgement.
LEMMA RowsEdited ==
  ASSUME IInv, UNCHANGED <<ack, raced>>,
         NEW f, alarms' = [i \in DOMAIN alarms |-> f[i]],
         \A i \in DOMAIN alarms : Edit(alarms[i], f[i])
  PROVE  /\ alarms' \in Seq(Row) /\ DOMAIN alarms' = DOMAIN alarms
         /\ AckInHand' /\ ActiveLooksActive' /\ OnlyRacesResurrect'
         /\ \A i \in DOMAIN alarms : alarms[i].type = 2 => alarms'[i].type = 2
<1>1. alarms' \in [1..Len(alarms) -> Row] /\ DOMAIN alarms' = DOMAIN alarms
  BY RowTyped DEF IInv, Edit
<1>2. alarms' \in Seq(Row)
  BY <1>1, RowTyped DEF IInv
<1>3. \A i \in DOMAIN alarms : Edit(alarms[i], alarms'[i])
  OBVIOUS
<1>4. \A i \in DOMAIN alarms : alarms[i].type = 2 => alarms'[i].type = 2
  BY <1>3 DEF Edit
<1>5. AckInHand'
  BY <1>4 DEF IInv, AckInHand, TypeOK
<1>6. ActiveLooksActive' /\ OnlyRacesResurrect'
  BY <1>1, <1>3 DEF IInv, ActiveLooksActive, OnlyRacesResurrect, Edit
<1> QED BY <1>1, <1>2, <1>4, <1>5, <1>6

\* Steps that add a row.
LEMMA RowRaised ==
  ASSUME IInv, UNCHANGED <<ack, raced>>,
         NEW c \in {"offline", "device", "threshold", "trap"}, NEW d \in Device \cup {None},
         NEW t \in {1, 4}, Raise(c, d, t)
  PROVE  /\ alarms' \in Seq(Row) /\ DOMAIN alarms \subseteq DOMAIN alarms'
         /\ AckInHand' /\ ActiveLooksActive' /\ OnlyRacesResurrect'
         /\ \A i \in DOMAIN alarms : alarms[i].type = 2 => alarms'[i].type = 2
<1> DEFINE n == Len(alarms) + 1
<1>1. NewRow(c, d, t) \in Row /\ NewRow(c, d, t).type = t /\ NewRow(c, d, t).status = 1
  BY DEF NewRow, Row
<1>2. alarms' = Append(alarms, NewRow(c, d, t)) /\ alarms \in Seq(Row)
  BY DEF Raise, IInv, TypeOK
<1>3. /\ alarms' \in Seq(Row) /\ DOMAIN alarms \subseteq DOMAIN alarms'
      /\ \A i \in DOMAIN alarms : alarms'[i] = alarms[i]
      /\ \A i \in DOMAIN alarms' : i \in DOMAIN alarms \/ alarms'[i] = NewRow(c, d, t)
  BY <1>1, <1>2
<1>4. AckInHand'
  BY <1>3 DEF IInv, AckInHand, TypeOK
<1>5. ActiveLooksActive' /\ OnlyRacesResurrect'
  BY <1>1, <1>3 DEF IInv, ActiveLooksActive, OnlyRacesResurrect
<1> QED BY <1>3, <1>4, <1>5

-----------------------------------------------------------------------------
(* Each step preserves it *)

LEMMA InitInv == Init => IInv
<1> SUFFICES ASSUME Init PROVE IInv
  OBVIOUS
<1>1. /\ alarms = <<>> /\ DOMAIN alarms = {} /\ alarms \in Seq(Row) /\ ack = None /\ raced = {}
      /\ \A h \in Handler : handler[h] = IdleHandler
  BY DEF Init
<1>2. worker \in WorkerState /\ online \subseteq Device /\ dash \subseteq Device
      /\ checker \in {"rest", "create", "key"}
  BY DEF Init, Resting, WorkerState
<1>3. told \in [Device -> {"nothing", "online", "offline"}] /\ done \in [Move -> Nat]
  BY DEF Init
<1>4. handler \in [Handler -> [pc : {"idle", "raise", "clear"}, dev : Device \cup {None},
                               id : {0} \cup DOMAIN alarms]]
  BY DEF Init, IdleHandler
<1>5. dedup \in BOOLEAN
  BY Zenon DEF Init
<1>6. TypeOK
  BY <1>1, <1>2, <1>3, <1>4, <1>5 DEF TypeOK
<1>7. DeviceInHand /\ AckInHand /\ ClearInHand /\ ActiveLooksActive /\ OnlyRacesResurrect
  BY <1>1 DEF Init, Resting, DeviceInHand, AckInHand, ClearInHand, ActiveLooksActive, OnlyRacesResurrect, IdleHandler
<1> QED BY <1>6, <1>7 DEF IInv

LEMMA SpendTyped ==
  ASSUME TypeOK, NEW m \in Move, Spend(m)
  PROVE  done' \in [Move -> Nat]
<1>1. done' = [done EXCEPT ![m] = done[m] + 1]
  BY Zenon DEF Spend
<1> QED BY <1>1 DEF TypeOK

\* The variables that hold no rows keep their types.
OtherTypes ==
  /\ online \subseteq Device
  /\ dash \subseteq Device
  /\ told \in [Device -> {"nothing", "online", "offline"}]
  /\ worker \in WorkerState
  /\ checker \in {"rest", "create", "key"}
  /\ dedup \in BOOLEAN
  /\ done \in [Move -> Nat]

LEMMA WorkerTypes ==
  ASSUME TypeOK, DeviceInHand, WorkerStep
  PROVE  OtherTypes'
<1>1. done' \in [Move -> Nat]
  <2>1. done' = done \/ Spend("db") \/ Spend("redis")
    BY DEF WorkerStep, StartPass, SetDashboardKey, ClearOfflineAlarm, FindOfflineAlarm,
           CreateOfflineAlarm, Tell, DropDashboardKey, CheckDevice
  <2> QED BY <2>1, SpendTyped DEF Move, TypeOK
<1>2. UNCHANGED <<online, checker, dedup>>
  BY DEF WorkerStep, StartPass, SetDashboardKey, ClearOfflineAlarm, FindOfflineAlarm,
         CreateOfflineAlarm, Tell, DropDashboardKey, CheckDevice, WorkerStepFrame, checkVars
<1>3. worker \in WorkerState
  BY DEF TypeOK
<1>4. ASSUME NextDevice PROVE worker' \in WorkerState
  <2>1. [worker EXCEPT !.pc = "next", !.dev = None] \in WorkerState /\ Resting \in WorkerState
    BY <1>3 DEF WorkerState, Resting
  <2> QED BY <1>4, <2>1 DEF NextDevice
<1>5. ASSUME NEW pc \in {"clear", "create", "drop", "tellOn", "tellOff"}, Goto(pc)
      PROVE  worker' \in WorkerState
  BY <1>3, <1>5 DEF Goto, WorkerState
<1>6. CASE StartPass
  BY <1>1, <1>2, <1>6 DEF StartPass, WorkerState, TypeOK, OtherTypes
<1>7. CASE \E d \in Device : CheckDevice(d)
  <2>1. worker' \in WorkerState
    BY <1>3, <1>7 DEF CheckDevice, WorkerState
  <2> QED BY <1>1, <1>2, <1>7, <2>1 DEF CheckDevice, TypeOK, OtherTypes
<1>8. CASE SetDashboardKey \/ DropDashboardKey
  <2>1. worker' \in WorkerState /\ worker.dev \in Device \cup {None}
    BY <1>3, <1>4, <1>5, <1>8 DEF SetDashboardKey, DropDashboardKey, WorkerState
  <2>3. dash' \subseteq Device
    BY <1>8 DEF SetDashboardKey, DropDashboardKey, TypeOK, DeviceInHand
  <2> QED BY <1>1, <1>2, <1>8, <2>1, <2>3 DEF SetDashboardKey, DropDashboardKey, TypeOK, OtherTypes
<1>9. CASE ClearOfflineAlarm \/ FindOfflineAlarm \/ CreateOfflineAlarm
  <2>1. worker' \in WorkerState
    BY <1>4, <1>5, <1>9 DEF ClearOfflineAlarm, FindOfflineAlarm, CreateOfflineAlarm
  <2> QED BY <1>1, <1>2, <1>9, <2>1
      DEF ClearOfflineAlarm, FindOfflineAlarm, CreateOfflineAlarm, TypeOK, OtherTypes
<1>10. CASE Tell
  <2>1. worker' \in WorkerState
    BY <1>4, <1>5, <1>10 DEF Tell
  <2>2. told' \in [Device -> {"nothing", "online", "offline"}]
    BY <1>10 DEF Tell, TypeOK
  <2> QED BY <1>1, <1>2, <1>10, <2>1, <2>2 DEF Tell, TypeOK, OtherTypes
<1> QED BY <1>6, <1>7, <1>8, <1>9, <1>10 DEF WorkerStep

LEMMA WorkerInHand ==
  ASSUME TypeOK, DeviceInHand, WorkerStep
  PROVE  DeviceInHand'
<1>1. worker \in WorkerState
  BY DEF TypeOK
<1>2. ASSUME NextDevice PROVE DeviceInHand'
  <2>1. Resting.pc = "rest" /\ [worker EXCEPT !.pc = "next", !.dev = None].pc = "next"
    BY <1>1 DEF Resting, WorkerState
  <2> QED BY <1>2, <2>1 DEF NextDevice, DeviceInHand
<1>3. ASSUME NEW pc, Goto(pc), worker.pc \notin {"rest", "next"} PROVE DeviceInHand'
  <2>1. worker'.dev = worker.dev
    BY <1>1, <1>3 DEF Goto, WorkerState
  <2> QED BY <1>3, <2>1 DEF DeviceInHand
<1>4. CASE StartPass \/ \E d \in Device : CheckDevice(d)
  BY <1>4 DEF StartPass, CheckDevice, DeviceInHand
<1>5. CASE SetDashboardKey \/ DropDashboardKey
  BY <1>2, <1>3, <1>5 DEF SetDashboardKey, DropDashboardKey
<1>6. CASE ClearOfflineAlarm \/ FindOfflineAlarm \/ CreateOfflineAlarm
  BY <1>2, <1>3, <1>6 DEF ClearOfflineAlarm, FindOfflineAlarm, CreateOfflineAlarm
<1>7. CASE Tell
  BY <1>2, <1>3, <1>7 DEF Tell
<1> QED BY <1>4, <1>5, <1>6, <1>7 DEF WorkerStep

\* The parts of the invariant that speak of the variables with ids of rows.
HandlerType ==
  handler \in [Handler -> [pc : {"idle", "raise", "clear"},
                           dev : Device \cup {None}, id : {0} \cup DOMAIN alarms]]

AckType == ack \in [id : DOMAIN alarms, row : Row, next : 1..4] \cup {None}

\* A step that keeps the rows there are.
RowsStay ==
  /\ alarms' \in Seq(Row) /\ DOMAIN alarms \subseteq DOMAIN alarms'
  /\ \A i \in DOMAIN alarms : alarms[i].type = 2 => alarms'[i].type = 2

LEMMA TypesJoined ==
  ASSUME OtherTypes', alarms' \in Seq(Row), HandlerType', AckType', (raced \subseteq DOMAIN alarms)'
  PROVE  TypeOK'
BY DEF OtherTypes, HandlerType, AckType, TypeOK

LEMMA HandlersKept ==
  ASSUME IInv, UNCHANGED handler, DOMAIN alarms \subseteq DOMAIN alarms'
  PROVE  HandlerType' /\ ClearInHand'
<1>1. handler \in [Handler -> [pc : {"idle", "raise", "clear"},
                               dev : Device \cup {None}, id : {0} \cup DOMAIN alarms]]
  BY DEF IInv, TypeOK
<1>2. HandlerType'
  BY <1>1 DEF HandlerType
<1>3. ClearInHand'
  BY DEF IInv, ClearInHand
<1> QED BY <1>2, <1>3

LEMMA AckKept ==
  ASSUME IInv, UNCHANGED <<ack, raced>>, DOMAIN alarms \subseteq DOMAIN alarms'
  PROVE  AckType' /\ (raced \subseteq DOMAIN alarms)'
BY DEF IInv, TypeOK, AckType

\* Steps that keep the table as it is, and the acknowledgements with it.
LEMMA RowsUnchanged ==
  ASSUME IInv, UNCHANGED <<alarms, ack, raced>>
  PROVE  RowsStay /\ AckInHand' /\ ActiveLooksActive' /\ OnlyRacesResurrect'
BY DEF IInv, TypeOK, RowsStay, AckInHand, ActiveLooksActive, OnlyRacesResurrect

\* The worker: ClearOfflineAlarm edits, CreateOfflineAlarm raises, the others look.
LEMMA WorkerKeepsRows ==
  ASSUME IInv, WorkerStep
  PROVE  RowsStay /\ AckInHand' /\ ActiveLooksActive' /\ OnlyRacesResurrect'
<1>1. UNCHANGED <<ack, raced, handler>>
  BY DEF WorkerStep, StartPass, SetDashboardKey, ClearOfflineAlarm, FindOfflineAlarm,
         CreateOfflineAlarm, Tell, DropDashboardKey, CheckDevice, WorkerStepFrame
<1>2. CASE UNCHANGED alarms
  BY <1>1, <1>2, RowsUnchanged
<1>3. CASE ClearOfflineAlarm /\ ~UNCHANGED alarms
  <2> DEFINE f == [i \in DOMAIN alarms |->
                     IF i \in Uncleared(worker.dev) THEN [alarms[i] EXCEPT !.status = 0]
                     ELSE alarms[i]]
  <2>1. alarms' = f
    BY <1>3 DEF ClearOfflineAlarm
  <2>2. \A i \in DOMAIN alarms : Edit(alarms[i], f[i])
    BY RowTyped, RowEdits DEF IInv
  <2>3. f = [i \in DOMAIN alarms |-> f[i]]
    OBVIOUS
  <2> HIDE DEF f
  <2>4. alarms' = [i \in DOMAIN alarms |-> f[i]]
    BY <2>1, <2>3
  <2> QED BY <1>1, <2>2, <2>4, RowsEdited DEF RowsStay
<1>4. CASE CreateOfflineAlarm /\ ~UNCHANGED alarms
  <2>1. Raise("offline", worker.dev, 1) /\ worker.dev \in Device
    BY <1>4 DEF CreateOfflineAlarm, IInv, DeviceInHand
  <2> QED BY <1>1, <2>1, RowRaised DEF RowsStay
<1> QED BY <1>2, <1>3, <1>4
    DEF WorkerStep, StartPass, SetDashboardKey, FindOfflineAlarm, Tell, DropDashboardKey, CheckDevice

LEMMA WorkerInv ==
  ASSUME IInv, WorkerStep
  PROVE  IInv' /\ RowsStay
<1>1. UNCHANGED <<ack, raced, handler>>
  BY DEF WorkerStep, StartPass, SetDashboardKey, ClearOfflineAlarm, FindOfflineAlarm,
         CreateOfflineAlarm, Tell, DropDashboardKey, CheckDevice, WorkerStepFrame
<1>2. RowsStay /\ AckInHand' /\ ActiveLooksActive' /\ OnlyRacesResurrect'
  BY WorkerKeepsRows
<1>3. OtherTypes' /\ DeviceInHand'
  BY WorkerTypes, WorkerInHand DEF IInv
<1>4. HandlerType' /\ ClearInHand' /\ AckType' /\ (raced \subseteq DOMAIN alarms)'
  BY <1>1, <1>2, HandlersKept, AckKept DEF RowsStay
<1>5. TypeOK'
  BY <1>2, <1>3, <1>4, TypesJoined DEF RowsStay
<1> QED BY <1>2, <1>3, <1>4, <1>5 DEF IInv

\* What the steps outside the worker keep of it.
LEMMA WorkerKept ==
  ASSUME IInv, UNCHANGED workerVars,
         online' \subseteq Device, checker' \in {"rest", "create", "key"}, dedup' \in BOOLEAN,
         done' \in [Move -> Nat]
  PROVE  OtherTypes' /\ DeviceInHand'
<1>1. UNCHANGED <<dash, told, worker>>
  BY DEF workerVars
<1>2. OtherTypes'
  BY <1>1 DEF IInv, TypeOK, OtherTypes
<1> QED BY <1>1, <1>2 DEF IInv, DeviceInHand

\* The parts put together, for a step that leaves the acknowledgements alone.
LEMMA Joined ==
  ASSUME IInv, UNCHANGED <<ack, raced>>, RowsStay,
         AckInHand' /\ ActiveLooksActive' /\ OnlyRacesResurrect',
         OtherTypes' /\ DeviceInHand', HandlerType' /\ ClearInHand'
  PROVE  IInv' /\ RowsStay
<1>1. AckType' /\ (raced \subseteq DOMAIN alarms)'
  BY AckKept DEF RowsStay
<1> QED BY <1>1, TypesJoined DEF RowsStay, IInv

LEMMA DeviceSteps ==
  ASSUME IInv, NEW d \in Device, Inform(d) \/ OnlineKeyExpires(d)
  PROVE  IInv' /\ RowsStay
<1>1. UNCHANGED <<alarms, ack, raced>> /\ UNCHANGED handler /\ UNCHANGED workerVars
      /\ UNCHANGED <<checker, dedup>>
  BY DEF Inform, OnlineKeyExpires, checkVars
<1>2. done' \in [Move -> Nat]
  BY SpendTyped DEF Inform, OnlineKeyExpires, IInv, TypeOK, Move
<1>3. online' \subseteq Device
  BY DEF Inform, OnlineKeyExpires, IInv, TypeOK
<1>4. OtherTypes' /\ DeviceInHand'
  BY <1>1, <1>2, <1>3, WorkerKept DEF IInv, TypeOK
<1>5. HandlerType' /\ ClearInHand'
  BY <1>1, HandlersKept
<1>6. RowsStay /\ AckInHand' /\ ActiveLooksActive' /\ OnlyRacesResurrect'
  BY <1>1, RowsUnchanged
<1> QED BY <1>1, <1>4, <1>5, <1>6, Joined

LEMMA CheckerSteps ==
  ASSUME IInv, CheckThreshold \/ CreateThresholdAlarm \/ SetDedupKey \/ DedupKeyExpires
  PROVE  IInv' /\ RowsStay
<1>1. UNCHANGED <<ack, raced>> /\ UNCHANGED handler /\ UNCHANGED workerVars /\ UNCHANGED online
  BY DEF CheckThreshold, CreateThresholdAlarm, SetDedupKey, DedupKeyExpires, CheckFrame
<1>2. done' \in [Move -> Nat]
  <2>1. done' = done \/ Spend("breach") \/ Spend("redis") \/ Spend("dedupTTL")
    BY DEF CheckThreshold, CreateThresholdAlarm, SetDedupKey, DedupKeyExpires
  <2> QED BY <2>1, SpendTyped DEF IInv, TypeOK, Move
<1>3. checker' \in {"rest", "create", "key"} /\ dedup' \in BOOLEAN
  <2>1. checker' \in {"rest", "create", "key"}
    BY DEF CheckThreshold, CreateThresholdAlarm, SetDedupKey, DedupKeyExpires, CheckFrame, IInv, TypeOK
  <2>2. dedup' = dedup \/ dedup' = TRUE \/ dedup' = FALSE
    BY Zenon DEF CheckThreshold, CreateThresholdAlarm, SetDedupKey, DedupKeyExpires
  <2>3. dedup' \in BOOLEAN
    BY <2>2, Zenon DEF IInv, TypeOK
  <2> QED BY <2>1, <2>3
<1>4. OtherTypes' /\ DeviceInHand'
  <2>1. online' \subseteq Device
    BY <1>1 DEF IInv, TypeOK
  <2> QED BY <1>1, <1>2, <1>3, <2>1, WorkerKept
<1>5. RowsStay /\ AckInHand' /\ ActiveLooksActive' /\ OnlyRacesResurrect'
  <2>1. CASE UNCHANGED alarms
    BY <1>1, <2>1, RowsUnchanged
  <2>2. CASE Raise("threshold", None, 4)
    BY <1>1, <2>2, RowRaised DEF RowsStay
  <2> QED BY <2>1, <2>2 DEF CheckThreshold, CreateThresholdAlarm, SetDedupKey, DedupKeyExpires
<1>6. HandlerType' /\ ClearInHand'
  BY <1>1, <1>5, HandlersKept DEF RowsStay
<1> QED BY <1>1, <1>4, <1>5, <1>6, Joined

LEMMA TrapStep ==
  ASSUME IInv, Trap
  PROVE  IInv' /\ RowsStay
<1>1. UNCHANGED <<ack, raced>> /\ UNCHANGED handler /\ UNCHANGED workerVars
      /\ UNCHANGED <<online, checker, dedup>>
  BY DEF Trap, checkVars
<1>2. done' \in [Move -> Nat]
  BY SpendTyped DEF Trap, IInv, Move
<1>3. OtherTypes' /\ DeviceInHand'
  BY <1>1, <1>2, WorkerKept DEF IInv, TypeOK
<1>4. RowsStay /\ AckInHand' /\ ActiveLooksActive' /\ OnlyRacesResurrect'
  BY <1>1, RowRaised DEF RowsStay, Trap
<1>5. HandlerType' /\ ClearInHand'
  BY <1>1, <1>4, HandlersKept DEF RowsStay
<1> QED BY <1>1, <1>3, <1>4, <1>5, Joined

LEMMA CrashStep ==
  ASSUME IInv, Crash
  PROVE  IInv' /\ RowsStay
<1>1. UNCHANGED <<online, dash, alarms, told, dedup, raced>> /\ worker' = Resting
      /\ handler' = [h \in Handler |-> IdleHandler] /\ ack' = None /\ checker' = "rest"
  BY DEF Crash
<1>2. done' \in [Move -> Nat]
  BY SpendTyped DEF Crash, IInv, Move
<1>3. OtherTypes' /\ DeviceInHand'
  BY <1>1, <1>2 DEF OtherTypes, DeviceInHand, Resting, WorkerState, IInv, TypeOK
<1>4. RowsStay
  BY <1>1 DEF RowsStay, IInv, TypeOK
<1>5. AckInHand' /\ ActiveLooksActive' /\ OnlyRacesResurrect' /\ AckType'
      /\ (raced \subseteq DOMAIN alarms)'
  BY <1>1 DEF AckInHand, ActiveLooksActive, OnlyRacesResurrect, IInv, TypeOK, AckType
<1>6. HandlerType' /\ ClearInHand'
  BY <1>1 DEF HandlerType, ClearInHand, IdleHandler
<1>7. TypeOK'
  BY <1>3, <1>4, <1>5, <1>6, TypesJoined DEF RowsStay
<1> QED BY <1>3, <1>4, <1>5, <1>6, <1>7 DEF IInv

\* A handler takes up an alarm, or puts it down.
LEMMA HandlerSet ==
  ASSUME IInv, DOMAIN alarms \subseteq DOMAIN alarms', NEW h \in Handler,
         NEW pc \in {"idle", "raise", "clear"}, NEW d \in Device \cup {None},
         NEW i \in {0} \cup DOMAIN alarms, pc = "clear" => i # 0,
         handler' = [handler EXCEPT ![h] = [pc |-> pc, dev |-> d, id |-> i]]
  PROVE  HandlerType' /\ ClearInHand'
<1>1. handler \in [Handler -> [pc : {"idle", "raise", "clear"},
                               dev : Device \cup {None}, id : {0} \cup DOMAIN alarms]]
  BY DEF IInv, TypeOK
<1>2. HandlerType'
  BY <1>1 DEF HandlerType
<1>3. \A g \in Handler : handler'[g] = IF g = h THEN [pc |-> pc, dev |-> d, id |-> i] ELSE handler[g]
  BY <1>1
<1>4. ClearInHand'
  BY <1>3 DEF IInv, ClearInHand
<1> QED BY <1>2, <1>4

LEMMA HandlerOtherTypes ==
  ASSUME IInv, HandlerFrame, done' \in [Move -> Nat]
  PROVE  OtherTypes' /\ DeviceInHand'
<1>1. UNCHANGED workerVars /\ UNCHANGED <<online, checker, dedup>>
  BY DEF HandlerFrame, checkVars
<1> QED BY <1>1, WorkerKept DEF IInv, TypeOK

LEMMA EventSteps ==
  ASSUME IInv, NEW h \in Handler, NEW d \in Device, AlarmEvent(h, d) \/ AlarmEventUnread(h, d)
  PROVE  IInv' /\ RowsStay
<1>1. UNCHANGED <<alarms, ack, raced>> /\ HandlerFrame
  BY DEF AlarmEvent, AlarmEventUnread, HandlerFrame
<1>2. done' \in [Move -> Nat]
  <2>1. Spend("overlap") \/ Spend("event") \/ Spend("db")
    BY DEF AlarmEvent, AlarmEventUnread
  <2> QED BY <2>1, SpendTyped DEF IInv, Move
<1>3. HandlerType' /\ ClearInHand'
  <2>1. CASE AlarmEventUnread(h, d)
    BY <1>1, <2>1, HandlerSet DEF AlarmEventUnread
  <2>2. CASE AlarmEvent(h, d)
    <3>1. PICK i \in IF Active(d) = {} THEN {0} ELSE Active(d) :
            handler' = [handler EXCEPT ![h] =
              [pc |-> IF i = 0 THEN "raise" ELSE "clear", dev |-> d, id |-> i]]
      BY <2>2 DEF AlarmEvent
    <3>2. i \in {0} \cup DOMAIN alarms
      BY DEF Active, Of
    <3>3. (IF i = 0 THEN "raise" ELSE "clear") \in {"idle", "raise", "clear"}
          /\ ((IF i = 0 THEN "raise" ELSE "clear") = "clear" => i # 0)
      OBVIOUS
    <3> QED BY <1>1, <3>1, <3>2, <3>3, HandlerSet
  <2> QED BY <2>1, <2>2
<1>4. RowsStay /\ AckInHand' /\ ActiveLooksActive' /\ OnlyRacesResurrect'
  BY <1>1, RowsUnchanged
<1>5. OtherTypes' /\ DeviceInHand'
  BY <1>1, <1>2, HandlerOtherTypes
<1> QED BY <1>1, <1>3, <1>4, <1>5, Joined

LEMMA HandlerSteps ==
  ASSUME IInv, NEW h \in Handler, HandlerStep(h)
  PROVE  IInv' /\ RowsStay
<1>1. UNCHANGED <<ack, raced>> /\ HandlerFrame /\ UNCHANGED done
      /\ handler' = [handler EXCEPT ![h] = IdleHandler]
  BY DEF HandlerStep, RaiseAlarm, ClearAlarmOfDevice, HandlerFrame
<1>2. OtherTypes' /\ DeviceInHand'
  BY <1>1, HandlerOtherTypes DEF IInv, TypeOK
<1>3. RowsStay /\ AckInHand' /\ ActiveLooksActive' /\ OnlyRacesResurrect'
  <2>1. CASE UNCHANGED alarms
    BY <1>1, <2>1, RowsUnchanged
  <2>2. CASE RaiseAlarm(h) /\ ~UNCHANGED alarms
    <3>1. Raise("device", handler[h].dev, 1) /\ handler[h].dev \in Device \cup {None}
      BY <2>2 DEF RaiseAlarm, IInv, TypeOK
    <3> QED BY <1>1, <3>1, RowRaised DEF RowsStay
  <2>3. CASE ClearAlarmOfDevice(h) /\ ~UNCHANGED alarms
    <3> DEFINE id == handler[h].id
               f == [i \in DOMAIN alarms |->
                       IF i = id THEN [alarms[i] EXCEPT !.status = 2, !.type = 2] ELSE alarms[i]]
    <3>1. handler[h].pc = "clear"
          /\ alarms' = [alarms EXCEPT ![handler[h].id].status = 2, ![handler[h].id].type = 2]
      BY <2>3 DEF ClearAlarmOfDevice
    <3>2. id \in DOMAIN alarms
      BY <3>1 DEF IInv, TypeOK, ClearInHand
    <3>3. alarms' = f
      BY <3>1, <3>2
    <3>4. \A i \in DOMAIN alarms : Edit(alarms[i], f[i])
      BY RowTyped, RowEdits DEF IInv
    <3>5. f = [i \in DOMAIN alarms |-> f[i]]
      OBVIOUS
    <3> HIDE DEF f
    <3>6. alarms' = [i \in DOMAIN alarms |-> f[i]]
      BY <3>3, <3>5
    <3> QED BY <1>1, <3>4, <3>6, RowsEdited DEF RowsStay
  <2> QED BY <2>1, <2>2, <2>3 DEF HandlerStep
<1>4. HandlerType' /\ ClearInHand'
  BY <1>1, <1>3, HandlerSet DEF RowsStay, IdleHandler
<1> QED BY <1>1, <1>2, <1>3, <1>4, Joined

-----------------------------------------------------------------------------
(* Operators and the northbound interface *)

LEMMA OperatorOtherTypes ==
  ASSUME IInv, OperatorFrame, done' \in [Move -> Nat], RowsStay
  PROVE  OtherTypes' /\ DeviceInHand' /\ HandlerType' /\ ClearInHand'
<1>1. UNCHANGED workerVars /\ UNCHANGED <<online, checker, dedup>> /\ UNCHANGED handler
  BY DEF OperatorFrame, checkVars
<1>2. OtherTypes' /\ DeviceInHand'
  BY <1>1, WorkerKept DEF IInv, TypeOK
<1> QED BY <1>1, <1>2, HandlersKept DEF RowsStay

LEMMA ClearSteps ==
  ASSUME IInv,
         \/ \E i \in DOMAIN alarms : ClearAlarm(i)
         \/ \E S \in SUBSET DOMAIN alarms : BatchClearAlarms(S) \/ NorthClearAlarms(S)
  PROVE  IInv' /\ RowsStay
<1>1. UNCHANGED <<ack, raced>> /\ OperatorFrame
  BY DEF ClearAlarm, BatchClearAlarms, NorthClearAlarms
<1>2. done' \in [Move -> Nat]
  <2>1. Spend("clear") \/ Spend("north")
    BY DEF ClearAlarm, BatchClearAlarms, NorthClearAlarms
  <2> QED BY <2>1, SpendTyped DEF IInv, Move
<1>3. PICK f : alarms' = [i \in DOMAIN alarms |-> f[i]]
              /\ \A i \in DOMAIN alarms : Edit(alarms[i], f[i])
  <2>1. ASSUME NEW i \in DOMAIN alarms, ClearAlarm(i)
        PROVE  \E f : alarms' = [j \in DOMAIN alarms |-> f[j]]
                      /\ \A j \in DOMAIN alarms : Edit(alarms[j], f[j])
    <3> DEFINE f == [j \in DOMAIN alarms |-> IF j = i THEN ClearRow(alarms[j]) ELSE alarms[j]]
    <3>1. alarms' = [j \in DOMAIN alarms |-> f[j]]
      BY <2>1 DEF ClearAlarm
    <3>2. \A j \in DOMAIN alarms : Edit(alarms[j], f[j])
      BY RowTyped, RowEdits DEF IInv
    <3> HIDE DEF f
    <3> QED BY <3>1, <3>2
  <2>2. ASSUME NEW S \in SUBSET DOMAIN alarms, BatchClearAlarms(S)
        PROVE  \E f : alarms' = [j \in DOMAIN alarms |-> f[j]]
                      /\ \A j \in DOMAIN alarms : Edit(alarms[j], f[j])
    <3> DEFINE f == [j \in DOMAIN alarms |-> IF j \in S THEN ClearRow(alarms[j]) ELSE alarms[j]]
    <3>1. alarms' = [j \in DOMAIN alarms |-> f[j]]
      BY <2>2 DEF BatchClearAlarms
    <3>2. \A j \in DOMAIN alarms : Edit(alarms[j], f[j])
      BY RowTyped, RowEdits DEF IInv
    <3> HIDE DEF f
    <3> QED BY <3>1, <3>2
  <2>3. ASSUME NEW S \in SUBSET DOMAIN alarms, NorthClearAlarms(S)
        PROVE  \E f : alarms' = [j \in DOMAIN alarms |-> f[j]]
                      /\ \A j \in DOMAIN alarms : Edit(alarms[j], f[j])
    <3> DEFINE f == [j \in DOMAIN alarms |->
                       IF j \in S THEN [alarms[j] EXCEPT !.status = 0] ELSE alarms[j]]
    <3>1. alarms' = [j \in DOMAIN alarms |-> f[j]]
      BY <2>3 DEF NorthClearAlarms
    <3>2. \A j \in DOMAIN alarms : Edit(alarms[j], f[j])
      BY RowTyped, RowEdits DEF IInv
    <3> HIDE DEF f
    <3> QED BY <3>1, <3>2
  <2> QED BY <2>1, <2>2, <2>3
<1>4. RowsStay /\ AckInHand' /\ ActiveLooksActive' /\ OnlyRacesResurrect'
  BY <1>1, <1>3, RowsEdited DEF RowsStay
<1>5. OtherTypes' /\ DeviceInHand' /\ HandlerType' /\ ClearInHand'
  BY <1>1, <1>2, <1>4, OperatorOtherTypes
<1> QED BY <1>1, <1>4, <1>5, Joined

\* A status that reads "cleared" is that of a row of the history.
LEMMA ReadSteps ==
  ASSUME IInv, NEW i \in DOMAIN alarms, ReadToConfirm(i) \/ ReadToUnconfirm(i)
  PROVE  IInv' /\ RowsStay
<1>1. UNCHANGED <<alarms, raced>> /\ OperatorFrame /\ Spend("ack")
  BY DEF ReadToConfirm, ReadToUnconfirm
<1>2. alarms[i] \in Row /\ alarms[i].status \in 0..4
  BY RowTyped DEF IInv, Row
<1>3. PICK n \in 1..4 : /\ ack' = [id |-> i, row |-> alarms[i], next |-> n]
                        /\ n \in {2, 4} => alarms[i].status \in {2, 4}
                        /\ n \in {1, 3} => alarms[i].status \in {1, 3}
  <2>1. CASE ReadToConfirm(i)
    <3>1. alarms[i].status \in {1, 2}
          /\ ack' = [id |-> i, row |-> alarms[i], next |-> alarms[i].status + 2]
      BY <2>1 DEF ReadToConfirm
    <3> QED BY <3>1
  <2>2. CASE ReadToUnconfirm(i)
    <3>1. alarms[i].status \in {3, 4}
          /\ ack' = [id |-> i, row |-> alarms[i], next |-> alarms[i].status - 2]
      BY <2>2 DEF ReadToUnconfirm
    <3> QED BY <3>1
  <2> QED BY <2>1, <2>2
<1>4. ack' \in [id : DOMAIN alarms, row : Row, next : 1..4]
  BY <1>2, <1>3
<1>5. RowsStay /\ (raced \subseteq DOMAIN alarms)'
  BY <1>1 DEF RowsStay, IInv, TypeOK
<1>6. AckType'
  BY <1>1, <1>4 DEF AckType
<1>7. AckInHand'
  <2>1. alarms[i].status \in {2, 4} => alarms[i].type = 2
    BY DEF IInv, ActiveLooksActive
  <2>2. ack'.next \in {2, 4} => alarms'[ack'.id].type = 2
    BY <1>1, <1>3, <2>1
  <2>3. ack'.next \in {1, 3} => ack'.row.status \in {1, 3}
    BY <1>3
  <2> QED BY <2>2, <2>3 DEF AckInHand
<1>8. ActiveLooksActive' /\ OnlyRacesResurrect'
  BY <1>1 DEF IInv, ActiveLooksActive, OnlyRacesResurrect
<1>9. done' \in [Move -> Nat]
  BY <1>1, SpendTyped DEF IInv, Move
<1>10. OtherTypes' /\ DeviceInHand' /\ HandlerType' /\ ClearInHand'
  BY <1>1, <1>5, <1>9, OperatorOtherTypes
<1>11. TypeOK'
  BY <1>5, <1>6, <1>10, TypesJoined DEF RowsStay
<1> QED BY <1>5, <1>7, <1>8, <1>10, <1>11 DEF IInv

\* A status is written that may have changed since it was read; then the row is
\* among the raced ones.
LEMMA AckStep ==
  ASSUME IInv, SetAlarmStatus
  PROVE  IInv' /\ RowsStay
<1> DEFINE id == ack.id
           r  == alarms[id]
<1>1. OperatorFrame /\ UNCHANGED done /\ ack' = None /\ ack # None
  BY DEF SetAlarmStatus
<1>2. ack \in [id : DOMAIN alarms, row : Row, next : 1..4]
  BY <1>1 DEF IInv, TypeOK
<1>3. id \in DOMAIN alarms /\ r \in Row /\ ack.next \in 1..4
  BY <1>2, RowTyped DEF IInv
<1>4. CASE UNCHANGED <<alarms, raced>>
  <2>1. RowsStay /\ (raced \subseteq DOMAIN alarms)' /\ ActiveLooksActive' /\ OnlyRacesResurrect'
    BY <1>4 DEF RowsStay, IInv, TypeOK, ActiveLooksActive, OnlyRacesResurrect
  <2>2. AckType' /\ AckInHand'
    BY <1>1 DEF AckType, AckInHand
  <2>3. OtherTypes' /\ DeviceInHand' /\ HandlerType' /\ ClearInHand'
    BY <1>1, <2>1, OperatorOtherTypes DEF IInv, TypeOK
  <2>4. TypeOK'
    BY <2>1, <2>2, <2>3, TypesJoined DEF RowsStay
  <2> QED BY <2>1, <2>2, <2>3, <2>4 DEF IInv
<1>5. CASE /\ alarms' = [alarms EXCEPT ![ack.id].status = ack.next]
           /\ raced' = IF alarms[ack.id].status = ack.row.status THEN raced ELSE raced \cup {ack.id}
  <2>1. /\ DOMAIN alarms' = DOMAIN alarms
        /\ \A i \in DOMAIN alarms : alarms'[i] = IF i = id THEN [r EXCEPT !.status = ack.next]
                                                 ELSE alarms[i]
    BY <1>3, <1>5
  <2>2. /\ [r EXCEPT !.status = ack.next] \in Row
        /\ [r EXCEPT !.status = ack.next].type = r.type
        /\ [r EXCEPT !.status = ack.next].status = ack.next
    BY <1>3 DEF Row
  <2>3. alarms' \in Seq(Row)
    <3>1. DOMAIN alarms = 1..Len(alarms) /\ Len(alarms) \in Nat
          /\ \A i \in DOMAIN alarms : alarms[i] \in Row
      BY RowTyped DEF IInv
    <3>2. alarms' = [i \in 1..Len(alarms) |-> alarms'[i]]
      BY <1>5, <3>1
    <3>3. \A i \in 1..Len(alarms) : alarms'[i] \in Row
      BY <2>1, <2>2, <3>1
    <3> QED BY <3>1, <3>2, <3>3
  <2>4. \A i \in DOMAIN alarms : alarms'[i].type = alarms[i].type
    BY <2>1, <2>2
  <2>5. RowsStay
    BY <2>1, <2>3, <2>4 DEF RowsStay
  <2>6. raced \subseteq raced' /\ raced' \subseteq DOMAIN alarms'
    BY <1>3, <1>5, <2>1 DEF IInv, TypeOK
  <2>7. ActiveLooksActive'
    <3>1. ack.next \in {2, 4} => r.type = 2
      BY <1>1 DEF IInv, AckInHand
    <3> QED BY <2>1, <2>2, <2>4, <3>1 DEF IInv, ActiveLooksActive
  <2>8. OnlyRacesResurrect'
    <3>1. ASSUME r.type = 2, ack.next \in {1, 3} PROVE id \in raced'
      <4>1. ack.row.status \in {1, 3}
        BY <1>1, <3>1 DEF IInv, AckInHand
      <4>2. r.status = ack.row.status => id \in raced
        BY <1>3, <3>1, <4>1 DEF IInv, OnlyRacesResurrect
      <4> QED BY <1>5, <4>2
    <3> QED BY <2>1, <2>2, <2>6, <3>1 DEF IInv, OnlyRacesResurrect
  <2>9. AckType' /\ AckInHand'
    BY <1>1 DEF AckType, AckInHand
  <2>10. OtherTypes' /\ DeviceInHand' /\ HandlerType' /\ ClearInHand'
    BY <1>1, <2>5, OperatorOtherTypes DEF IInv, TypeOK
  <2>11. TypeOK'
    BY <2>3, <2>6, <2>9, <2>10, TypesJoined
  <2> QED BY <2>5, <2>7, <2>8, <2>9, <2>10, <2>11 DEF IInv
<1> QED BY <1>4, <1>5 DEF SetAlarmStatus

LEMMA NextInv == IInv /\ [Next]_vars => IInv' /\ RowsStay
<1> SUFFICES ASSUME IInv, [Next]_vars PROVE IInv' /\ RowsStay
  OBVIOUS
<1>1. CASE WorkerStep
  BY <1>1, WorkerInv
<1>2. CASE \E d \in Device : Inform(d) \/ OnlineKeyExpires(d)
  BY <1>2, DeviceSteps
<1>3. CASE \E h \in Handler, d \in Device : AlarmEvent(h, d) \/ AlarmEventUnread(h, d)
  BY <1>3, EventSteps
<1>4. CASE \E h \in Handler : HandlerStep(h)
  BY <1>4, HandlerSteps
<1>5. CASE \/ \E i \in DOMAIN alarms : ClearAlarm(i)
           \/ \E S \in SUBSET DOMAIN alarms : BatchClearAlarms(S) \/ NorthClearAlarms(S)
  BY <1>5, ClearSteps
<1>6. CASE \E i \in DOMAIN alarms : ReadToConfirm(i) \/ ReadToUnconfirm(i)
  BY <1>6, ReadSteps
<1>7. CASE SetAlarmStatus
  BY <1>7, AckStep
<1>8. CASE CheckThreshold \/ CreateThresholdAlarm \/ SetDedupKey \/ DedupKeyExpires
  BY <1>8, CheckerSteps
<1>9. CASE Trap
  BY <1>9, TrapStep
<1>10. CASE Crash
  BY <1>10, CrashStep
<1>11. CASE UNCHANGED vars
  <2>1. UNCHANGED <<alarms, ack, raced>> /\ UNCHANGED handler /\ UNCHANGED workerVars
        /\ UNCHANGED <<online, checker, dedup, done>>
    BY <1>11 DEF vars, checkVars
  <2>2. OtherTypes' /\ DeviceInHand'
    BY <2>1, WorkerKept DEF IInv, TypeOK
  <2>3. HandlerType' /\ ClearInHand'
    BY <2>1, HandlersKept
  <2> QED BY <2>1, <2>2, <2>3, RowsUnchanged, Joined
<1> QED BY <1>1, <1>2, <1>3, <1>4, <1>5, <1>6, <1>7, <1>8, <1>9, <1>10, <1>11 DEF Next

-----------------------------------------------------------------------------
(* The theorems *)

\* The inductive invariant holds in every reachable state: the rows of the table,
\* and what the worker, the handlers and an acknowledgement have in hand, fit.
LEMMA Invariance == Spec => []IInv
BY InitInv, NextInv, PTL DEF Spec

\* The variables of all writers of the alarm table keep their types.
THEOREM TypeCorrect == Spec => []TypeOK
<1>1. IInv => TypeOK
  BY DEF IInv
<1> QED BY <1>1, Invariance, PTL

\* No row that counts as active by its type shows a cleared status, whichever of
\* the workers, handlers, operators and the northbound interface wrote it last.
THEOREM ActiveShowsActive == Spec => []ActiveLooksActive
<1>1. IInv => ActiveLooksActive
  BY DEF IInv
<1> QED BY <1>1, Invariance, PTL

\* Only an acknowledgement that wrote over a clear gives a row of the history the
\* status of an active alarm.
THEOREM OnlyRaces == Spec => []OnlyRacesResurrect
<1>1. IInv => OnlyRacesResurrect
  BY DEF IInv
<1> QED BY <1>1, Invariance, PTL

\* No step of any writer turns a row of the history back into an active one.
THEOREM HistoryForGood == Spec => HistoryStays
<1>1. IInv /\ [Next]_vars =>
        [\A i \in DOMAIN alarms : alarms[i].type = 2 => alarms'[i].type = 2]_vars
  BY NextInv DEF RowsStay
<1> QED BY <1>1, Invariance, PTL DEF HistoryStays, Spec

-----------------------------------------------------------------------------
(* Counting rows: what a step adds to the rows of a cause and device *)

\* An acknowledgement in hand has read a row that is not cleared by status 0, which
\* no operator sees as open; a handler is about to clear an alarm of a device, never
\* an outage.
ReadInHand ==
  /\ ack # None => ack.row.status # 0
  /\ \A h \in Handler : handler[h].pc = "clear" => alarms[handler[h].id].cause = "device"

\* What a step that raises nothing makes of the rows: their cause and device stay,
\* the type at most becomes history, and an outage leaves status 0 only by a race.
RowsSame ==
  /\ DOMAIN alarms' = DOMAIN alarms
  /\ raced \subseteq raced'
  /\ \A i \in DOMAIN alarms :
       /\ alarms'[i].cause = alarms[i].cause
       /\ alarms'[i].dev = alarms[i].dev
       /\ alarms'[i].type \in {alarms[i].type, 2}
       /\ alarms[i].cause = "offline" /\ alarms[i].status = 0 =>
            alarms'[i].status = 0 \/ i \in raced'

LEMMA SpendAdds ==
  ASSUME TypeOK, NEW m \in Move, Spend(m)
  PROVE  \A n \in Move : done'[n] = IF n = m THEN done[n] + 1 ELSE done[n]
<1>1. done' = [done EXCEPT ![m] = done[m] + 1]
  BY Zenon DEF Spend
<1> QED BY <1>1 DEF TypeOK

\* A smaller set has no more elements, and one element more adds at most one.
LEMMA CountOneMore ==
  ASSUME NEW S, NEW T, NEW x, IsFiniteSet(S), T \subseteq S \cup {x}
  PROVE  /\ IsFiniteSet(T) /\ Cardinality(T) \in Nat /\ Cardinality(S) \in Nat
         /\ Cardinality(T) <= Cardinality(S) + 1
         /\ T \subseteq S => Cardinality(T) <= Cardinality(S)
<1>1. IsFiniteSet(S \cup {x}) /\ Cardinality(S) \in Nat
      /\ (Cardinality(S \cup {x}) = Cardinality(S) + 1 \/ Cardinality(S \cup {x}) = Cardinality(S))
  BY FS_AddElement, FS_CardinalityType
<1>2. IsFiniteSet(T) /\ Cardinality(T) <= Cardinality(S \cup {x}) /\ Cardinality(T) \in Nat
  BY <1>1, FS_Subset, FS_CardinalityType
<1>3. T \subseteq S => Cardinality(T) <= Cardinality(S)
  BY FS_Subset
<1> QED BY <1>1, <1>2, <1>3

LEMMA RowSetsFinite ==
  ASSUME NEW s \in Seq(Row), NEW S \in SUBSET DOMAIN s
  PROVE  IsFiniteSet(S) /\ Cardinality(S) \in Nat
<1>1. DOMAIN s = 1..Len(s) /\ Len(s) \in Nat
  OBVIOUS
<1>2. IsFiniteSet(DOMAIN s)
  BY <1>1, FS_Interval
<1> QED BY <1>2, FS_Subset, FS_CardinalityType

LEMMA SameCounts ==
  ASSUME TypeOK, RowsSame
  PROVE  /\ Cardinality(Of("threshold", None))' <= Cardinality(Of("threshold", None))
         /\ \A d \in Device : /\ Cardinality(Active(d))' <= Cardinality(Active(d))
                              /\ Cardinality(Uncleared(d) \ raced)' <= Cardinality(Uncleared(d) \ raced)
<1>1. ASSUME NEW c, NEW d PROVE Of(c, d)' = Of(c, d)
  BY DEF RowsSame, Of
<1>2. ASSUME NEW S \in SUBSET DOMAIN alarms, NEW T \in SUBSET S
      PROVE  Cardinality(T) <= Cardinality(S)
  BY <1>2, RowSetsFinite, FS_Subset DEF TypeOK
<1>3. Cardinality(Of("threshold", None))' <= Cardinality(Of("threshold", None))
  <2>1. Of("threshold", None)' = Of("threshold", None)
    BY <1>1
  <2>2. Of("threshold", None) \in SUBSET DOMAIN alarms
    BY DEF Of
  <2> QED BY <1>2, <2>1, <2>2
<1>4. ASSUME NEW d \in Device
      PROVE  /\ Cardinality(Active(d))' <= Cardinality(Active(d))
             /\ Cardinality(Uncleared(d) \ raced)' <= Cardinality(Uncleared(d) \ raced)
  <2>1. Active(d)' \subseteq Active(d) /\ Active(d) \subseteq DOMAIN alarms
    BY <1>1 DEF Active, Of, RowsSame
  <2>2. (Uncleared(d) \ raced)' \subseteq Uncleared(d) \ raced
        /\ Uncleared(d) \ raced \subseteq DOMAIN alarms
    BY <1>1 DEF Uncleared, Of, RowsSame
  <2> QED BY <1>2, <2>1, <2>2
<1> QED BY <1>3, <1>4

\* A raised row counts for its own cause and device.
LEMMA RaisedCounts ==
  ASSUME TypeOK, UNCHANGED raced, NEW c, NEW e, NEW t, Raise(c, e, t)
  PROVE  /\ Cardinality(Of("threshold", None))' <=
              Cardinality(Of("threshold", None)) + (IF c = "threshold" THEN 1 ELSE 0)
         /\ \A d \in Device :
              /\ Cardinality(Active(d))' <=
                   Cardinality(Active(d)) + (IF c = "device" /\ e = d THEN 1 ELSE 0)
              /\ Cardinality(Uncleared(d) \ raced)' <=
                   Cardinality(Uncleared(d) \ raced) + (IF c = "offline" /\ e = d THEN 1 ELSE 0)
<1> DEFINE n == Len(alarms) + 1
<1>1. /\ DOMAIN alarms' = DOMAIN alarms \cup {n}
      /\ \A i \in DOMAIN alarms : alarms'[i] = alarms[i]
      /\ alarms'[n].cause = c /\ alarms'[n].dev = e
  BY RowTyped DEF Raise, NewRow, TypeOK
<1> HIDE DEF n
<1>2. ASSUME NEW S \in SUBSET DOMAIN alarms, NEW T, T \subseteq S \cup {n}
      PROVE  /\ Cardinality(T) <= Cardinality(S) + 1
             /\ n \notin T => Cardinality(T) <= Cardinality(S)
             /\ Cardinality(S) \in Nat /\ Cardinality(T) \in Nat
  <2>1. IsFiniteSet(S)
    BY RowSetsFinite DEF TypeOK
  <2> QED BY <1>2, <2>1, CountOneMore
<1>3. /\ Of("threshold", None)' \subseteq Of("threshold", None) \cup {n}
      /\ n \in Of("threshold", None)' => c = "threshold"
      /\ Of("threshold", None) \subseteq DOMAIN alarms
  BY <1>1 DEF Of
<1>4. ASSUME NEW d \in Device
      PROVE  /\ Active(d)' \subseteq Active(d) \cup {n} /\ Active(d) \subseteq DOMAIN alarms
             /\ n \in Active(d)' => c = "device" /\ e = d
             /\ (Uncleared(d) \ raced)' \subseteq (Uncleared(d) \ raced) \cup {n}
             /\ (Uncleared(d) \ raced) \subseteq DOMAIN alarms
             /\ n \in (Uncleared(d) \ raced)' => c = "offline" /\ e = d
  BY <1>1 DEF Active, Uncleared, Of
<1>5. Cardinality(Of("threshold", None))' <=
        Cardinality(Of("threshold", None)) + (IF c = "threshold" THEN 1 ELSE 0)
  BY <1>2, <1>3
<1>6. ASSUME NEW d \in Device
      PROVE  /\ Cardinality(Active(d))' <=
                   Cardinality(Active(d)) + (IF c = "device" /\ e = d THEN 1 ELSE 0)
             /\ Cardinality(Uncleared(d) \ raced)' <=
                   Cardinality(Uncleared(d) \ raced) + (IF c = "offline" /\ e = d THEN 1 ELSE 0)
  BY <1>2, <1>4
<1> QED BY <1>5, <1>6

\* The steps that raise a row, each for one cause.
RaisingStep ==
  \/ CreateOfflineAlarm /\ Raise("offline", worker.dev, 1) /\ Goto("tellOff") /\ UNCHANGED done
  \/ \E h \in Handler : RaiseAlarm(h) /\ Raise("device", handler[h].dev, 1)
  \/ CreateThresholdAlarm /\ Raise("threshold", None, 4) /\ checker' = "key"
  \/ Trap

LEMMA RaisingFrame ==
  ASSUME RaisingStep
  PROVE  UNCHANGED <<ack, raced>>
BY DEF RaisingStep, CreateOfflineAlarm, RaiseAlarm, CreateThresholdAlarm, Trap,
       WorkerStepFrame, HandlerFrame, CheckFrame

\* A table that is not written, and one whose rows are written one by one.
LEMMA WrittenSame ==
  ASSUME IInv, ReadInHand, UNCHANGED raced,
         \/ UNCHANGED alarms
         \/ ClearOfflineAlarm
         \/ \E h \in Handler : ClearAlarmOfDevice(h)
         \/ \E i \in DOMAIN alarms : ClearAlarm(i)
         \/ \E S \in SUBSET DOMAIN alarms : BatchClearAlarms(S) \/ NorthClearAlarms(S)
  PROVE  RowsSame
<1> USE RowTyped DEF IInv
<1>1. CASE UNCHANGED alarms
  BY <1>1 DEF RowsSame
<1>2. CASE ClearOfflineAlarm /\ ~UNCHANGED alarms
  BY <1>2 DEF ClearOfflineAlarm, RowsSame, Row
<1>3. ASSUME NEW h \in Handler, ClearAlarmOfDevice(h), ~UNCHANGED alarms
      PROVE  RowsSame
  <2> DEFINE id == handler[h].id
  <2>1. handler[h].pc = "clear"
        /\ alarms' = [alarms EXCEPT ![id].status = 2, ![id].type = 2]
    BY <1>3 DEF ClearAlarmOfDevice
  <2>2. id \in DOMAIN alarms /\ alarms[id].cause = "device"
    BY <2>1 DEF TypeOK, ClearInHand, ReadInHand
  <2>3. DOMAIN alarms' = DOMAIN alarms
        /\ \A i \in DOMAIN alarms :
             alarms'[i] = IF i = id THEN [alarms[i] EXCEPT !.status = 2, !.type = 2]
                          ELSE alarms[i]
    BY <2>1, <2>2
  <2>4. ASSUME NEW r \in Row, NEW q, q = [r EXCEPT !.status = 2, !.type = 2]
        PROVE  q.cause = r.cause /\ q.dev = r.dev /\ q.type = 2
    BY <2>4 DEF Row
  <2> HIDE DEF id
  <2>5. ASSUME NEW i \in DOMAIN alarms, i # id
        PROVE  alarms'[i] = alarms[i]
    BY <2>3, <2>5
  <2>6. alarms'[id].cause = alarms[id].cause /\ alarms'[id].dev = alarms[id].dev
        /\ alarms'[id].type = 2
    BY <2>2, <2>3, <2>4
  <2> QED BY <2>2, <2>3, <2>5, <2>6 DEF RowsSame
<1>4. ASSUME NEW r \in Row
      PROVE  /\ ClearRow(r).cause = r.cause /\ ClearRow(r).dev = r.dev /\ ClearRow(r).type = 2
             /\ r.status = 0 => ClearRow(r).status = 0
  BY DEF ClearRow, Cleared, Row
<1>5. ASSUME NEW i \in DOMAIN alarms, ClearAlarm(i)
      PROVE  RowsSame
  <2>1. alarms' = [alarms EXCEPT ![i] = ClearRow(alarms[i])]
    BY <1>5, Zenon DEF ClearAlarm
  <2> QED BY <1>4, <2>1 DEF RowsSame
<1>6. ASSUME NEW S \in SUBSET DOMAIN alarms, BatchClearAlarms(S) \/ NorthClearAlarms(S)
      PROVE  RowsSame
  <2>1. CASE BatchClearAlarms(S)
    BY <1>4, <2>1 DEF BatchClearAlarms, RowsSame
  <2>2. CASE NorthClearAlarms(S)
    BY <2>2 DEF NorthClearAlarms, RowsSame, Row
  <2> QED BY <1>6, <2>1, <2>2
<1> QED BY <1>1, <1>2, <1>3, <1>5, <1>6

\* An acknowledgement that opens a row with status 0 had read another status.
LEMMA AckSame ==
  ASSUME IInv, ReadInHand, SetAlarmStatus
  PROVE  RowsSame
<1>1. CASE UNCHANGED <<alarms, raced>>
  BY <1>1 DEF RowsSame
<1>2. CASE ~UNCHANGED <<alarms, raced>>
  <2>1. /\ alarms' = [alarms EXCEPT ![ack.id].status = ack.next]
        /\ raced' = IF alarms[ack.id].status = ack.row.status THEN raced ELSE raced \cup {ack.id}
        /\ ack # None
    BY <1>2 DEF SetAlarmStatus
  <2>2. ack.id \in DOMAIN alarms /\ ack.row.status # 0
    BY <2>1 DEF IInv, TypeOK, ReadInHand
  <2>3. \A i \in DOMAIN alarms : alarms[i] \in Row
    BY RowTyped DEF IInv
  <2> QED BY <2>1, <2>2, <2>3 DEF RowsSame, Row
<1> QED BY <1>1, <1>2

LEMMA RaisingKeeps ==
  ASSUME TypeOK, RaisingStep
  PROVE  \A i \in DOMAIN alarms : alarms'[i] = alarms[i]
<1>1. PICK r : alarms' = Append(alarms, r)
  BY DEF RaisingStep, Raise, Trap
<1> QED BY <1>1 DEF TypeOK

LEMMA RowsOfStep ==
  ASSUME IInv, ReadInHand, [Next]_vars
  PROVE  RowsSame \/ RaisingStep
<1>1. CASE WorkerStep
  <2>1. UNCHANGED raced
    BY <1>1 DEF WorkerStep, StartPass, SetDashboardKey, ClearOfflineAlarm, FindOfflineAlarm,
                CreateOfflineAlarm, Tell, DropDashboardKey, CheckDevice, WorkerStepFrame
  <2>2. UNCHANGED alarms \/ ClearOfflineAlarm
        \/ (CreateOfflineAlarm /\ Raise("offline", worker.dev, 1) /\ Goto("tellOff")
            /\ UNCHANGED done)
    BY <1>1 DEF WorkerStep, StartPass, SetDashboardKey, FindOfflineAlarm,
                CreateOfflineAlarm, Tell, DropDashboardKey, CheckDevice
  <2> QED BY <2>1, <2>2, WrittenSame DEF RaisingStep
<1>2. CASE \E h \in Handler : HandlerStep(h)
  <2>1. PICK h \in Handler : HandlerStep(h)
    BY <1>2
  <2>2. UNCHANGED raced
    BY <2>1 DEF HandlerStep, RaiseAlarm, ClearAlarmOfDevice, HandlerFrame
  <2>3. UNCHANGED alarms \/ ClearAlarmOfDevice(h)
        \/ (RaiseAlarm(h) /\ Raise("device", handler[h].dev, 1))
    BY <2>1 DEF HandlerStep, RaiseAlarm
  <2> QED BY <2>2, <2>3, WrittenSame DEF RaisingStep
<1>3. CASE \/ \E d \in Device : Inform(d) \/ OnlineKeyExpires(d)
           \/ \E h \in Handler, d \in Device : AlarmEvent(h, d) \/ AlarmEventUnread(h, d)
           \/ \E i \in DOMAIN alarms : ReadToConfirm(i) \/ ReadToUnconfirm(i)
           \/ Crash \/ UNCHANGED vars
  <2>1. UNCHANGED <<alarms, raced>>
    BY <1>3 DEF Inform, OnlineKeyExpires, AlarmEvent, AlarmEventUnread, HandlerFrame,
                ReadToConfirm, ReadToUnconfirm, Crash, vars
  <2> QED BY <2>1, WrittenSame
<1>4. CASE \/ \E i \in DOMAIN alarms : ClearAlarm(i)
           \/ \E S \in SUBSET DOMAIN alarms : BatchClearAlarms(S) \/ NorthClearAlarms(S)
  <2>1. UNCHANGED raced
    BY <1>4 DEF ClearAlarm, BatchClearAlarms, NorthClearAlarms
  <2> QED BY <1>4, <2>1, WrittenSame
<1>5. CASE SetAlarmStatus
  BY <1>5, AckSame
<1>6. CASE CheckThreshold \/ CreateThresholdAlarm \/ SetDedupKey \/ DedupKeyExpires
  <2>1. UNCHANGED raced
    BY <1>6 DEF CheckThreshold, CreateThresholdAlarm, SetDedupKey, DedupKeyExpires, CheckFrame
  <2>2. UNCHANGED alarms
        \/ (CreateThresholdAlarm /\ Raise("threshold", None, 4) /\ checker' = "key")
    BY <1>6 DEF CheckThreshold, CreateThresholdAlarm, SetDedupKey, DedupKeyExpires, CheckFrame
  <2> QED BY <2>1, <2>2, WrittenSame DEF RaisingStep
<1>7. CASE Trap
  BY <1>7 DEF RaisingStep
<1> QED BY <1>1, <1>2, <1>3, <1>4, <1>5, <1>6, <1>7 DEF Next

LEMMA ReadStep ==
  ASSUME IInv, ReadInHand, [Next]_vars
  PROVE  ReadInHand'
<1>1. \A i \in DOMAIN alarms : alarms'[i].cause = alarms[i].cause
  BY RowsOfStep, RaisingKeeps DEF RowsSame, IInv
<1>2. \/ ack' \in {ack, None}
      \/ \E i \in DOMAIN alarms : ReadToConfirm(i) \/ ReadToUnconfirm(i)
  BY DEF Next, WorkerStep, StartPass, SetDashboardKey, ClearOfflineAlarm, FindOfflineAlarm,
         CreateOfflineAlarm, Tell, DropDashboardKey, CheckDevice, WorkerStepFrame,
         HandlerStep, RaiseAlarm, ClearAlarmOfDevice, AlarmEvent, AlarmEventUnread, HandlerFrame,
         Inform, OnlineKeyExpires, ClearAlarm, BatchClearAlarms, NorthClearAlarms,
         SetAlarmStatus, CheckThreshold, CreateThresholdAlarm, SetDedupKey, DedupKeyExpires,
         CheckFrame, Trap, Crash, vars
<1>3. ack' # None => ack'.row.status # 0
  BY <1>2 DEF ReadInHand, ReadToConfirm, ReadToUnconfirm
<1>4. \/ \A g \in Handler : handler'[g] \in {handler[g], IdleHandler}
      \/ \E h \in Handler, d \in Device : AlarmEvent(h, d) \/ AlarmEventUnread(h, d)
  <2>1. \/ UNCHANGED handler
        \/ handler' = [h \in Handler |-> IdleHandler]
        \/ \E h \in Handler : handler' = [handler EXCEPT ![h] = IdleHandler]
        \/ \E h \in Handler, d \in Device : AlarmEvent(h, d) \/ AlarmEventUnread(h, d)
    BY DEF Next, WorkerStep, StartPass, SetDashboardKey, ClearOfflineAlarm, FindOfflineAlarm,
           CreateOfflineAlarm, Tell, DropDashboardKey, CheckDevice, WorkerStepFrame,
           HandlerStep, RaiseAlarm, ClearAlarmOfDevice,
           Inform, OnlineKeyExpires, ClearAlarm, BatchClearAlarms, NorthClearAlarms,
           ReadToConfirm, ReadToUnconfirm, OperatorFrame,
           SetAlarmStatus, CheckThreshold, CreateThresholdAlarm, SetDedupKey, DedupKeyExpires,
           CheckFrame, Trap, Crash, vars
  <2> QED BY <2>1 DEF IInv, TypeOK
<1>5. CASE \A g \in Handler : handler'[g] \in {handler[g], IdleHandler}
  BY <1>1, <1>3, <1>5 DEF ReadInHand, IdleHandler, IInv, TypeOK, ClearInHand
<1>6. ASSUME NEW h \in Handler, NEW d \in Device, AlarmEvent(h, d) \/ AlarmEventUnread(h, d)
      PROVE  ReadInHand'
  <2>1. UNCHANGED alarms
    BY <1>6 DEF AlarmEvent, AlarmEventUnread
  <2>2. CASE AlarmEventUnread(h, d)
    BY <1>3, <2>1, <2>2 DEF AlarmEventUnread, ReadInHand, IInv, TypeOK
  <2>3. CASE AlarmEvent(h, d)
    <3>1. PICK i \in IF Active(d) = {} THEN {0} ELSE Active(d) :
            handler' = [handler EXCEPT ![h] =
              [pc |-> IF i = 0 THEN "raise" ELSE "clear", dev |-> d, id |-> i]]
      BY <2>3 DEF AlarmEvent
    <3>2. i # 0 => alarms[i].cause = "device"
      BY DEF Active, Of
    <3> QED BY <1>3, <2>1, <3>1, <3>2 DEF ReadInHand, IInv, TypeOK
  <2> QED BY <1>6, <2>2, <2>3
<1> QED BY <1>4, <1>5, <1>6

-----------------------------------------------------------------------------
(* What is being raised counts with what has been *)

\* The handlers that are about to raise an alarm of a device, and an outage the
\* worker is about to create.
Raising(d)  == {h \in Handler : handler[h].pc = "raise" /\ handler[h].dev = d}
Creating(d) == IF worker.pc = "create" /\ worker.dev = d THEN 1 ELSE 0

\* The checker has inserted an alarm: the key is about to be set, or is there.
Paid == checker = "key" \/ (checker = "rest" /\ dedup)

ActiveCounted ==
  \A d \in Device :
    /\ IsFiniteSet(Raising(d))
    /\ Cardinality(Active(d)) + Cardinality(Raising(d)) <= 1 + done["overlap"] + done["db"]

OutagesCounted ==
  \A d \in Device : Cardinality(Uncleared(d) \ raced) + Creating(d) <= 1 + done["db"]

BreachesCounted ==
  Cardinality(Of("threshold", None)) + (IF Paid THEN 0 ELSE 1)
    <= 1 + done["dedupTTL"] + done["redis"] + done["crash"]

CInv == IInv /\ ReadInHand /\ ActiveCounted /\ OutagesCounted /\ BreachesCounted

LEMMA InitCounted == Init => CInv
<1> SUFFICES ASSUME Init PROVE CInv
  OBVIOUS
<1>1. /\ alarms = <<>> /\ DOMAIN alarms = {} /\ ack = None /\ worker.pc = "rest"
      /\ checker = "rest" /\ ~dedup
      /\ \A h \in Handler : handler[h].pc = "idle"
      /\ \A m \in Move : done[m] = 0
  BY DEF Init, Resting, IdleHandler
<1>2. Cardinality({}) = 0 /\ IsFiniteSet({})
  BY FS_EmptySet
<1>3. ASSUME NEW d \in Device
      PROVE  Active(d) = {} /\ Raising(d) = {} /\ Uncleared(d) \ raced = {} /\ Creating(d) = 0
  BY <1>1 DEF Active, Raising, Uncleared, Creating, Of
<1>4. Of("threshold", None) = {} /\ ~Paid
  BY <1>1 DEF Of, Paid
<1>5. ActiveCounted /\ OutagesCounted
  <2>1. done["overlap"] = 0 /\ done["db"] = 0
    BY <1>1 DEF Move
  <2>2. ASSUME NEW d \in Device
        PROVE  /\ IsFiniteSet(Raising(d)) /\ Cardinality(Raising(d)) = 0
               /\ Cardinality(Active(d)) = 0 /\ Cardinality(Uncleared(d) \ raced) = 0
    BY <1>2, <1>3
  <2> QED BY <1>3, <2>1, <2>2 DEF ActiveCounted, OutagesCounted
<1>6. BreachesCounted
  <2>1. Cardinality(Of("threshold", None)) = 0
    BY <1>2, <1>4
  <2>2. done["dedupTTL"] = 0 /\ done["redis"] = 0 /\ done["crash"] = 0
    BY <1>1 DEF Move
  <2> QED BY <1>4, <2>1, <2>2 DEF BreachesCounted
<1>7. ReadInHand
  BY <1>1 DEF ReadInHand
<1> QED BY <1>5, <1>6, <1>7, InitInv DEF CInv

\* The moves are counted by natural numbers, and never uncounted.
LEMMA DoneGrows ==
  ASSUME TypeOK, [Next]_vars
  PROVE  \A m \in Move : done[m] \in Nat /\ done'[m] \in Nat /\ done[m] <= done'[m]
<1>1. UNCHANGED done \/ \E m \in Move : Spend(m)
  BY DEF Next, WorkerStep, StartPass, SetDashboardKey, ClearOfflineAlarm, FindOfflineAlarm,
         CreateOfflineAlarm, Tell, DropDashboardKey, CheckDevice, Move,
         HandlerStep, RaiseAlarm, ClearAlarmOfDevice, AlarmEvent, AlarmEventUnread,
         Inform, OnlineKeyExpires, ClearAlarm, BatchClearAlarms, NorthClearAlarms,
         ReadToConfirm, ReadToUnconfirm, SetAlarmStatus, CheckThreshold, CreateThresholdAlarm,
         SetDedupKey, DedupKeyExpires, Trap, Crash, vars
<1>2. ASSUME NEW m \in Move PROVE done[m] \in Nat
  BY DEF TypeOK
<1>3. ASSUME NEW m \in Move, Spend(m)
      PROVE  \A n \in Move : done'[n] \in Nat /\ done[n] <= done'[n]
  BY <1>2, <1>3, SpendAdds
<1> QED BY <1>1, <1>2, <1>3

-----------------------------------------------------------------------------
(* Threshold alarms *)

\* What the checker does other than raise costs a life of the key, an error or a
\* crash wherever it makes room for one more alarm.
LEMMA CheckerPays ==
  ASSUME TypeOK, TypeOK', [Next]_vars, ~RaisingStep
  PROVE  (IF Paid THEN 0 ELSE 1)' + done["dedupTTL"] + done["redis"] + done["crash"] <=
         (IF Paid THEN 0 ELSE 1) + done'["dedupTTL"] + done'["redis"] + done'["crash"]
<1>0. \A m \in {"dedupTTL", "redis", "crash"} :
        done[m] \in Nat /\ done'[m] \in Nat /\ done[m] <= done'[m]
  BY DoneGrows DEF Move
<1>1. CASE Paid' <=> Paid
  BY <1>0, <1>1
<1>2. CASE Paid' /\ ~Paid
  BY <1>0, <1>2
<1>3. ASSUME Paid, ~Paid'
      PROVE  \E m \in {"dedupTTL", "redis", "crash"} : Spend(m)
  <2>1. \/ UNCHANGED <<checker, dedup>> \/ Crash \/ CheckThreshold \/ CreateThresholdAlarm
        \/ SetDedupKey \/ DedupKeyExpires
    BY DEF Next, WorkerStep, StartPass, SetDashboardKey, ClearOfflineAlarm, FindOfflineAlarm,
           CreateOfflineAlarm, Tell, DropDashboardKey, CheckDevice, WorkerStepFrame,
           HandlerStep, RaiseAlarm, ClearAlarmOfDevice, AlarmEvent, AlarmEventUnread, HandlerFrame,
           Inform, OnlineKeyExpires, ClearAlarm, BatchClearAlarms, NorthClearAlarms,
           ReadToConfirm, ReadToUnconfirm, OperatorFrame, SetAlarmStatus, Trap, vars, checkVars
  <2>2. CASE UNCHANGED <<checker, dedup>>
    BY <1>3, <2>2 DEF Paid
  <2>3. CASE CheckThreshold \/ SetDedupKey \/ DedupKeyExpires \/ Crash
    BY <1>3, <2>3 DEF Paid, CheckThreshold, SetDedupKey, DedupKeyExpires, Crash
  <2>4. CASE CreateThresholdAlarm
    BY <1>3, <2>4 DEF Paid, CreateThresholdAlarm
  <2> QED BY <2>1, <2>2, <2>3, <2>4
<1>4. CASE Paid /\ ~Paid'
  <2>1. PICK m \in {"dedupTTL", "redis", "crash"} : Spend(m)
    BY <1>3, <1>4
  <2>2. done'[m] = done[m] + 1
    BY <2>1, SpendAdds DEF Move
  <2> QED BY <1>0, <1>4, <2>1, <2>2
<1> QED BY <1>1, <1>2, <1>4

LEMMA BreachesStep ==
  ASSUME CInv, TypeOK', [Next]_vars
  PROVE  BreachesCounted'
<1> DEFINE X  == done["dedupTTL"] + done["redis"] + done["crash"]
           N  == Cardinality(Of("threshold", None))
           P  == IF Paid THEN 0 ELSE 1
<1>1. X \in Nat /\ X' \in Nat /\ X <= X' /\ P \in {0, 1} /\ P' \in {0, 1}
  <2>1. \A m \in {"dedupTTL", "redis", "crash"} :
          done[m] \in Nat /\ done'[m] \in Nat /\ done[m] <= done'[m]
    BY DoneGrows DEF CInv, IInv, Move
  <2> QED BY <2>1
<1>2. N \in Nat /\ N' \in Nat
  <2>1. Of("threshold", None) \in SUBSET DOMAIN alarms
        /\ Of("threshold", None)' \in SUBSET DOMAIN alarms'
    BY DEF Of
  <2> QED BY <2>1, RowSetsFinite DEF CInv, IInv, TypeOK
<1>3. N + P <= 1 + X <=> BreachesCounted
  <2>1. \A m \in {"dedupTTL", "redis", "crash"} : done[m] \in Nat
    BY DoneGrows DEF CInv, IInv, Move
  <2> QED BY <1>1, <1>2, <2>1 DEF BreachesCounted
<1>4. N' + P' <= 1 + X' <=> BreachesCounted'
  <2>1. \A m \in {"dedupTTL", "redis", "crash"} : done'[m] \in Nat
    BY DoneGrows DEF CInv, IInv, Move
  <2> QED BY <1>1, <1>2, <2>1 DEF BreachesCounted
<1>5. ASSUME ~RaisingStep PROVE N' <= N /\ P' + X <= P + X'
  <2>1. N' <= N
    BY <1>5, RowsOfStep, SameCounts DEF CInv, IInv
  <2>2. \A m \in {"dedupTTL", "redis", "crash"} : done[m] \in Nat /\ done'[m] \in Nat
    BY DoneGrows DEF CInv, IInv, Move
  <2>3. P' + done["dedupTTL"] + done["redis"] + done["crash"] <=
        P + done'["dedupTTL"] + done'["redis"] + done'["crash"]
    BY <1>5, CheckerPays DEF CInv, IInv
  <2> HIDE DEF P
  <2> QED BY <1>1, <2>1, <2>2, <2>3
<1>6. ASSUME RaisingStep PROVE N' + P' <= N + P
  <2>1. CASE CreateThresholdAlarm /\ Raise("threshold", None, 4) /\ checker' = "key"
    <3>1. UNCHANGED raced /\ P = 1 /\ P' = 0
      BY <2>1 DEF CreateThresholdAlarm, CheckFrame, Paid
    <3>2. N' <= N + 1
      BY <2>1, <3>1, RaisedCounts DEF CInv, IInv
    <3> QED BY <1>1, <1>2, <3>1, <3>2
  <2>2. ASSUME NEW c \in {"offline", "device", "trap"}, NEW e, Raise(c, e, 1),
               UNCHANGED <<checker, dedup, raced>>
        PROVE  N' + P' <= N + P
    <3>1. N' <= N
      <4>1. N' <= N + (IF c = "threshold" THEN 1 ELSE 0)
        BY <2>2, RaisedCounts DEF CInv, IInv
      <4> QED BY <1>2, <4>1
    <3>2. P' = P
      BY <2>2 DEF Paid
    <3> QED BY <1>1, <1>2, <3>1, <3>2
  <2> QED BY <1>6, <2>1, <2>2
      DEF RaisingStep, CreateOfflineAlarm, RaiseAlarm, Trap, WorkerStepFrame, HandlerFrame, checkVars
<1> QED BY <1>1, <1>2, <1>3, <1>4, <1>5, <1>6 DEF CInv

-----------------------------------------------------------------------------
(* Outages *)

\* The worker turns to creating an outage when it sees none, or when its query fails;
\* everything else it does takes it away from creating one.
LEMMA CreatingStep ==
  ASSUME TypeOK, [Next]_vars, NEW d \in Device, Creating(d)' = 1
  PROVE  \/ Creating(d) = 1
         \/ Uncleared(d) = {}
         \/ Spend("db")
<1>0. worker \in WorkerState
  BY DEF TypeOK
<1>1. worker'.pc = "create" /\ worker'.dev = d
  BY DEF Creating
<1>2. CASE FindOfflineAlarm
  <2>1. worker'.dev = worker.dev
    BY <1>0, <1>2 DEF FindOfflineAlarm, Goto, WorkerState
  <2>2. worker.dev = d
    BY <1>1, <2>1
  <2>3. CASE Uncleared(worker.dev) = {} \/ Spend("db")
    BY <2>2, <2>3
  <2>4. CASE Goto("drop")
    BY <1>0, <1>1, <2>4 DEF Goto, WorkerState
  <2> QED BY <1>2, <2>3, <2>4 DEF FindOfflineAlarm
<1>3. CASE UNCHANGED worker
  BY <1>3 DEF Creating
<1>4. CASE \/ NextDevice \/ Goto("clear") \/ Goto("tellOn") \/ Goto("tellOff") \/ Goto("drop")
           \/ StartPass \/ Crash \/ \E e \in Device : CheckDevice(e)
  <2>1. CASE NextDevice
    <3>1. [worker EXCEPT !.pc = "next", !.dev = None].pc = "next" /\ Resting.pc = "rest"
      BY <1>0 DEF Resting, WorkerState
    <3> QED BY <1>1, <2>1, <3>1 DEF NextDevice
  <2>2. ASSUME NEW pc \in {"clear", "tellOn", "tellOff", "drop"}, Goto(pc)
        PROVE  worker'.pc # "create"
    BY <1>0, <2>2 DEF Goto, WorkerState
  <2>3. CASE StartPass \/ Crash \/ \E e \in Device : CheckDevice(e)
    BY <1>1, <2>3 DEF StartPass, Crash, CheckDevice, Resting
  <2> QED BY <1>1, <1>4, <2>1, <2>2, <2>3
<1> QED BY <1>2, <1>3, <1>4
  DEF Next, WorkerStep, SetDashboardKey, ClearOfflineAlarm, CreateOfflineAlarm, Tell, DropDashboardKey,
      HandlerStep, RaiseAlarm, ClearAlarmOfDevice, AlarmEvent, AlarmEventUnread, HandlerFrame,
      Inform, OnlineKeyExpires, ClearAlarm, BatchClearAlarms, NorthClearAlarms,
      ReadToConfirm, ReadToUnconfirm, OperatorFrame, SetAlarmStatus,
      CheckThreshold, CreateThresholdAlarm, SetDedupKey, DedupKeyExpires, CheckFrame,
      Trap, vars, workerVars

LEMMA OutagesStep ==
  ASSUME CInv, TypeOK', [Next]_vars
  PROVE  OutagesCounted'
<1> SUFFICES ASSUME NEW d \in Device
             PROVE  Cardinality(Uncleared(d) \ raced)' + Creating(d)' <= 1 + done'["db"]
  BY DEF OutagesCounted
<1> DEFINE N == Cardinality(Uncleared(d) \ raced)
           B == done["db"]
<1>1. N \in Nat /\ N' \in Nat
  <2>1. Uncleared(d) \ raced \in SUBSET DOMAIN alarms
        /\ (Uncleared(d) \ raced)' \in SUBSET DOMAIN alarms'
    BY DEF Uncleared, Of
  <2> QED BY <2>1, RowSetsFinite DEF CInv, IInv, TypeOK
<1>2. Creating(d) \in {0, 1} /\ Creating(d)' \in {0, 1}
  BY DEF Creating
<1>3. B \in Nat /\ B' \in Nat /\ B <= B' /\ (Spend("db") => B' = B + 1)
  <2>1. "db" \in Move
    BY DEF Move
  <2> QED BY <2>1, DoneGrows, SpendAdds DEF CInv, IInv
<1>4. N + Creating(d) <= 1 + B
  BY DEF CInv, OutagesCounted
<1>5. CASE RaisingStep
  <2>1. UNCHANGED raced
    BY <1>5, RaisingFrame
  <2>2. CASE Raise("offline", worker.dev, 1) /\ Goto("tellOff") /\ CreateOfflineAlarm
    <3>1. N' <= N + (IF worker.dev = d THEN 1 ELSE 0)
      BY <2>1, <2>2, RaisedCounts DEF CInv, IInv
    <3>2. worker.dev = d => Creating(d) = 1
      BY <2>2 DEF CreateOfflineAlarm, Creating
    <3>3. Creating(d)' = 0
      BY <2>2 DEF Goto, Creating, CInv, IInv, TypeOK, WorkerState
    <3> QED BY <1>1, <1>2, <1>3, <1>4, <3>1, <3>2, <3>3
  <2>3. ASSUME NEW c \in {"device", "threshold", "trap"}, NEW e, NEW t, Raise(c, e, t),
               UNCHANGED worker
        PROVE  N' + Creating(d)' <= 1 + B'
    <3>1. N' <= N + (IF c = "offline" /\ e = d THEN 1 ELSE 0)
      BY <2>1, <2>3, RaisedCounts DEF CInv, IInv
    <3>2. Creating(d)' = Creating(d)
      BY <2>3 DEF Creating
    <3> QED BY <1>1, <1>2, <1>3, <1>4, <3>1, <3>2
  <2> QED BY <1>5, <2>2, <2>3
      DEF RaisingStep, RaiseAlarm, CreateThresholdAlarm, Trap, HandlerFrame, CheckFrame, workerVars
<1>6. CASE RowsSame
  <2>1. N' <= N
    BY <1>6, SameCounts DEF CInv, IInv
  <2>2. Creating(d)' = 1 => Creating(d) = 1 \/ N = 0 \/ Spend("db")
    <3>1. Uncleared(d) = {} => N = 0
      BY FS_EmptySet
    <3>2. Creating(d)' = 1 => Creating(d) = 1 \/ Uncleared(d) = {} \/ Spend("db")
      BY CreatingStep DEF CInv, IInv
    <3> QED BY <3>1, <3>2
  <2>3. CASE Creating(d)' = 0 \/ Creating(d) = 1
    BY <1>1, <1>2, <1>3, <1>4, <2>1, <2>3
  <2>4. CASE Creating(d)' = 1 /\ N = 0
    BY <1>1, <1>3, <2>1, <2>4
  <2>5. CASE Spend("db")
    <3>1. B' = B + 1
      BY <1>3, <2>5
    <3> QED BY <1>1, <1>2, <1>3, <1>4, <2>1, <3>1
  <2> QED BY <1>2, <2>2, <2>3, <2>4, <2>5
<1> QED BY <1>5, <1>6, RowsOfStep DEF CInv

-----------------------------------------------------------------------------
(* Alarms of devices *)

\* A handler turns to raising an alarm when it finds none and is the only one of the
\* device, or when there is another one, or when its lookup fails.
LEMMA RaisingGrows ==
  ASSUME CInv, [Next]_vars, NEW d \in Device
  PROVE  \/ Raising(d)' \subseteq Raising(d)
         \/ \E h \in Handler :
              /\ Raising(d)' \subseteq Raising(d) \cup {h}
              /\ \/ Active(d) = {} /\ Raising(d) = {}
                 \/ Spend("overlap") \/ Spend("db")
<1>0. handler \in [Handler -> [pc : {"idle", "raise", "clear"}, dev : Device \cup {None},
                               id : {0} \cup DOMAIN alarms]]
  BY DEF CInv, IInv, TypeOK
<1>1. \/ UNCHANGED handler
      \/ handler' = [h \in Handler |-> IdleHandler]
      \/ \E h \in Handler : handler' = [handler EXCEPT ![h] = IdleHandler]
      \/ \E h \in Handler, e \in Device : AlarmEvent(h, e) \/ AlarmEventUnread(h, e)
  BY DEF Next, WorkerStep, StartPass, SetDashboardKey, ClearOfflineAlarm, FindOfflineAlarm,
         CreateOfflineAlarm, Tell, DropDashboardKey, CheckDevice, WorkerStepFrame,
         HandlerStep, RaiseAlarm, ClearAlarmOfDevice,
         Inform, OnlineKeyExpires, ClearAlarm, BatchClearAlarms, NorthClearAlarms,
         ReadToConfirm, ReadToUnconfirm, OperatorFrame,
         SetAlarmStatus, CheckThreshold, CreateThresholdAlarm, SetDedupKey, DedupKeyExpires,
         CheckFrame, Trap, Crash, vars
<1>2. CASE \/ UNCHANGED handler
           \/ handler' = [h \in Handler |-> IdleHandler]
           \/ \E h \in Handler : handler' = [handler EXCEPT ![h] = IdleHandler]
  <2>1. \A g \in Handler : handler'[g] \in {handler[g], IdleHandler}
    BY <1>0, <1>2
  <2>2. Raising(d)' \subseteq Raising(d)
    BY <2>1 DEF Raising, IdleHandler
  <2> QED BY <2>2
<1>3. ASSUME NEW h \in Handler, NEW e \in Device, AlarmEvent(h, e) \/ AlarmEventUnread(h, e)
      PROVE  \/ Raising(d)' \subseteq Raising(d)
             \/ /\ Raising(d)' \subseteq Raising(d) \cup {h}
                /\ \/ Active(d) = {} /\ Raising(d) = {}
                   \/ Spend("overlap") \/ Spend("db")
  <2>1. PICK i : handler' = [handler EXCEPT ![h] =
                     [pc |-> IF i = 0 THEN "raise" ELSE "clear", dev |-> e, id |-> i]]
                 /\ (i = 0 => Active(e) = {} \/ Spend("db"))
                 /\ (Busy(e) => Spend("overlap"))
    <3>1. CASE AlarmEventUnread(h, e)
      BY <3>1 DEF AlarmEventUnread
    <3>2. CASE AlarmEvent(h, e)
      <4>1. PICK i \in IF Active(e) = {} THEN {0} ELSE Active(e) :
              handler' = [handler EXCEPT ![h] =
                [pc |-> IF i = 0 THEN "raise" ELSE "clear", dev |-> e, id |-> i]]
        BY <3>2 DEF AlarmEvent
      <4>2. i = 0 => Active(e) = {}
        <5>1. 0 \notin Active(e)
          BY RowTyped DEF Active, Of, CInv, IInv
        <5> QED BY <5>1
      <4>3. Busy(e) => Spend("overlap")
        BY <3>2 DEF AlarmEvent
      <4> QED BY <4>1, <4>2, <4>3
    <3> QED BY <1>3, <3>1, <3>2
  <2>2. \A g \in Handler : handler'[g] =
          IF g = h THEN [pc |-> IF i = 0 THEN "raise" ELSE "clear", dev |-> e, id |-> i]
          ELSE handler[g]
    BY <1>0, <2>1
  <2>3. Raising(d)' \subseteq Raising(d) \cup {h}
    BY <2>2 DEF Raising
  <2>4. h \in Raising(d)' => i = 0 /\ e = d
    BY <2>2 DEF Raising
  <2>5. ~Busy(d) => Raising(d) = {}
    BY DEF Busy, Raising
  <2> QED BY <2>1, <2>3, <2>4, <2>5
<1> QED BY <1>1, <1>2, <1>3

LEMMA ActiveStep ==
  ASSUME CInv, TypeOK', [Next]_vars
  PROVE  ActiveCounted'
<1> SUFFICES ASSUME NEW d \in Device
             PROVE  /\ IsFiniteSet(Raising(d)')
                    /\ Cardinality(Active(d))' + Cardinality(Raising(d))'
                         <= 1 + done'["overlap"] + done'["db"]
  BY DEF ActiveCounted
<1> DEFINE N == Cardinality(Active(d))
           R == Cardinality(Raising(d))
           X == done["overlap"] + done["db"]
<1>1. N \in Nat /\ N' \in Nat
  <2>1. Active(d) \in SUBSET DOMAIN alarms /\ Active(d)' \in SUBSET DOMAIN alarms'
    BY DEF Active, Of
  <2> QED BY <2>1, RowSetsFinite DEF CInv, IInv, TypeOK
<1>2. IsFiniteSet(Raising(d)) /\ R \in Nat
  BY FS_CardinalityType DEF CInv, ActiveCounted
<1>3. PICK h : \/ Raising(d)' \subseteq Raising(d)
               \/ /\ Raising(d)' \subseteq Raising(d) \cup {h}
                  /\ \/ Active(d) = {} /\ Raising(d) = {}
                     \/ Spend("overlap") \/ Spend("db")
  BY RaisingGrows
<1>4. IsFiniteSet(Raising(d)') /\ R' \in Nat /\ R' <= R + 1
      /\ (Raising(d)' \subseteq Raising(d) => R' <= R)
  <2>1. Raising(d)' \subseteq Raising(d) \cup {h}
    BY <1>3
  <2> QED BY <1>2, <2>1, CountOneMore
<1>5. /\ done["overlap"] \in Nat /\ done["db"] \in Nat /\ done'["overlap"] \in Nat /\ done'["db"] \in Nat
      /\ X \in Nat /\ X' \in Nat /\ X <= X'
      /\ Spend("overlap") \/ Spend("db") => X' = X + 1
  <2>1. \A m \in {"overlap", "db"} :
          done[m] \in Nat /\ done'[m] \in Nat /\ done[m] <= done'[m]
    BY DoneGrows DEF CInv, IInv, Move
  <2>2. ASSUME NEW m \in {"overlap", "db"}, Spend(m)
        PROVE  X' = X + 1
    <3>1. \A n \in Move : done'[n] = IF n = m THEN done[n] + 1 ELSE done[n]
      BY <2>2, SpendAdds DEF CInv, IInv, Move
    <3> QED BY <2>1, <3>1 DEF Move
  <2> QED BY <2>1, <2>2
<1>6. N + R <= 1 + X
  BY <1>1, <1>2, <1>5 DEF CInv, ActiveCounted
<1>7. N' + R' <= 1 + X'
  <2>1. CASE RaisingStep
    <3>1. UNCHANGED raced
      BY <2>1, RaisingFrame
    <3>2. ASSUME NEW g \in Handler, RaiseAlarm(g), Raise("device", handler[g].dev, 1)
          PROVE  N' + R' <= 1 + X'
      <4>1. N' <= N + (IF handler[g].dev = d THEN 1 ELSE 0)
        BY <3>1, <3>2, RaisedCounts DEF CInv, IInv
      <4>2. handler[g].pc = "raise" /\ handler' = [handler EXCEPT ![g] = IdleHandler]
        BY <3>2 DEF RaiseAlarm
      <4>3. \A f \in Handler : handler'[f] = IF f = g THEN IdleHandler ELSE handler[f]
        BY <4>2 DEF CInv, IInv, TypeOK
      <4>4. Raising(d)' = Raising(d) \ {g}
        BY <4>3 DEF Raising, IdleHandler
      <4>5. handler[g].dev = d => g \in Raising(d)
        BY <4>2 DEF Raising
      <4>6. R' = IF handler[g].dev = d THEN R - 1 ELSE R
        <5>1. CASE handler[g].dev = d
          BY <1>2, <4>4, <4>5, <5>1, FS_RemoveElement
        <5>2. CASE handler[g].dev # d
          <6>1. g \notin Raising(d)
            BY <5>2 DEF Raising
          <6> QED BY <4>4, <5>2, <6>1
        <5> QED BY <5>1, <5>2
      <4> QED BY <1>1, <1>2, <1>4, <1>5, <1>6, <4>1, <4>6
    <3>3. ASSUME NEW c \in {"offline", "threshold", "trap"}, NEW e, NEW t, Raise(c, e, t),
                 UNCHANGED handler
          PROVE  N' + R' <= 1 + X'
      <4>1. N' <= N + (IF c = "device" /\ e = d THEN 1 ELSE 0)
        BY <3>1, <3>3, RaisedCounts DEF CInv, IInv
      <4>2. Raising(d)' = Raising(d)
        BY <3>3 DEF Raising
      <4> QED BY <1>1, <1>2, <1>4, <1>5, <1>6, <4>1, <4>2
    <3> QED BY <2>1, <3>2, <3>3
        DEF RaisingStep, CreateOfflineAlarm, CreateThresholdAlarm, Trap, WorkerStepFrame, CheckFrame
  <2>2. CASE RowsSame
    <3>1. N' <= N
      BY <2>2, SameCounts DEF CInv, IInv
    <3>2. Active(d) = {} /\ Raising(d) = {} => N = 0 /\ R = 0
      BY FS_EmptySet
    <3>3. CASE Raising(d)' \subseteq Raising(d)
      <4>1. R' <= R
        BY <1>4, <3>3
      <4> QED BY <1>1, <1>2, <1>4, <1>5, <1>6, <3>1, <4>1
    <3>4. CASE Active(d) = {} /\ Raising(d) = {}
      <4>1. N' <= 0 /\ R' <= 1
        BY <1>1, <1>4, <3>1, <3>2, <3>4
      <4> QED BY <1>1, <1>4, <1>5, <4>1
    <3>5. CASE Spend("overlap") \/ Spend("db")
      <4>1. X' = X + 1
        BY <1>5, <3>5
      <4> QED BY <1>1, <1>2, <1>4, <1>5, <1>6, <3>1, <4>1
    <3> QED BY <1>3, <3>3, <3>4, <3>5
  <2> QED BY <2>1, <2>2, RowsOfStep DEF CInv
<1> QED BY <1>1, <1>4, <1>5, <1>7

-----------------------------------------------------------------------------
(* The theorems *)

LEMMA CountedStep == CInv /\ [Next]_vars => CInv'
<1> SUFFICES ASSUME CInv, [Next]_vars PROVE CInv'
  OBVIOUS
<1>1. IInv'
  BY NextInv DEF CInv
<1>2. TypeOK'
  BY <1>1 DEF IInv
<1>3. ReadInHand'
  BY ReadStep DEF CInv
<1> QED BY <1>1, <1>2, <1>3, ActiveStep, OutagesStep, BreachesStep DEF CInv

\* What has been raised and what is about to be is counted by the faults paid for it.
LEMMA CountedInvariance == Spec => []CInv
BY InitCounted, CountedStep, PTL DEF Spec

\* The alarm of a device is active at most once, but for one more per overlapping
\* Inform and per failed lookup: a handler that found none raises one, and no other
\* handler, operator or acknowledgement makes a row active.
THEOREM ActiveOnce == Spec => []OneActiveAlarm
<1>1. CInv => OneActiveAlarm
  <2> SUFFICES ASSUME CInv, NEW d \in Device
               PROVE  Cardinality({i \in DOMAIN alarms : /\ alarms[i].cause = "device"
                                                         /\ alarms[i].dev = d
                                                         /\ alarms[i].type = 1})
                        <= 1 + done["overlap"] + done["db"]
    BY DEF OneActiveAlarm
  <2>1. Active(d) = {i \in DOMAIN alarms : /\ alarms[i].cause = "device"
                                           /\ alarms[i].dev = d
                                           /\ alarms[i].type = 1}
    BY DEF Active, Of
  <2>2. Cardinality(Raising(d)) \in Nat /\ done["overlap"] \in Nat /\ done["db"] \in Nat
    BY FS_CardinalityType DEF CInv, ActiveCounted, IInv, TypeOK, Move
  <2>3. Cardinality(Active(d)) \in Nat
    <3>1. Active(d) \in SUBSET DOMAIN alarms
      BY DEF Active, Of
    <3> QED BY <3>1, RowSetsFinite DEF CInv, IInv, TypeOK
  <2>4. Cardinality(Active(d)) + Cardinality(Raising(d)) <= 1 + done["overlap"] + done["db"]
    BY DEF CInv, ActiveCounted
  <2>5. Cardinality(Active(d)) <= 1 + done["overlap"] + done["db"]
    BY <2>2, <2>3, <2>4
  <2> QED BY <2>1, <2>5
<1> QED BY <1>1, CountedInvariance, PTL

\* The worker has one open outage of a device, but for one more per query that
\* failed: only its own insert adds one, and only behind a look that found none.
THEOREM OutageOnce == Spec => []OneOutage
<1>1. CInv => OneOutage
  <2> SUFFICES ASSUME CInv, NEW d \in Device
               PROVE  Cardinality(Uncleared(d) \ raced) <= 1 + done["db"]
    BY DEF OneOutage
  <2>1. Creating(d) \in {0, 1} /\ done["db"] \in Nat
    BY DEF Creating, CInv, IInv, TypeOK, Move
  <2>2. Cardinality(Uncleared(d) \ raced) \in Nat
    <3>1. Uncleared(d) \ raced \in SUBSET DOMAIN alarms
      BY DEF Uncleared, Of
    <3> QED BY <3>1, RowSetsFinite DEF CInv, IInv, TypeOK
  <2>3. Cardinality(Uncleared(d) \ raced) + Creating(d) <= 1 + done["db"]
    BY DEF CInv, OutagesCounted
  <2> QED BY <2>1, <2>2, <2>3
<1> QED BY <1>1, CountedInvariance, PTL

\* The threshold checker raises one alarm per life of the deduplication key, error of
\* Redis and crash: whatever makes room for the next one is one of these.
THEOREM BreachesPaced == Spec => []ThresholdIsPaced
<1>1. CInv => ThresholdIsPaced
  <2> SUFFICES ASSUME CInv PROVE ThresholdIsPaced
    OBVIOUS
  <2>1. \A m \in {"dedupTTL", "redis", "crash"} : done[m] \in Nat
    BY DEF CInv, IInv, TypeOK, Move
  <2>2. Cardinality(Of("threshold", None)) \in Nat
    <3>1. Of("threshold", None) \in SUBSET DOMAIN alarms
      BY DEF Of
    <3> QED BY <3>1, RowSetsFinite DEF CInv, IInv, TypeOK
  <2> QED BY <2>1, <2>2 DEF CInv, BreachesCounted, ThresholdIsPaced
<1> QED BY <1>1, CountedInvariance, PTL

=============================================================================
