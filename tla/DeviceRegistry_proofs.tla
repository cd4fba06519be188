------------------------ MODULE DeviceRegistry_proofs ------------------------
(***************************************************************************)
(* Theorems about DeviceRegistry for every set of devices, handlers and    *)
(* imports, and for any faults but where a theorem excludes one.           *)
(***************************************************************************)
EXTENDS DeviceRegistry, FiniteSetTheorems, WellFoundedInduction, TLAPS

-----------------------------------------------------------------------------
(* The inductive invariant *)

\* A PUT that claims an initialization writes the mark without a log row.
NoClaim == "claim" \notin Ops

\* A copy of a row that may be saved over it: if it says that the device is
\* initialized, the log row exists, so that the save makes nothing up.
Held(c) ==
  /\ c \in Copy
  /\ c.id \in DOMAIN rows
  /\ NoClaim /\ c.row.init => c.id \in initLog

Holding == {"save", "init", "mark", "push", "unlock"}

TaskInHand ==
  \A t \in Task : /\ task[t].pc \in Holding => Held(task[t].got)
                  /\ task[t].pc \in {"limit", "create"} => task[t].sn \in Sn

EditInHand == edit # None => Held(edit)

ImportInHand ==
  \A m \in Importer, s \in Sn : import[m].seen[s] # None => Held(import[m].seen[s])

\* The invariant, by the variables that a step writes together.
RowsPart ==
  /\ rows \in Seq(Row) /\ Len(rows) <= MaxRow
  /\ initLog \subseteq Id
  /\ NoClaim => InitializedIsLogged

TaskPart   == task \in [Task -> TaskState] /\ TaskInHand
EditPart   == edit \in Copy \cup {None} /\ EditInHand
ImportPart == import \in [Importer -> ImportState] /\ ImportInHand

RestPart ==
  /\ initLock \subseteq Id
  /\ pushed \subseteq Id
  /\ importLock \in BOOLEAN
  /\ faults \in 0..MaxFault

IInv == RowsPart /\ TaskPart /\ EditPart /\ ImportPart /\ RestPart

\* Rows and log rows are never taken away.
Grow == DOMAIN rows \subseteq DOMAIN rows' /\ initLog \subseteq initLog'

-----------------------------------------------------------------------------
(* What is kept, and what is written *)

LEMMA RowFacts ==
  ASSUME RowsPart
  PROVE  /\ DOMAIN rows = 1..Len(rows) /\ Len(rows) \in Nat
         /\ DOMAIN rows \subseteq Id
         /\ \A i \in DOMAIN rows : rows[i] \in Row
BY RegistryAssumption DEF RowsPart, Id

LEMMA CopyHeld ==
  ASSUME RowsPart, NEW i \in DOMAIN rows
  PROVE  Held(CopyOf(i))
BY RowFacts DEF Held, CopyOf, Copy, RowsPart, InitializedIsLogged

LEMMA HeldLater ==
  ASSUME Grow, NEW c, Held(c)
  PROVE  Held(c)'
BY DEF Grow, Held

LEMMA TaskKept ==
  ASSUME TaskPart, Grow, UNCHANGED task
  PROVE  TaskPart'
<1>1. task' \in [Task -> TaskState]
  BY DEF TaskPart
<1>2. ASSUME NEW t \in Task
      PROVE  (/\ task[t].pc \in Holding => Held(task[t].got)
              /\ task[t].pc \in {"limit", "create"} => task[t].sn \in Sn)'
  BY DEF TaskPart, TaskInHand, Grow, Held
<1> QED BY <1>1, <1>2 DEF TaskPart, TaskInHand

LEMMA EditKept ==
  ASSUME EditPart, Grow, UNCHANGED edit
  PROVE  EditPart'
BY DEF EditPart, EditInHand, Grow, Held

LEMMA ImportKept ==
  ASSUME ImportPart, Grow, UNCHANGED import
  PROVE  ImportPart'
<1>1. import' \in [Importer -> ImportState]
  BY DEF ImportPart
<1>2. ASSUME NEW m \in Importer, NEW s \in Sn, import[m].seen[s] # None
      PROVE  Held(import[m].seen[s])'
  <2>1. Held(import[m].seen[s])
    BY <1>2 DEF ImportPart, ImportInHand
  <2> QED BY <2>1 DEF Grow, Held
<1> QED BY <1>1, <1>2 DEF ImportPart, ImportInHand

\* A task goes on with n.
LEMMA TaskSet ==
  ASSUME TaskPart, Grow, NEW t \in Task, NEW n \in TaskState,
         task' = [task EXCEPT ![t] = n],
         n.pc \in Holding =>
           /\ n.got \in Copy /\ n.got.id \in DOMAIN rows'
           /\ NoClaim /\ n.got.row.init => n.got.id \in initLog',
         n.pc \in {"limit", "create"} => n.sn \in Sn
  PROVE  TaskPart'
<1>1. task \in [Task -> TaskState]
  BY DEF TaskPart
<1>2. task' \in [Task -> TaskState]
  BY <1>1
<1>3. \A u \in Task : task'[u] = IF u = t THEN n ELSE task[u]
  BY <1>1
<1>4. ASSUME NEW u \in Task, u # t
      PROVE  (/\ task[u].pc \in Holding => Held(task[u].got)
              /\ task[u].pc \in {"limit", "create"} => task[u].sn \in Sn)'
  <2>1. task'[u] = task[u]
    BY <1>3, <1>4
  <2>2. task[u].pc \in Holding => Held(task[u].got)
    BY DEF TaskPart, TaskInHand
  <2> QED BY <2>1, <2>2 DEF Grow, Held, TaskPart, TaskInHand
<1>5. (/\ task[t].pc \in Holding => Held(task[t].got)
       /\ task[t].pc \in {"limit", "create"} => task[t].sn \in Sn)'
  BY <1>3 DEF Held
<1> QED BY <1>2, <1>4, <1>5 DEF TaskPart, TaskInHand

LEMMA IdleTyped == IdleTask \in TaskState /\ IdleTask.pc = "idle"
BY DEF IdleTask, TaskState

LEMMA TaskEnds ==
  ASSUME TaskPart, Grow, NEW t \in Task, task' = [task EXCEPT ![t] = IdleTask]
  PROVE  TaskPart'
BY IdleTyped, TaskSet DEF Holding

\* A task goes to its next step with what it has in hand.
LEMMA TaskMoves ==
  ASSUME TaskPart, Grow, NEW t \in Task, NEW pc \in {"create", "mark", "push", "unlock"},
         task' = [task EXCEPT ![t].pc = pc],
         pc = "create" => task[t].pc = "limit",
         pc # "create" => task[t].pc \in Holding
  PROVE  TaskPart'
<1> DEFINE n == [task[t] EXCEPT !.pc = pc]
<1>1. task[t] \in TaskState
  BY DEF TaskPart
<1>2. n \in TaskState /\ n.pc = pc /\ n.got = task[t].got /\ n.sn = task[t].sn
  BY <1>1 DEF TaskState
<1>3. task' = [task EXCEPT ![t] = n]
  OBVIOUS
<1>4. pc # "create" => Held(task[t].got)
  BY DEF TaskPart, TaskInHand
<1>5. pc = "create" => task[t].sn \in Sn
  BY DEF TaskPart, TaskInHand
<1>6. pc # "create" => /\ n.got \in Copy /\ n.got.id \in DOMAIN rows'
                       /\ NoClaim /\ n.got.row.init => n.got.id \in initLog'
  BY <1>2, <1>4 DEF Held, Grow
<1> HIDE DEF n
<1> QED BY <1>2, <1>3, <1>5, <1>6, TaskSet DEF Holding

\* Row i is overwritten with r.
LEMMA RowSet ==
  ASSUME RowsPart, NEW i \in DOMAIN rows, NEW r \in Row, rows' = [rows EXCEPT ![i] = r],
         initLog \subseteq initLog', initLog' \subseteq Id, NoClaim /\ r.init => i \in initLog'
  PROVE  RowsPart' /\ Grow
<1>1. DOMAIN rows = 1..Len(rows) /\ Len(rows) \in Nat /\ rows \in Seq(Row)
  BY RowFacts DEF RowsPart
<1>2. rows' \in Seq(Row) /\ Len(rows') = Len(rows) /\ DOMAIN rows' = DOMAIN rows
      /\ \A j \in DOMAIN rows : rows'[j] = IF j = i THEN r ELSE rows[j]
  BY <1>1
<1>3. (NoClaim => InitializedIsLogged)'
  BY <1>2 DEF RowsPart, InitializedIsLogged
<1> QED BY <1>2, <1>3 DEF RowsPart, Grow

LEMMA RowSaved ==
  ASSUME RowsPart, NEW c, Held(c), Save(c), UNCHANGED initLog
  PROVE  RowsPart' /\ Grow
<1>1. c.id \in DOMAIN rows /\ c.row \in Row /\ (NoClaim /\ c.row.init => c.id \in initLog)
  BY DEF Held, Copy
<1>2. rows' = [rows EXCEPT ![c.id] = c.row] /\ initLog \subseteq Id
  BY DEF Save, RowsPart
<1> QED BY <1>1, <1>2, RowSet

LEMMA RowDeleted ==
  ASSUME RowsPart, NEW i \in DOMAIN rows, rows' = [rows EXCEPT ![i].deleted = TRUE],
         UNCHANGED initLog
  PROVE  RowsPart' /\ Grow
<1> DEFINE r == [rows[i] EXCEPT !.deleted = TRUE]
<1>1. rows[i] \in Row
  BY RowFacts
<1>2. r \in Row /\ r.init = rows[i].init /\ rows' = [rows EXCEPT ![i] = r]
  BY <1>1 DEF Row
<1>3. NoClaim /\ rows[i].init => i \in initLog
  BY DEF RowsPart, InitializedIsLogged
<1> HIDE DEF r
<1> QED BY <1>2, <1>3, RowSet DEF RowsPart

LEMMA RowMarked ==
  ASSUME RowsPart, NEW i \in DOMAIN rows, rows' = [rows EXCEPT ![i].init = TRUE],
         initLog' = initLog \cup {i}
  PROVE  RowsPart' /\ Grow
<1> DEFINE r == [rows[i] EXCEPT !.init = TRUE]
<1>1. rows[i] \in Row /\ i \in Id
  BY RowFacts
<1>2. r \in Row /\ rows' = [rows EXCEPT ![i] = r]
  BY <1>1 DEF Row
<1> HIDE DEF r
<1> QED BY <1>1, <1>2, RowSet DEF RowsPart

\* Row r is inserted.
LEMMA RowAppended ==
  ASSUME RowsPart, NEW r \in Row, NoClaim => ~r.init, Len(rows) < MaxRow,
         rows' = Append(rows, r), UNCHANGED initLog
  PROVE  RowsPart' /\ Grow /\ Len(rows) + 1 \in DOMAIN rows'
<1>1. r \in Row /\ (NoClaim => ~r.init)
  OBVIOUS
<1>2. rows \in Seq(Row) /\ Len(rows) < MaxRow /\ rows' = Append(rows, r)
  BY DEF RowsPart
<1>3. rows' \in Seq(Row) /\ Len(rows') = Len(rows) + 1 /\ DOMAIN rows' = 1..(Len(rows) + 1)
      /\ DOMAIN rows = 1..Len(rows) /\ Len(rows) \in Nat
      /\ \A j \in DOMAIN rows' : rows'[j] = IF j \in DOMAIN rows THEN rows[j] ELSE r
  BY <1>1, <1>2
<1>4. (NoClaim => InitializedIsLogged)'
  BY <1>1, <1>3 DEF RowsPart, InitializedIsLogged
<1>5. Len(rows') <= MaxRow
  BY <1>2, <1>3, RegistryAssumption
<1> QED BY <1>3, <1>4, <1>5 DEF RowsPart, Grow

LEMMA RowCreated ==
  ASSUME RowsPart, NEW s \in Sn, Create(s), UNCHANGED initLog
  PROVE  RowsPart' /\ Grow /\ Len(rows) + 1 \in DOMAIN rows'
<1>1. NewRow(s) \in Row /\ ~NewRow(s).init
  BY DEF NewRow, Row
<1> QED BY <1>1, RowAppended DEF Create

LEMMA RowsKept ==
  ASSUME RowsPart, UNCHANGED <<rows, initLog>>
  PROVE  RowsPart' /\ Grow
BY DEF RowsPart, Grow, InitializedIsLogged

LEMMA FaultTyped ==
  ASSUME RestPart, NEW f, Fault(f)
  PROVE  faults' \in 0..MaxFault
BY RegistryAssumption DEF Fault, RestPart

LEMMA IdleImportTyped == IdleImport \in ImportState /\ \A s \in Sn : IdleImport.seen[s] = None
<1>1. <<>> \in [{} -> {"add", "modify", "delete"}] /\ {} \in SUBSET Sn
  OBVIOUS
<1>2. <<>> \in UNION {[S -> {"add", "modify", "delete"}] : S \in SUBSET Sn}
  BY <1>1
<1>3. [s \in Sn |-> None] \in [Sn -> Copy \cup {None}]
  OBVIOUS
<1> QED BY <1>2, <1>3 DEF IdleImport, ImportState

-----------------------------------------------------------------------------
(* Each step preserves it: Informs *)

LEMMA InitInv == Init => IInv
<1> SUFFICES ASSUME Init PROVE IInv
  OBVIOUS
<1>1. RowsPart
  BY RegistryAssumption DEF Init, RowsPart, InitializedIsLogged
<1>2. TaskPart
  BY IdleTyped DEF Init, TaskPart, TaskInHand, Holding
<1>3. EditPart
  BY DEF Init, EditPart, EditInHand
<1>4. ImportPart
  <2>1. \A m \in Importer : import[m] = IdleImport
    BY DEF Init
  <2>2. import \in [Importer -> ImportState]
    BY IdleImportTyped DEF Init
  <2> QED BY <2>1, <2>2, IdleImportTyped DEF ImportPart, ImportInHand
<1>5. importLock \in BOOLEAN
  BY Zenon DEF Init
<1>6. RestPart
  BY <1>5, RegistryAssumption DEF Init, RestPart
<1> QED BY <1>1, <1>2, <1>3, <1>4, <1>6 DEF IInv

\* A set of naturals has a least element.
LEMMA LeastExists ==
  ASSUME NEW S \in SUBSET Nat, S # {}
  PROVE  \E i \in S : \A j \in S : i <= j
<1> DEFINE R == {p \in Nat \X Nat : p[1] < p[2]}
<1>1. IsWellFoundedOn(R, Nat)
  BY NatLessThanWellFounded DEF OpToRel
<1>2. PICK i \in S : \A j \in S : <<j, i>> \notin R
  <2> HIDE DEF R
  <2> QED BY <1>1, WFMin
<1>3. \A j \in S : ~(j < i)
  BY <1>2
<1> QED BY <1>3

LEMMA GreatestExists ==
  ASSUME NEW n \in Nat, NEW S \in SUBSET (1..n), S # {}
  PROVE  \E i \in S : \A j \in S : j <= i
<1> DEFINE T == {n - i : i \in S}
<1>1. T \in SUBSET Nat /\ T # {}
  <2>1. \A i \in S : n - i \in Nat
    OBVIOUS
  <2>2. PICK i \in S : TRUE
    OBVIOUS
  <2>3. n - i \in T
    OBVIOUS
  <2> QED BY <2>1, <2>3
<1>2. PICK k \in T : \A l \in T : k <= l
  <2> HIDE DEF T
  <2> QED BY <1>1, LeastExists
<1>3. PICK i \in S : k = n - i
  OBVIOUS
<1>4. \A j \in S : n - i <= n - j
  BY <1>2, <1>3
<1> QED BY <1>4

\* The row that an Inform finds, and the one that an import keeps, exist.
LEMMA LiveRows ==
  ASSUME RowsPart, NEW s \in Sn, LiveOf(s) # {}
  PROVE  First(s) \in DOMAIN rows /\ Last(s) \in DOMAIN rows
<1>1. LiveOf(s) \subseteq 1..Len(rows) /\ Len(rows) \in Nat /\ LiveOf(s) \subseteq DOMAIN rows
  BY RowFacts DEF LiveOf, Live
<1>2. \E i \in LiveOf(s) : \A j \in LiveOf(s) : i <= j
  BY <1>1, LeastExists
<1>3. \E i \in LiveOf(s) : \A j \in LiveOf(s) : j <= i
  BY <1>1, GreatestExists
<1>4. First(s) \in LiveOf(s)
  BY <1>2 DEF First
<1>5. Last(s) \in LiveOf(s)
  BY <1>3 DEF Last
<1> QED BY <1>1, <1>4, <1>5

LEMMA InformInv ==
  ASSUME IInv, NEW t \in Task, NEW s \in Sn, Inform(t, s)
  PROVE  IInv'
<1>1. UNCHANGED <<rows, initLock, initLog, pushed, edit, import, importLock>>
  BY DEF Inform, initVars, importVars
<1>2. RowsPart' /\ Grow
  BY <1>1, RowsKept DEF IInv
<1>3. EditPart' /\ ImportPart'
  BY <1>1, <1>2, EditKept, ImportKept DEF IInv
<1>4. faults' \in 0..MaxFault
  BY FaultTyped DEF Inform, IInv, RestPart
<1>5. RestPart'
  BY <1>1, <1>4 DEF IInv, RestPart
<1>6. TaskPart'
  <2>1. CASE task' = [task EXCEPT ![t] = [pc |-> "limit", sn |-> s, got |-> None]]
    <3> DEFINE n == [pc |-> "limit", sn |-> s, got |-> None]
    <3>1. n \in TaskState /\ n.pc = "limit" /\ n.sn = s
      BY DEF TaskState
    <3> HIDE DEF n
    <3> QED BY <1>2, <2>1, <3>1, TaskSet DEF IInv, Holding, n
  <2>2. CASE LiveOf(s) # {}
             /\ task' = [task EXCEPT ![t] = [pc |-> "save", sn |-> s, got |-> CopyOf(First(s))]]
    <3> DEFINE n == [pc |-> "save", sn |-> s, got |-> CopyOf(First(s))]
    <3>1. Held(CopyOf(First(s)))
      BY <2>2, LiveRows, CopyHeld DEF IInv
    <3>2. n \in TaskState /\ n.pc = "save" /\ n.sn = s /\ n.got = CopyOf(First(s))
      BY <3>1 DEF TaskState, Held
    <3>3. /\ n.got \in Copy /\ n.got.id \in DOMAIN rows'
          /\ NoClaim /\ n.got.row.init => n.got.id \in initLog'
      BY <1>1, <3>1, <3>2 DEF Held
    <3>4. task' = [task EXCEPT ![t] = n]
      BY <2>2
    <3> HIDE DEF n
    <3> QED BY <1>2, <3>2, <3>3, <3>4, TaskSet DEF IInv
  <2> QED BY <2>1, <2>2 DEF Inform
<1> QED BY <1>2, <1>3, <1>5, <1>6 DEF IInv

\* The end of an Inform: with a row that may be saved, or none.
LEMMA InformEnds ==
  ASSUME TaskPart, Grow, NEW t \in Task, NEW c, c \in Copy, c.id \in DOMAIN rows',
         NoClaim /\ c.row.init => c.id \in initLog', EndInform(t, c)
  PROVE  TaskPart'
<1>1. CASE c.row.init
  BY <1>1, TaskEnds DEF EndInform
<1>2. CASE ~c.row.init
  <2> DEFINE n == [pc |-> "init", sn |-> None, got |-> c]
  <2>1. n \in TaskState /\ n.pc = "init" /\ n.got = c
    BY DEF TaskState
  <2>2. task' = [task EXCEPT ![t] = n]
    BY <1>2 DEF EndInform
  <2> HIDE DEF n
  <2> QED BY <2>1, <2>2, TaskSet
<1> QED BY <1>1, <1>2

\* The steps of a handler: saving, counting, creating, and the initialization.
LEMMA StepInv ==
  ASSUME IInv, NEW t \in Task, Step(t)
  PROVE  IInv'
<1>1. RowsPart' /\ Grow /\ TaskPart'
  <2>1. CASE SaveDevice(t)
    <3>1. Held(task[t].got) /\ EndInform(t, task[t].got) /\ UNCHANGED initLog
      BY <2>1 DEF SaveDevice, IInv, TaskPart, TaskInHand, Holding, initVars
    <3>2. RowsPart' /\ Grow
      BY <2>1, <3>1, RowSaved, RowsKept DEF SaveDevice, IInv
    <3>3. /\ task[t].got \in Copy /\ task[t].got.id \in DOMAIN rows'
          /\ NoClaim /\ task[t].got.row.init => task[t].got.id \in initLog'
      BY <3>1, <3>2 DEF Held, Grow
    <3> QED BY <3>1, <3>2, <3>3, InformEnds DEF IInv
  <2>2. CASE CheckDeviceLimit(t)
    <3>1. RowsPart' /\ Grow
      BY <2>2, RowsKept DEF CheckDeviceLimit, initVars, IInv
    <3> QED BY <2>2, <3>1, TaskEnds, TaskMoves DEF CheckDeviceLimit, IInv
  <2>3. CASE CreateDevice(t)
    <3>1. UNCHANGED initLog /\ task[t].sn \in Sn
      BY <2>3 DEF CreateDevice, initVars, IInv, TaskPart, TaskInHand
    <3>2. CASE /\ Create(task[t].sn)
               /\ EndInform(t, [id |-> Len(rows) + 1, row |-> NewRow(task[t].sn)])
      <4> DEFINE c == [id |-> Len(rows) + 1, row |-> NewRow(task[t].sn)]
      <4>1. RowsPart' /\ Grow /\ Len(rows) + 1 \in DOMAIN rows'
        BY <3>1, <3>2, RowCreated DEF IInv
      <4>2. DOMAIN rows' \subseteq Id
        BY <4>1, RegistryAssumption DEF RowsPart, Id
      <4>3. c \in Copy /\ ~c.row.init /\ c.id = Len(rows) + 1
        BY <3>1, <4>1, <4>2 DEF Copy, NewRow, Row
      <4>4. EndInform(t, c)
        BY <3>2
      <4> HIDE DEF c
      <4> QED BY <4>1, <4>3, <4>4, InformEnds DEF IInv
    <3>3. CASE UNCHANGED rows /\ task' = [task EXCEPT ![t] = IdleTask]
      BY <3>1, <3>3, RowsKept, TaskEnds DEF IInv
    <3> QED BY <2>3, <3>2, <3>3 DEF CreateDevice
  <2>4. CASE LockInit(t)
    <3>1. RowsPart' /\ Grow
      BY <2>4, RowsKept DEF LockInit, IInv
    <3> QED BY <2>4, <3>1, TaskEnds, TaskMoves DEF LockInit, IInv, Holding
  <2>5. CASE MarkInitialized(t)
    <3>1. task[t].pc = "mark" /\ Held(task[t].got)
      BY <2>5 DEF MarkInitialized, IInv, TaskPart, TaskInHand, Holding
    <3>2. task[t].got.id \in DOMAIN rows
      BY <3>1 DEF Held
    <3>3. RowsPart' /\ Grow
      BY <2>5, <3>2, RowMarked, RowsKept DEF MarkInitialized, IInv
    <3> QED BY <2>5, <3>1, <3>3, TaskMoves DEF MarkInitialized, IInv, Holding
  <2>6. CASE PushInit(t)
    <3>1. RowsPart' /\ Grow
      BY <2>6, RowsKept DEF PushInit, IInv
    <3> QED BY <2>6, <3>1, TaskMoves DEF PushInit, IInv, Holding
  <2>7. CASE UnlockInit(t)
    <3>1. RowsPart' /\ Grow
      BY <2>7, RowsKept DEF UnlockInit, IInv
    <3> QED BY <2>7, <3>1, TaskEnds DEF UnlockInit, IInv
  <2> QED BY <2>1, <2>2, <2>3, <2>4, <2>5, <2>6, <2>7 DEF Step
<1>2. UNCHANGED <<edit, import, importLock>>
  BY DEF Step, SaveDevice, CheckDeviceLimit, CreateDevice, LockInit, MarkInitialized,
         PushInit, UnlockInit, importVars
<1>3. EditPart' /\ ImportPart'
  BY <1>1, <1>2, EditKept, ImportKept DEF IInv
<1>4. faults' \in 0..MaxFault
  <2>1. UNCHANGED faults \/ Fault("db") \/ Fault("push")
    BY DEF Step, SaveDevice, CheckDeviceLimit, CreateDevice, LockInit, MarkInitialized,
           PushInit, UnlockInit
  <2> QED BY <2>1, FaultTyped DEF IInv, RestPart
<1>5. initLock' \subseteq Id /\ pushed' \subseteq Id
  <2>1. task[t].pc \in Holding => task[t].got.id \in Id
    BY DEF IInv, TaskPart, TaskInHand, Held, Copy
  <2> QED BY <2>1 DEF Step, SaveDevice, CheckDeviceLimit, CreateDevice, LockInit,
             MarkInitialized, PushInit, UnlockInit, initVars, IInv, RestPart, Holding
<1> QED BY <1>1, <1>2, <1>3, <1>4, <1>5 DEF IInv, RestPart

-----------------------------------------------------------------------------
(* Locks, operators, imports and crashes *)

LEMMA LockInv ==
  ASSUME IInv, \/ \E i \in Id : OrphanLockExpires(i) \/ HeldLockExpires(i)
               \/ ImportLockExpires
  PROVE  IInv'
<1>1. UNCHANGED <<rows, initLog, task, edit, import, pushed>>
  BY DEF OrphanLockExpires, HeldLockExpires, ImportLockExpires, initVars, importVars
<1>2. RowsPart' /\ TaskPart' /\ EditPart' /\ ImportPart'
  BY <1>1, RowsKept, TaskKept, EditKept, ImportKept DEF IInv
<1>3. faults' \in 0..MaxFault
  <2>1. UNCHANGED faults \/ Fault("lockTTL") \/ Fault("importTTL")
    BY DEF OrphanLockExpires, HeldLockExpires, ImportLockExpires
  <2> QED BY <2>1, FaultTyped DEF IInv, RestPart
<1>4. initLock' \subseteq Id
  BY DEF OrphanLockExpires, HeldLockExpires, ImportLockExpires, initVars, IInv, RestPart
<1>5. importLock' = importLock \/ importLock' = FALSE
  BY Zenon DEF OrphanLockExpires, HeldLockExpires, ImportLockExpires, importVars
<1>6. importLock' \in BOOLEAN
  BY <1>5, Zenon DEF IInv, RestPart
<1> QED BY <1>1, <1>2, <1>3, <1>4, <1>6 DEF IInv, RestPart

LEMMA OperatorInv ==
  ASSUME IInv, \/ \E s \in Sn : OperatorCreate(s)
               \/ \E i \in Id : OperatorRead(i) \/ OperatorDelete(i)
               \/ OperatorSave
               \/ \E i \in Id, body \in Row : OperatorPut(i, body)
  PROVE  IInv'
<1>1. UNCHANGED <<task, initLock, initLog, pushed, import, importLock, faults>>
  BY DEF OperatorCreate, OperatorRead, OperatorDelete, OperatorSave, OperatorPut,
         initVars, importVars
<1>2. RowsPart' /\ Grow
  <2>1. CASE \E s \in Sn : OperatorCreate(s)
    BY <1>1, <2>1, RowCreated DEF OperatorCreate, IInv
  <2>2. CASE UNCHANGED rows
    BY <1>1, <2>2, RowsKept DEF IInv
  <2>3. CASE \E i \in Id : OperatorDelete(i)
    <3>1. PICK i \in Live : rows' = [rows EXCEPT ![i].deleted = TRUE]
      BY <2>3 DEF OperatorDelete
    <3>2. i \in DOMAIN rows
      BY DEF Live
    <3> QED BY <1>1, <3>1, <3>2, RowDeleted DEF IInv
  <2>4. CASE OperatorSave /\ Save(edit)
    <3>1. Held(edit)
      BY <2>4 DEF OperatorSave, IInv, EditPart, EditInHand
    <3> QED BY <1>1, <2>4, <3>1, RowSaved DEF IInv
  <2>5. CASE \E i \in Id, body \in Row : OperatorPut(i, body)
    <3>1. PICK i \in Id, body \in Row : OperatorPut(i, body)
      BY <2>5
    <3>2. (NoClaim => ~body.init) /\ initLog' = initLog /\ RowsPart
      BY <1>1, <3>1 DEF OperatorPut, NoClaim, IInv
    <3>3. CASE i \in DOMAIN rows /\ rows' = [rows EXCEPT ![i] = body]
      BY <3>2, <3>3, RowSet DEF RowsPart
    <3>4. CASE i = Len(rows) + 1 /\ i <= MaxRow /\ rows' = Append(rows, body)
      <4>1. Len(rows) < MaxRow
        BY <3>2, <3>4, RegistryAssumption DEF RowsPart
      <4> QED BY <3>2, <3>4, <4>1, RowAppended
    <3> QED BY <3>1, <3>3, <3>4 DEF OperatorPut
  <2> QED BY <2>1, <2>2, <2>3, <2>4, <2>5 DEF OperatorRead, OperatorSave
<1>3. TaskPart' /\ ImportPart'
  BY <1>1, <1>2, TaskKept, ImportKept DEF IInv
<1>4. EditPart'
  <2>1. CASE UNCHANGED edit
    BY <1>2, <2>1, EditKept DEF IInv
  <2>2. CASE edit' = None
    BY <2>2 DEF EditPart, EditInHand
  <2>3. CASE \E i \in Id : OperatorRead(i)
    <3>1. PICK i \in Live : edit' = CopyOf(i) /\ UNCHANGED rows
      BY <2>3 DEF OperatorRead
    <3>2. Held(CopyOf(i))
      BY <3>1, CopyHeld DEF Live, IInv
    <3> QED BY <1>1, <3>1, <3>2 DEF EditPart, EditInHand, Held
  <2> QED BY <2>1, <2>2, <2>3 DEF OperatorCreate, OperatorDelete, OperatorSave, OperatorPut
<1>5. RestPart'
  BY <1>1 DEF IInv, RestPart
<1> QED BY <1>2, <1>3, <1>4, <1>5 DEF IInv

\* An import goes on with n.
LEMMA ImportSet ==
  ASSUME ImportPart, Grow, NEW m \in Importer, NEW n \in ImportState,
         import' = [import EXCEPT ![m] = n],
         \A s \in Sn : n.seen[s] # None =>
           /\ n.seen[s].id \in DOMAIN rows' /\ n.seen[s] \in Copy
           /\ NoClaim /\ n.seen[s].row.init => n.seen[s].id \in initLog'
  PROVE  ImportPart'
<1>1. import' \in [Importer -> ImportState]
  BY DEF ImportPart
<1>2. \A k \in Importer : import'[k] = IF k = m THEN n ELSE import[k]
  BY DEF ImportPart
<1>3. ASSUME NEW k \in Importer, NEW s \in Sn
      PROVE  (import[k].seen[s] # None => Held(import[k].seen[s]))'
  <2>1. CASE k = m
    BY <1>2, <2>1 DEF Held
  <2>2. CASE k # m
    <3>1. import'[k] = import[k] /\ (import[k].seen[s] # None => Held(import[k].seen[s]))
      BY <1>2, <2>2 DEF ImportPart, ImportInHand
    <3> QED BY <3>1 DEF Held, Grow
  <2> QED BY <2>1, <2>2
<1> QED BY <1>1, <1>3 DEF ImportPart, ImportInHand

\* An import goes on and has what it had read.
LEMMA ImportMoves ==
  ASSUME ImportPart, Grow, NEW m \in Importer, NEW n \in ImportState,
         import' = [import EXCEPT ![m] = n], n.seen = import[m].seen
  PROVE  ImportPart'
<1>1. \A s \in Sn : n.seen[s] # None => Held(n.seen[s])
  BY DEF ImportPart, ImportInHand
<1> QED BY <1>1, ImportSet DEF Held, Grow

LEMMA ImportInv ==
  ASSUME IInv, NEW m \in Importer, ImportStep(m)
  PROVE  IInv'
<1>1. UNCHANGED <<task, initLock, initLog, pushed, edit>>
  BY DEF ImportStep, ImportLock, ImportRead, ImportEnd, ImportRow, initVars
<1>2. import[m] \in ImportState /\ import \in [Importer -> ImportState]
  BY DEF IInv, ImportPart
<1>3. RowsPart' /\ Grow
  <2>1. CASE UNCHANGED rows
    BY <1>1, <2>1, RowsKept DEF IInv
  <2>2. CASE \E s \in Sn : ImportRow(m, s) /\ ~UNCHANGED rows
    <3>1. PICK s \in Sn : ImportRow(m, s) /\ ~UNCHANGED rows
      BY <2>2
    <3> DEFINE c == import[m].seen[s]
    <3>2. c # None => Held(c)
      BY DEF IInv, ImportPart, ImportInHand
    <3>3. \/ Create(s)
          \/ c # None /\ Save(c)
          \/ c # None /\ rows' = [rows EXCEPT ![c.id].deleted = TRUE]
      BY <3>1 DEF ImportRow
    <3>4. c # None => c.id \in DOMAIN rows
      BY <3>2 DEF Held
    <3> HIDE DEF c
    <3> QED BY <1>1, <3>2, <3>3, <3>4, RowCreated, RowSaved, RowDeleted DEF IInv
  <2> QED BY <2>1, <2>2 DEF ImportStep, ImportLock, ImportRead, ImportEnd
<1>4. ImportPart'
  <2>1. CASE ImportLock(m)
    <3>1. PICK S \in SUBSET Sn : \E todo \in [S -> {"add", "modify", "delete"}] :
            import' = [import EXCEPT ![m].pc = "read", ![m].todo = todo]
      BY <2>1 DEF ImportLock
    <3>2. PICK todo \in [S -> {"add", "modify", "delete"}] :
            import' = [import EXCEPT ![m].pc = "read", ![m].todo = todo]
      BY <3>1
    <3> DEFINE n == [import[m] EXCEPT !.pc = "read", !.todo = todo]
    <3>3. todo \in UNION {[T -> {"add", "modify", "delete"}] : T \in SUBSET Sn}
      OBVIOUS
    <3>4. n \in ImportState /\ n.seen = import[m].seen /\ import' = [import EXCEPT ![m] = n]
      BY <1>2, <3>2, <3>3 DEF ImportState
    <3> HIDE DEF n
    <3> QED BY <1>3, <3>4, ImportMoves DEF IInv
  <2>2. CASE ImportRead(m)
    <3> DEFINE f == [s \in Sn |-> IF s \in DOMAIN import[m].todo /\ LiveOf(s) # {}
                                  THEN CopyOf(Last(s)) ELSE None]
               n == [import[m] EXCEPT !.pc = "rows", !.seen = f]
    <3>1. CASE import' = [import EXCEPT ![m].pc = "rows", ![m].seen = f]
      <4>1. \A s \in Sn : f[s] = None \/ Held(f[s])
        BY LiveRows, CopyHeld DEF IInv
      <4>2. f \in [Sn -> Copy \cup {None}]
        BY <4>1 DEF Held
      <4> HIDE DEF f
      <4>3. n \in ImportState /\ n.seen = f /\ import' = [import EXCEPT ![m] = n]
        BY <1>2, <3>1, <4>2 DEF ImportState
      <4>4. \A s \in Sn : n.seen[s] # None =>
              /\ n.seen[s].id \in DOMAIN rows' /\ n.seen[s] \in Copy
              /\ NoClaim /\ n.seen[s].row.init => n.seen[s].id \in initLog'
        BY <1>1, <1>3, <4>1, <4>3 DEF Held, Grow
      <4> HIDE DEF n
      <4> QED BY <1>3, <4>3, <4>4, ImportSet DEF IInv
    <3>2. CASE import' = [import EXCEPT ![m].pc = "rows"]
      <4> DEFINE k == [import[m] EXCEPT !.pc = "rows"]
      <4>1. k \in ImportState /\ k.seen = import[m].seen /\ import' = [import EXCEPT ![m] = k]
        BY <1>2, <3>2 DEF ImportState
      <4> HIDE DEF k
      <4> QED BY <1>3, <4>1, ImportMoves DEF IInv
    <3> QED BY <2>2, <3>1, <3>2 DEF ImportRead
  <2>3. CASE ImportEnd(m)
    BY <1>3, <2>3, IdleImportTyped, ImportSet DEF ImportEnd, IInv
  <2>4. CASE \E s \in Sn : ImportRow(m, s)
    <3>1. PICK s \in Sn : import' = [import EXCEPT ![m].todo = Remaining(import[m].todo, s)]
      BY <2>4 DEF ImportRow
    <3> DEFINE r == Remaining(import[m].todo, s)
               n == [import[m] EXCEPT !.todo = r]
    <3>2. PICK S \in SUBSET Sn : import[m].todo \in [S -> {"add", "modify", "delete"}]
      BY <1>2 DEF ImportState
    <3>3. r \in [S \ {s} -> {"add", "modify", "delete"}] /\ S \ {s} \in SUBSET Sn
      BY <3>2 DEF Remaining
    <3>4. r \in UNION {[T -> {"add", "modify", "delete"}] : T \in SUBSET Sn}
      BY <3>3
    <3> HIDE DEF r
    <3>5. import' = [import EXCEPT ![m].todo = r]
      BY <3>1 DEF r
    <3>6. n \in ImportState /\ n.seen = import[m].seen /\ import' = [import EXCEPT ![m] = n]
      BY <1>2, <3>4, <3>5 DEF ImportState
    <3> HIDE DEF n
    <3> QED BY <1>3, <3>6, ImportMoves DEF IInv
  <2> QED BY <2>1, <2>2, <2>3, <2>4 DEF ImportStep
<1>5. TaskPart' /\ EditPart'
  BY <1>1, <1>3, TaskKept, EditKept DEF IInv
<1>6. faults' \in 0..MaxFault
  <2>1. UNCHANGED faults \/ Fault("db")
    BY DEF ImportStep, ImportLock, ImportRead, ImportEnd, ImportRow
  <2> QED BY <2>1, FaultTyped DEF IInv, RestPart
<1>7. importLock' = importLock \/ importLock' = FALSE \/ importLock' = TRUE
  BY Zenon DEF ImportStep, ImportLock, ImportRead, ImportEnd, ImportRow
<1>8. importLock' \in BOOLEAN
  BY <1>7, Zenon DEF IInv, RestPart
<1> QED BY <1>1, <1>3, <1>4, <1>5, <1>6, <1>8 DEF IInv, RestPart

LEMMA CrashInv ==
  ASSUME IInv, Crash
  PROVE  IInv'
<1>1. UNCHANGED <<rows, initLock, initLog, pushed, edit, importLock>>
  BY DEF Crash, initVars
<1>2. RowsPart' /\ Grow /\ EditPart'
  BY <1>1, RowsKept, EditKept DEF IInv
<1>3. TaskPart'
  BY IdleTyped DEF Crash, TaskPart, TaskInHand, Holding
<1>4. ImportPart'
  <2>1. \A m \in Importer : import'[m] = IdleImport
    BY DEF Crash
  <2>2. import' \in [Importer -> ImportState]
    BY IdleImportTyped DEF Crash
  <2> QED BY <2>1, <2>2, IdleImportTyped DEF ImportPart, ImportInHand
<1>5. faults' \in 0..MaxFault
  BY FaultTyped DEF Crash, IInv
<1> QED BY <1>1, <1>2, <1>3, <1>4, <1>5 DEF IInv, RestPart

LEMMA NextInv == IInv /\ [Next]_vars => IInv'
<1> SUFFICES ASSUME IInv, [Next]_vars PROVE IInv'
  OBVIOUS
<1>1. CASE UNCHANGED vars
  <2>1. RowsPart' /\ Grow
    BY <1>1, RowsKept DEF vars, IInv
  <2>2. TaskPart' /\ EditPart' /\ ImportPart'
    BY <1>1, <2>1, TaskKept, EditKept, ImportKept DEF vars, IInv
  <2>3. RestPart'
    BY <1>1 DEF vars, IInv, RestPart
  <2> QED BY <2>1, <2>2, <2>3 DEF IInv
<1> QED BY <1>1, StepInv, InformInv, LockInv, OperatorInv, ImportInv, CrashInv DEF Next, DeviceNext

-----------------------------------------------------------------------------
(* One goroutine initializes a device *)

\* A goroutine in its initialization has the lock of the device, to itself.
LockHeld == \A t \in Task : InInit(t) => task[t].got.id \in initLock

SafeInit == LockHeld /\ InitIsExclusive

\* Task t goes elsewhere, and the locks of the others stay.
LEMMA OtherInits ==
  ASSUME TaskPart, SafeInit, NEW t \in Task, NEW n, task' = [task EXCEPT ![t] = n],
         n.pc \notin {"mark", "push", "unlock"},
         \A u \in Task : u # t /\ InInit(u) => task[u].got.id \in initLock'
  PROVE  SafeInit'
<1>1. \A u \in Task : task'[u] = IF u = t THEN n ELSE task[u]
  BY DEF TaskPart
<1> QED BY <1>1 DEF SafeInit, LockHeld, InitIsExclusive, InInit

\* Task t goes on within its initialization.
LEMMA SameInits ==
  ASSUME TaskPart, SafeInit, NEW t \in Task, InInit(t), UNCHANGED initLock,
         NEW pc, task' = [task EXCEPT ![t].pc = pc]
  PROVE  SafeInit'
<1>1. task[t] \in TaskState
  BY DEF TaskPart
<1>2. \A u \in Task : task'[u].got = task[u].got /\ (u # t => task'[u] = task[u])
  BY <1>1 DEF TaskPart, TaskState
<1> QED BY <1>2 DEF SafeInit, LockHeld, InitIsExclusive, InInit

LEMMA InitSteps ==
  ASSUME TaskPart, SafeInit, NEW t \in Task,
         LockInit(t) \/ MarkInitialized(t) \/ PushInit(t) \/ UnlockInit(t)
  PROVE  SafeInit'
<1>1. task[t] \in TaskState /\ IdleTask.pc = "idle"
  BY DEF TaskPart, IdleTask
<1>2. CASE MarkInitialized(t) \/ PushInit(t)
  BY <1>2, SameInits DEF MarkInitialized, PushInit, InInit
<1>3. CASE UnlockInit(t)
  <2>1. InInit(t) /\ initLock' = initLock \ {task[t].got.id}
        /\ task' = [task EXCEPT ![t] = IdleTask]
    BY <1>3 DEF UnlockInit, InInit
  <2>2. \A u \in Task : u # t /\ InInit(u) => task[u].got.id \in initLock'
    BY <2>1 DEF SafeInit, LockHeld, InitIsExclusive
  <2> QED BY <1>1, <2>1, <2>2, OtherInits
<1>4. CASE LockInit(t)
  <2>1. CASE task' = [task EXCEPT ![t] = IdleTask] /\ UNCHANGED initLock
    BY <1>1, <2>1, OtherInits DEF SafeInit, LockHeld
  <2>2. CASE /\ task[t].got.id \notin initLock
             /\ initLock' = initLock \cup {task[t].got.id}
             /\ task' = [task EXCEPT ![t].pc = "mark"]
    <3>1. \A u \in Task : task'[u].got = task[u].got /\ (u # t => task'[u] = task[u])
      BY <1>1, <2>2 DEF TaskPart, TaskState
    <3>2. LockHeld'
      BY <2>2, <3>1 DEF SafeInit, LockHeld, InInit
    <3>3. \A u \in Task : u # t /\ InInit(u) => task[u].got.id # task[t].got.id
      BY <2>2 DEF SafeInit, LockHeld
    <3>4. InitIsExclusive'
      BY <3>1, <3>3 DEF SafeInit, InitIsExclusive, InInit
    <3> QED BY <3>2, <3>4 DEF SafeInit
  <2> QED BY <1>4, <2>1, <2>2 DEF LockInit
<1> QED BY <1>2, <1>3, <1>4

LEMMA HandlerInits ==
  ASSUME TaskPart, SafeInit, NEW t \in Task,
         SaveDevice(t) \/ CheckDeviceLimit(t) \/ CreateDevice(t) \/ \E s \in Sn : Inform(t, s)
  PROVE  SafeInit'
<1>1. task[t] \in TaskState /\ IdleTask.pc = "idle" /\ UNCHANGED initLock
  BY DEF TaskPart, IdleTask, SaveDevice, CheckDeviceLimit, CreateDevice, Inform, initVars
<1>2. PICK n : task' = [task EXCEPT ![t] = n] /\ n.pc \notin {"mark", "push", "unlock"}
  <2>1. ASSUME NEW c, EndInform(t, c)
        PROVE  \E n : task' = [task EXCEPT ![t] = n] /\ n.pc \notin {"mark", "push", "unlock"}
    <3>1. CASE c.row.init
      BY <1>1, <2>1, <3>1 DEF EndInform
    <3>2. CASE ~c.row.init
      <4> DEFINE k == [pc |-> "init", sn |-> None, got |-> c]
      <4>1. task' = [task EXCEPT ![t] = k]
        BY <2>1, <3>2 DEF EndInform
      <4>2. k.pc \notin {"mark", "push", "unlock"}
        OBVIOUS
      <4> HIDE DEF k
      <4> QED BY <4>1, <4>2
    <3> QED BY <3>1, <3>2
  <2>2. CASE SaveDevice(t) \/ CreateDevice(t)
    BY <1>1, <2>1, <2>2 DEF SaveDevice, CreateDevice
  <2>3. CASE CheckDeviceLimit(t)
    <3>1. [task[t] EXCEPT !.pc = "create"].pc = "create"
      BY <1>1 DEF TaskState
    <3>2. CASE task' = [task EXCEPT ![t].pc = "create"]
      BY <3>1, <3>2
    <3> QED BY <1>1, <2>3, <3>2 DEF CheckDeviceLimit
  <2>4. CASE \E s \in Sn : Inform(t, s)
    <3>1. PICK s \in Sn : Inform(t, s)
      BY <2>4
    <3>2. CASE task' = [task EXCEPT ![t] = [pc |-> "limit", sn |-> s, got |-> None]]
      <4>1. [pc |-> "limit", sn |-> s, got |-> None].pc = "limit"
        OBVIOUS
      <4> QED BY <3>2, <4>1
    <3>3. CASE task' = [task EXCEPT ![t] = [pc |-> "save", sn |-> s, got |-> CopyOf(First(s))]]
      <4>1. [pc |-> "save", sn |-> s, got |-> CopyOf(First(s))].pc = "save"
        OBVIOUS
      <4> QED BY <3>3, <4>1
    <3> QED BY <3>1, <3>2, <3>3 DEF Inform
  <2> QED BY <2>2, <2>3, <2>4
<1> QED BY <1>1, <1>2, OtherInits DEF SafeInit, LockHeld

LEMMA SafeInitNext ==
  ASSUME "lockTTL" \notin Faults, IInv, SafeInit, [Next]_vars
  PROVE  SafeInit'
<1>1. CASE UNCHANGED <<task, initLock>>
  BY <1>1 DEF SafeInit, LockHeld, InitIsExclusive, InInit
<1>2. CASE \E t \in Task : Step(t) \/ \E s \in Sn : Inform(t, s)
  BY <1>2, HandlerInits, InitSteps DEF Step, IInv
<1>3. CASE \E i \in Id : OrphanLockExpires(i) \/ HeldLockExpires(i)
  BY <1>3 DEF OrphanLockExpires, HeldLockExpires, Fault, SafeInit, LockHeld, InitIsExclusive, InInit
<1>4. CASE Crash
  BY <1>4 DEF Crash, IdleTask, SafeInit, LockHeld, InitIsExclusive, InInit
<1>5. CASE \/ \E s \in Sn : OperatorCreate(s)
           \/ \E i \in Id : OperatorRead(i) \/ OperatorDelete(i)
           \/ OperatorSave
           \/ \E i \in Id, body \in Row : OperatorPut(i, body)
           \/ ImportLockExpires
           \/ \E m \in Importer : ImportStep(m)
           \/ UNCHANGED vars
  BY <1>1, <1>5 DEF OperatorCreate, OperatorRead, OperatorDelete, OperatorSave, OperatorPut,
     ImportLockExpires,
     ImportStep, ImportLock, ImportRead, ImportEnd, ImportRow, initVars, vars
<1> QED BY <1>2, <1>3, <1>4, <1>5 DEF Next, DeviceNext

-----------------------------------------------------------------------------
(* Who brings deleted rows back *)

\* A write that spares row i, or leaves it deleted.
LEMMA Spared ==
  ASSUME RowsPart, NEW i \in DOMAIN rows, rows[i].deleted
  PROVE  /\ \A s \in Sn : Create(s) => rows'[i].deleted
         /\ \A c : Save(c) /\ c.id # i => rows'[i].deleted
         /\ \A j : rows' = [rows EXCEPT ![j].deleted = TRUE] => rows'[i].deleted
         /\ \A j : rows' = [rows EXCEPT ![j].init = TRUE] => rows'[i].deleted
<1>1. rows[i] \in Row /\ rows \in Seq(Row)
  BY RowFacts DEF RowsPart
<1>2. \A s \in Sn : Create(s) => rows'[i].deleted
  BY <1>1 DEF Create
<1>3. \A c : Save(c) /\ c.id # i => rows'[i].deleted
  BY <1>1 DEF Save
<1>4. [rows[i] EXCEPT !.deleted = TRUE].deleted /\ [rows[i] EXCEPT !.init = TRUE].deleted
  BY <1>1 DEF Row
<1>5. \A j : rows' = [rows EXCEPT ![j].deleted = TRUE] => rows'[i].deleted
  BY <1>4
<1>6. \A j : rows' = [rows EXCEPT ![j].init = TRUE] => rows'[i].deleted
  BY <1>4
<1> QED BY <1>2, <1>3, <1>5, <1>6

LEMMA OnlyHoldersRevive ==
  ASSUME RowsPart, [Next]_vars, NEW i \in DOMAIN rows, rows[i].deleted, ~HeldAlive(i),
         \A body \in Row : ~OperatorPut(i, body)
  PROVE  rows'[i].deleted
<1>1. CASE UNCHANGED rows
  BY <1>1
<1>2. CASE \E t \in Task : SaveDevice(t) /\ Save(task[t].got)
  <2>1. PICK t \in Task : SaveDevice(t) /\ Save(task[t].got)
    BY <1>2
  <2>2. task[t].got.id # i
    BY <2>1 DEF SaveDevice, HeldAlive
  <2> QED BY <2>1, <2>2, Spared
<1>3. CASE \E t \in Task : CreateDevice(t) /\ Create(task[t].sn) /\ ~UNCHANGED rows
  <2>1. PICK t \in Task : Create(task[t].sn)
    BY <1>3
  <2>2. rows'[i] = rows[i]
    BY <2>1 DEF Create, RowsPart
  <2> QED BY <2>2
<1>4. CASE \E t \in Task : MarkInitialized(t)
  <2>1. PICK t \in Task : MarkInitialized(t)
    BY <1>4
  <2> QED BY <1>1, <2>1, Spared DEF MarkInitialized
<1>5. CASE \E s \in Sn : OperatorCreate(s)
  BY <1>5, Spared DEF OperatorCreate
<1>6. CASE \E j \in Id : OperatorDelete(j)
  BY <1>6, Spared DEF OperatorDelete
<1>7. CASE OperatorSave
  <2>1. edit.id # i
    BY <1>7 DEF OperatorSave, HeldAlive
  <2> QED BY <1>1, <1>7, <2>1, Spared DEF OperatorSave
<1>8. CASE \E m \in Importer, s \in Sn : ImportRow(m, s)
  <2>1. PICK m \in Importer, s \in Sn : ImportRow(m, s)
    BY <1>8
  <2>2. import[m].seen[s] # None => import[m].seen[s].id # i
    BY <2>1 DEF ImportRow, HeldAlive
  <2>3. \/ Create(s)
        \/ Save(import[m].seen[s]) /\ import[m].seen[s] # None
        \/ rows' = [rows EXCEPT ![import[m].seen[s].id].deleted = TRUE]
        \/ UNCHANGED rows
    BY <2>1 DEF ImportRow
  <2> QED BY <1>1, <2>2, <2>3, Spared
<1>9. CASE \E j \in Id, body \in Row : OperatorPut(j, body)
  <2>1. PICK j \in Id, body \in Row : OperatorPut(j, body)
    BY <1>9
  <2>2. j # i /\ rows \in Seq(Row)
    BY <2>1 DEF RowsPart
  <2>3. rows'[i] = rows[i]
    BY <2>1, <2>2 DEF OperatorPut
  <2> QED BY <2>3
<1> QED BY <1>1, <1>2, <1>3, <1>4, <1>5, <1>6, <1>7, <1>8, <1>9
    DEF Next, DeviceNext, Step, Inform, SaveDevice, CheckDeviceLimit, CreateDevice, LockInit, PushInit,
        UnlockInit, OrphanLockExpires, HeldLockExpires, OperatorRead, ImportStep, ImportLock,
        ImportRead, ImportEnd, ImportLockExpires, Crash, vars

-----------------------------------------------------------------------------
(* The theorems *)

\* Whatever a handler, a goroutine, an operator or an import has read and may write
\* back is a copy of an existing row that does not claim more than was logged.
LEMMA Invariance == Spec => []IInv
BY InitInv, NextInv, PTL DEF Spec

\* The table, the locks and what everyone has in hand keep their types.
THEOREM TypeCorrect == Spec => []TypeOK
<1>1. IInv => TypeOK
  BY DEF IInv, RowsPart, TaskPart, EditPart, ImportPart, RestPart, TypeOK
<1> QED BY <1>1, Invariance, PTL

\* A row that says "initialized" has its INIT_GPN log row, through every save of a
\* stale copy, import, lost transaction and restart, as long as no PUT claims an
\* initialization that nobody logged.
THEOREM MarkIsLogged ==
  ASSUME "claim" \notin Ops
  PROVE  Spec => []InitializedIsLogged
<1>1. IInv => InitializedIsLogged
  BY DEF IInv, RowsPart, NoClaim
<1> QED BY <1>1, Invariance, PTL

\* Unless the lock expires under its holder, at most one goroutine initializes a
\* device at a time, though any number of them is started.
THEOREM OneInitializes ==
  ASSUME "lockTTL" \notin Faults
  PROVE  Spec => []InitIsExclusive
<1>1. Init => SafeInit
  BY DEF Init, IdleTask, SafeInit, LockHeld, InitIsExclusive, InInit
<1>2. IInv /\ SafeInit /\ [Next]_vars => SafeInit'
  BY SafeInitNext
<1>3. SafeInit => InitIsExclusive
  BY DEF SafeInit
<1> QED BY <1>1, <1>2, <1>3, Invariance, PTL DEF Spec

\* A deleted device comes back only through a handler, an edit or an import that read
\* its row before and saves all of it, or through a PUT of its very row by anybody: no
\* other step of the system revives one.
THEOREM DeletedForGood == Spec => DeletedStaysDeleted
<1>1. IInv /\ [Next]_vars =>
        [\A i \in DOMAIN rows :
           rows[i].deleted /\ ~HeldAlive(i) =>
             rows'[i].deleted \/ \E body \in Row : OperatorPut(i, body)]_vars
  BY OnlyHoldersRevive DEF IInv
<1> QED BY <1>1, Invariance, PTL DEF DeletedStaysDeleted, Spec

-----------------------------------------------------------------------------
(* Where devices register by themselves: nobody imports, creates or edits *)

Unattended == Importer = {} /\ Ops \subseteq {"delete"}

\* What handlers do to the table: bring a row back or save it, insert one, or leave
\* whose rows they are, and which are deleted, as they were.
SavesRow(t) == SaveDevice(t) /\ Save(task[t].got)
MakesRow(t) == CreateDevice(t) /\ Create(task[t].sn)

RowsQuiet ==
  /\ DOMAIN rows' = DOMAIN rows
  /\ \A i \in DOMAIN rows : rows'[i].sn = rows[i].sn /\ rows'[i].deleted = rows[i].deleted

\* One step of a handler.
LEMMA RowsOfHandler ==
  ASSUME IInv, NEW t \in Task, Step(t)
  PROVE  UNCHANGED <<edit, import>> /\ (SavesRow(t) \/ MakesRow(t) \/ RowsQuiet)
<1>1. UNCHANGED <<edit, import>>
  BY DEF Step, SaveDevice, CheckDeviceLimit, CreateDevice, LockInit, MarkInitialized,
              PushInit, UnlockInit, importVars
<1>2. CASE MarkInitialized(t) /\ ~UNCHANGED rows
  <2>1. task[t].got.id \in DOMAIN rows
    BY <1>2 DEF MarkInitialized, IInv, TaskPart, TaskInHand, Holding, Held
  <2>2. rows' = [rows EXCEPT ![task[t].got.id].init = TRUE]
    BY <1>2 DEF MarkInitialized
  <2>3. \A i \in DOMAIN rows : rows[i] \in Row
    BY RowFacts DEF IInv
  <2> QED BY <1>1, <2>1, <2>2, <2>3 DEF RowsQuiet, Row
<1>3. CASE UNCHANGED rows
  BY <1>1, <1>3 DEF RowsQuiet
<1> QED BY <1>1, <1>2, <1>3
    DEF Step, SavesRow, MakesRow, SaveDevice, CreateDevice, CheckDeviceLimit, LockInit,
        PushInit, UnlockInit

LEMMA RowsOfStep ==
  ASSUME IInv, Unattended, edit = None, [Next]_vars
  PROVE  /\ edit' = None
         /\ \/ \E t \in Task : SavesRow(t) \/ MakesRow(t)
            \/ \E i \in Live : OperatorDelete(i)
            \/ RowsQuiet
<1>1. CASE UNCHANGED <<rows, edit>>
  BY <1>1 DEF RowsQuiet
<1>2. ASSUME NEW t \in Task, Step(t)
      PROVE  UNCHANGED edit /\ (SavesRow(t) \/ MakesRow(t) \/ RowsQuiet)
  BY <1>2, RowsOfHandler
<1>3. CASE \/ \E s \in Sn : OperatorCreate(s)
           \/ \E i \in Id : OperatorRead(i) \/ OperatorDelete(i)
           \/ OperatorSave
           \/ \E i \in Id, body \in Row : OperatorPut(i, body)
  BY <1>3 DEF OperatorCreate, OperatorRead, OperatorSave, OperatorDelete, OperatorPut, Unattended
<1>4. CASE \/ \E t \in Task, s \in Sn : Inform(t, s)
           \/ \E i \in Id : OrphanLockExpires(i) \/ HeldLockExpires(i)
           \/ ImportLockExpires \/ Crash \/ UNCHANGED vars
  BY <1>1, <1>4 DEF Inform, OrphanLockExpires, HeldLockExpires, ImportLockExpires, Crash, vars
<1> QED BY <1>2, <1>3, <1>4 DEF Next, DeviceNext, Unattended

\* What a handler has in hand has come from a live row, or is about to be made.
Working == {"save", "limit", "create"}

\* Where a step leaves a handler u: as it was, out of the registration, past the
\* limit, or with a new Inform.
Stays(u)  == task'[u] = task[u]
Leaves(u) == task'[u].pc \notin Working /\ task'[u].sn \in {None, task[u].sn}
Passes(u) ==
  /\ task[u].pc = "limit"
  /\ task'[u].pc = "create" /\ task'[u].sn = task[u].sn
  /\ UNCHANGED rows
  /\ MaxDevices > 0 => Cardinality(Live) < MaxDevices
Begins(u) ==
  \E s \in Sn :
    /\ task[u].pc = "idle" /\ task'[u].sn = s /\ UNCHANGED rows
    /\ \/ \A v \in Task : task[v].sn # s
       \/ Fault("overlap")
    /\ \/ task'[u].pc = "limit" /\ LiveOf(s) = {}
       \/ task'[u].pc = "save" /\ LiveOf(s) # {} /\ task'[u].got = CopyOf(First(s))

\* A handler that writes the table has left the registration; the others stay.
LEMMA TasksOfStep ==
  ASSUME IInv, [Next]_vars
  PROVE  /\ \/ \A u \in Task : Stays(u) \/ Leaves(u)
            \/ \E t \in Task : (Passes(t) \/ Begins(t)) /\ \A u \in Task \ {t} : Stays(u)
         /\ \A t \in Task : SavesRow(t) \/ MakesRow(t) =>
              Leaves(t) /\ task'[t].sn = None /\ \A u \in Task \ {t} : Stays(u)
         /\ \A t \in Task : Step(t) =>
              (Leaves(t) \/ Passes(t)) /\ \A u \in Task \ {t} : Stays(u)
<1>0. task \in [Task -> TaskState] /\ IdleTask.pc = "idle" /\ IdleTask.sn = None
  BY DEF IInv, TaskPart, IdleTask
<1>1. ASSUME NEW t \in Task, NEW n, task' = [task EXCEPT ![t] = n]
      PROVE  task'[t] = n /\ \A u \in Task \ {t} : Stays(u)
  BY <1>0, <1>1 DEF Stays
<1>2. ASSUME NEW t \in Task, task' = [task EXCEPT ![t] = IdleTask]
      PROVE  Leaves(t) /\ task'[t].sn = None
  BY <1>0, <1>1, <1>2 DEF Leaves, Working
<1>3. ASSUME NEW t \in Task, NEW c, EndInform(t, c)
      PROVE  Leaves(t) /\ task'[t].sn = None /\ \A u \in Task \ {t} : Stays(u)
  <2>1. CASE c.row.init
    BY <1>1, <1>2, <1>3, <2>1 DEF EndInform
  <2>2. CASE ~c.row.init
    <3> DEFINE n == [pc |-> "init", sn |-> None, got |-> c]
    <3>1. task' = [task EXCEPT ![t] = n]
      BY <1>3, <2>2 DEF EndInform
    <3>2. n.pc = "init" /\ n.sn = None
      OBVIOUS
    <3> HIDE DEF n
    <3> QED BY <1>1, <3>1, <3>2 DEF Leaves, Working
  <2> QED BY <2>1, <2>2
<1>4. ASSUME NEW t \in Task, NEW pc, task' = [task EXCEPT ![t].pc = pc]
      PROVE  /\ task'[t].pc = pc /\ task'[t].sn = task[t].sn
             /\ \A u \in Task \ {t} : Stays(u)
  <2>1. task[t] \in TaskState
    BY <1>0
  <2> QED BY <1>0, <1>4, <2>1 DEF Stays, TaskState
<1>5. \A t \in Task : SavesRow(t) \/ MakesRow(t) =>
        Leaves(t) /\ task'[t].sn = None /\ \A u \in Task \ {t} : Stays(u)
  <2>1. ASSUME NEW t \in Task, SavesRow(t)
        PROVE  Leaves(t) /\ task'[t].sn = None /\ \A u \in Task \ {t} : Stays(u)
    BY <1>3, <2>1 DEF SavesRow, SaveDevice
  <2>2. ASSUME NEW t \in Task, MakesRow(t)
        PROVE  Leaves(t) /\ task'[t].sn = None /\ \A u \in Task \ {t} : Stays(u)
    BY <1>1, <1>2, <1>3, <2>2 DEF MakesRow, CreateDevice
  <2> QED BY <2>1, <2>2
<1>6. ASSUME NEW t \in Task, Step(t)
      PROVE  (Leaves(t) \/ Passes(t)) /\ \A u \in Task \ {t} : Stays(u)
  <2>1. CASE SaveDevice(t) \/ CreateDevice(t)
    BY <1>1, <1>2, <1>3, <2>1 DEF SaveDevice, CreateDevice
  <2>2. CASE CheckDeviceLimit(t)
    <3>1. CASE task' = [task EXCEPT ![t] = IdleTask]
      BY <1>1, <1>2, <3>1
    <3>2. CASE task' = [task EXCEPT ![t].pc = "create"]
               /\ (MaxDevices > 0 => Cardinality(Live) < MaxDevices)
      BY <1>4, <2>2, <3>2 DEF Passes, CheckDeviceLimit
    <3> QED BY <2>2, <3>1, <3>2 DEF CheckDeviceLimit
  <2>3. CASE LockInit(t) \/ MarkInitialized(t) \/ PushInit(t) \/ UnlockInit(t)
    <3>1. \/ task' = [task EXCEPT ![t] = IdleTask]
          \/ \E pc \in {"mark", "push", "unlock"} : task' = [task EXCEPT ![t].pc = pc]
      BY <2>3 DEF LockInit, MarkInitialized, PushInit, UnlockInit
    <3>2. ASSUME NEW pc \in {"mark", "push", "unlock"}, task' = [task EXCEPT ![t].pc = pc]
          PROVE  Leaves(t) /\ \A u \in Task \ {t} : Stays(u)
      BY <1>4, <3>2 DEF Leaves, Working
    <3> QED BY <1>1, <1>2, <3>1, <3>2
  <2> QED BY <1>6, <2>1, <2>2, <2>3 DEF Step
<1>7. ASSUME NEW t \in Task, NEW s \in Sn, Inform(t, s)
      PROVE  Begins(t) /\ \A u \in Task \ {t} : Stays(u)
  <2>0. UNCHANGED rows /\ task[t].pc = "idle"
        /\ ((\A v \in Task : task[v].sn # s) \/ Fault("overlap"))
    BY <1>7 DEF Inform
  <2>1. CASE LiveOf(s) = {} /\ task' = [task EXCEPT ![t] = [pc |-> "limit", sn |-> s, got |-> None]]
    <3> DEFINE n == [pc |-> "limit", sn |-> s, got |-> None]
    <3>2. n.pc = "limit" /\ n.sn = s /\ task' = [task EXCEPT ![t] = n]
      BY <2>1
    <3> HIDE DEF n
    <3>1. task'[t].pc = "limit" /\ task'[t].sn = s /\ \A u \in Task \ {t} : Stays(u)
      BY <1>1, <3>2
    <3> QED BY <2>0, <2>1, <3>1 DEF Begins
  <2>2. CASE LiveOf(s) # {}
             /\ task' = [task EXCEPT ![t] = [pc |-> "save", sn |-> s, got |-> CopyOf(First(s))]]
    <3> DEFINE n == [pc |-> "save", sn |-> s, got |-> CopyOf(First(s))]
    <3>2. n.pc = "save" /\ n.sn = s /\ n.got = CopyOf(First(s)) /\ task' = [task EXCEPT ![t] = n]
      BY <2>2
    <3> HIDE DEF n
    <3>1. task'[t].pc = "save" /\ task'[t].sn = s /\ task'[t].got = CopyOf(First(s))
          /\ \A u \in Task \ {t} : Stays(u)
      BY <1>1, <3>2
    <3> QED BY <2>0, <2>2, <3>1 DEF Begins
  <2> QED BY <1>7, <2>1, <2>2 DEF Inform
<1>12. \A t \in Task : Step(t) =>
         (Leaves(t) \/ Passes(t)) /\ \A u \in Task \ {t} : Stays(u)
  BY <1>6
<1>8. CASE UNCHANGED task
  BY <1>5, <1>12, <1>8 DEF Stays
<1>9. CASE Crash
  <2>1. \A u \in Task : Leaves(u)
    BY <1>0, <1>9 DEF Crash, Leaves, Working
  <2> QED BY <1>5, <1>12, <2>1
<1>10. CASE \E t \in Task : Step(t)
  BY <1>5, <1>12, <1>10
<1>11. CASE \E t \in Task, s \in Sn : Inform(t, s)
  BY <1>5, <1>12, <1>7, <1>11
<1> QED BY <1>8, <1>9, <1>10, <1>11
    DEF Next, DeviceNext, OrphanLockExpires, HeldLockExpires, OperatorCreate, OperatorRead, OperatorDelete,
        OperatorSave, OperatorPut, ImportStep, ImportLock, ImportRead, ImportEnd, ImportRow,
        ImportLockExpires, vars

\* The row that an Inform finds is live, and has its serial number.
LEMMA FirstIsLive ==
  ASSUME RowsPart, NEW s \in Sn, LiveOf(s) # {}
  PROVE  First(s) \in LiveOf(s)
<1>1. LiveOf(s) \in SUBSET Nat
  BY RowFacts DEF LiveOf, Live
<1>2. \E i \in LiveOf(s) : \A j \in LiveOf(s) : i <= j
  BY <1>1, LeastExists
<1> QED BY <1>2 DEF First

\* What the handlers' writes make of the live rows.
LEMMA SavedRows ==
  ASSUME IInv, NEW t \in Task, SavesRow(t)
  PROVE  /\ task[t].pc = "save" /\ task[t].got.id \in DOMAIN rows
         /\ DOMAIN rows' = DOMAIN rows
         /\ rows'[task[t].got.id] = task[t].got.row
         /\ \A i \in DOMAIN rows : i # task[t].got.id => rows'[i] = rows[i]
<1>1. task[t].pc = "save" /\ Held(task[t].got)
  BY DEF SavesRow, SaveDevice, IInv, TaskPart, TaskInHand, Holding
<1>2. task[t].got.id \in DOMAIN rows
  BY <1>1 DEF Held
<1> QED BY <1>1, <1>2 DEF SavesRow, Save

LEMMA MadeRows ==
  ASSUME IInv, NEW t \in Task, MakesRow(t)
  PROVE  /\ task[t].pc = "create" /\ task[t].sn \in Sn
         /\ DOMAIN rows' = DOMAIN rows \cup {Len(rows) + 1} /\ Len(rows) + 1 \notin DOMAIN rows
         /\ rows'[Len(rows) + 1].sn = task[t].sn /\ ~rows'[Len(rows) + 1].deleted
         /\ \A i \in DOMAIN rows : rows'[i] = rows[i]
<1>1. task[t].pc = "create" /\ task[t].sn \in Sn
  BY DEF MakesRow, CreateDevice, IInv, TaskPart, TaskInHand
<1>2. rows \in Seq(Row) /\ rows' = Append(rows, NewRow(task[t].sn))
  BY DEF MakesRow, Create, IInv, RowsPart
<1>3. NewRow(task[t].sn).sn = task[t].sn /\ ~NewRow(task[t].sn).deleted
  BY DEF NewRow
<1> QED BY <1>1, <1>2, <1>3

LEMMA DeletedRows ==
  ASSUME IInv, NEW i \in Live, OperatorDelete(i)
  PROVE  /\ i \in DOMAIN rows /\ ~rows[i].deleted /\ DOMAIN rows' = DOMAIN rows
         /\ rows'[i].sn = rows[i].sn /\ rows'[i].deleted
         /\ \A j \in DOMAIN rows : j # i => rows'[j] = rows[j]
<1>1. i \in DOMAIN rows /\ rows[i] \in Row /\ ~rows[i].deleted
  BY RowFacts DEF IInv, Live
<1>2. rows' = [rows EXCEPT ![i].deleted = TRUE]
  BY DEF OperatorDelete
<1>3. [rows[i] EXCEPT !.deleted = TRUE].sn = rows[i].sn /\ [rows[i] EXCEPT !.deleted = TRUE].deleted
  BY <1>1 DEF Row
<1> QED BY <1>1, <1>2, <1>3

-----------------------------------------------------------------------------
(* The device limit *)

\* The handlers past the limit, and the deleted rows that a handler may bring back.
Creating == {t \in Task : task[t].pc = "create"}
Reviving ==
  {i \in DOMAIN rows : rows[i].deleted /\ \E t \in Task : task[t].pc = "save" /\ task[t].got.id = i}

\* What a handler is about to save was live when it was read.
SavesLive == \A t \in Task : task[t].pc = "save" => ~task[t].got.row.deleted

\* The live rows, with those that are about to be.
Accounted ==
  MaxDevices > 0 =>
    Cardinality(Live) + Cardinality(Creating) + Cardinality(Reviving)
      < MaxDevices + Cardinality(Task)

LimitInv == edit = None /\ SavesLive /\ Accounted

LEMMA LimitFinite ==
  ASSUME IInv
  PROVE  /\ IsFiniteSet(Live) /\ Cardinality(Live) \in Nat
         /\ IsFiniteSet(Creating) /\ Cardinality(Creating) \in Nat
         /\ IsFiniteSet(Reviving) /\ Cardinality(Reviving) \in Nat
         /\ Cardinality(Task) \in Nat
<1>1. IsFiniteSet(DOMAIN rows)
  BY RowFacts, FS_Interval DEF IInv
<1>2. Live \in SUBSET DOMAIN rows /\ Reviving \in SUBSET DOMAIN rows /\ Creating \in SUBSET Task
  BY DEF Live, Reviving, Creating
<1>3. IsFiniteSet(Live) /\ IsFiniteSet(Reviving) /\ IsFiniteSet(Creating)
  BY <1>1, <1>2, FS_Subset, RegistryAssumption
<1> QED BY <1>3, FS_CardinalityType, RegistryAssumption

\* Every handler creates at most one row, or brings at most one back.
LEMMA OneEach ==
  ASSUME IInv
  PROVE  Cardinality(Creating) + Cardinality(Reviving) <= Cardinality(Task)
<1> DEFINE S == Task \ Creating
           f == [i \in Reviving |-> CHOOSE t \in Task : task[t].pc = "save" /\ task[t].got.id = i]
<1>1. IsFiniteSet(S) /\ Cardinality(S) = Cardinality(Task) - Cardinality(Creating)
  <2>1. Task \cap Creating = Creating
    BY DEF Creating
  <2>2. /\ IsFiniteSet(Task \ Creating)
        /\ Cardinality(Task \ Creating) = Cardinality(Task) - Cardinality(Task \cap Creating)
    BY RegistryAssumption, FS_Difference
  <2> QED BY <2>1, <2>2
<1>2. ASSUME NEW i \in Reviving
      PROVE  f[i] \in Task /\ task[f[i]].pc = "save" /\ task[f[i]].got.id = i
  <2>1. \E t \in Task : task[t].pc = "save" /\ task[t].got.id = i
    BY DEF Reviving
  <2> QED BY <2>1
<1>3. f \in Injection(Reviving, S)
  <2>1. f \in [Reviving -> S]
    BY <1>2 DEF Creating
  <2>2. \A i, j \in Reviving : f[i] = f[j] => i = j
    <3> HIDE DEF f
    <3> QED BY <1>2
  <2> HIDE DEF f
  <2> QED BY <2>1, <2>2 DEF Injection, IsInjective
<1>4. Cardinality(Reviving) <= Cardinality(S)
  <2> HIDE DEF f, S
  <2> QED BY <1>1, <1>3, FS_Injection
<1> HIDE DEF S
<1> QED BY <1>1, <1>4, LimitFinite

\* A step that adds no live row and no row that may be brought back, and lets no
\* handler past the limit.
LEMMA NoMore ==
  ASSUME IInv, Accounted, Live' \subseteq Live, Creating' \subseteq Creating,
         Reviving' \subseteq Reviving
  PROVE  Accounted'
<1>1. /\ Cardinality(Live') <= Cardinality(Live) /\ Cardinality(Live') \in Nat
      /\ Cardinality(Creating') <= Cardinality(Creating) /\ Cardinality(Creating') \in Nat
      /\ Cardinality(Reviving') <= Cardinality(Reviving) /\ Cardinality(Reviving') \in Nat
  BY LimitFinite, FS_Subset, FS_CardinalityType
<1> QED BY <1>1, LimitFinite, RegistryAssumption DEF Accounted

\* One element more, and one less.
LEMMA OneMore ==
  ASSUME NEW S, NEW T, NEW x, IsFiniteSet(S), T \subseteq S \cup {x}
  PROVE  Cardinality(T) \in Nat /\ Cardinality(T) <= Cardinality(S) + 1
<1>1. /\ IsFiniteSet(S \cup {x}) /\ Cardinality(S) \in Nat
      /\ Cardinality(S \cup {x}) \in {Cardinality(S), Cardinality(S) + 1}
  BY FS_AddElement, FS_CardinalityType
<1>2. IsFiniteSet(T) /\ Cardinality(T) <= Cardinality(S \cup {x})
  BY <1>1, FS_Subset
<1>3. Cardinality(T) \in Nat
  BY <1>2, FS_CardinalityType
<1> QED BY <1>1, <1>2, <1>3

LEMMA OneLess ==
  ASSUME NEW S, NEW T, NEW x \in S, IsFiniteSet(S), T \subseteq S \ {x}
  PROVE  Cardinality(T) \in Nat /\ Cardinality(T) <= Cardinality(S) - 1
<1>1. /\ IsFiniteSet(S \ {x}) /\ Cardinality(S) \in Nat
      /\ Cardinality(S \ {x}) = Cardinality(S) - 1
  BY FS_RemoveElement, FS_CardinalityType
<1>2. IsFiniteSet(T) /\ Cardinality(T) <= Cardinality(S \ {x})
  BY <1>1, FS_Subset
<1>3. Cardinality(T) \in Nat
  BY <1>2, FS_CardinalityType
<1> QED BY <1>1, <1>2, <1>3

LEMMA SavesLiveStep ==
  ASSUME IInv, SavesLive, [Next]_vars
  PROVE  SavesLive'
<1> SUFFICES ASSUME NEW u \in Task, task'[u].pc = "save" PROVE ~task'[u].got.row.deleted
  BY DEF SavesLive
<1>1. Stays(u) \/ Begins(u)
  <2>1. ~Leaves(u) /\ ~Passes(u)
    BY DEF Leaves, Passes, Working
  <2> QED BY <2>1, TasksOfStep
<1>2. CASE Stays(u)
  BY <1>2 DEF Stays, SavesLive
<1>3. CASE Begins(u)
  <2>1. PICK s \in Sn : LiveOf(s) # {} /\ task'[u].got = CopyOf(First(s))
    BY <1>3 DEF Begins
  <2>2. First(s) \in LiveOf(s)
    BY <2>1, FirstIsLive DEF IInv
  <2> QED BY <2>1, <2>2 DEF CopyOf, LiveOf, Live
<1> QED BY <1>1, <1>2, <1>3

LEMMA LimitStep ==
  ASSUME IInv, LimitInv, Unattended, [Next]_vars
  PROVE  LimitInv'
<1>0. edit' = None /\ SavesLive'
  BY RowsOfStep, SavesLiveStep DEF LimitInv
<1>1. CASE \E t \in Task : SavesRow(t)
  <2>1. PICK t \in Task : SavesRow(t)
    BY <1>1
  <2> DEFINE i == task[t].got.id
  <2>2. Leaves(t) /\ \A u \in Task \ {t} : Stays(u)
    BY <2>1, TasksOfStep
  <2>3. Creating' \subseteq Creating
    BY <2>2 DEF Creating, Leaves, Stays, Working
  <2>4. /\ task[t].pc = "save" /\ i \in DOMAIN rows /\ DOMAIN rows' = DOMAIN rows
        /\ rows'[i] = task[t].got.row /\ ~task[t].got.row.deleted
        /\ \A j \in DOMAIN rows : j # i => rows'[j] = rows[j]
    BY <2>1, SavedRows DEF LimitInv, SavesLive
  <2>5. Live' \subseteq Live \cup {i}
    BY <2>4 DEF Live
  <2>6. Reviving' \subseteq Reviving \ {i}
    BY <2>2, <2>4 DEF Reviving, Leaves, Stays, Working
  <2>7. CASE i \in Live
    BY <2>3, <2>5, <2>6, <2>7, NoMore, <1>0 DEF LimitInv
  <2>8. CASE i \notin Live
    <3>1. i \in Reviving
      BY <2>4, <2>8 DEF Reviving, Live
    <3>2. /\ Cardinality(Live') <= Cardinality(Live) + 1 /\ Cardinality(Live') \in Nat
          /\ Cardinality(Reviving') <= Cardinality(Reviving) - 1 /\ Cardinality(Reviving') \in Nat
      <4> HIDE DEF i
      <4> QED BY <2>5, <2>6, <3>1, LimitFinite, OneMore, OneLess
    <3>3. Cardinality(Creating') <= Cardinality(Creating) /\ Cardinality(Creating') \in Nat
      BY <2>3, LimitFinite, FS_Subset, FS_CardinalityType
    <3>4. Accounted'
      BY <3>2, <3>3, LimitFinite, RegistryAssumption DEF LimitInv, Accounted
    <3> QED BY <1>0, <3>4 DEF LimitInv
  <2> QED BY <2>7, <2>8
<1>2. CASE \E t \in Task : MakesRow(t)
  <2>1. PICK t \in Task : MakesRow(t)
    BY <1>2
  <2> DEFINE n == Len(rows) + 1
  <2>2. Leaves(t) /\ \A u \in Task \ {t} : Stays(u)
    BY <2>1, TasksOfStep
  <2>3. Creating' \subseteq Creating \ {t}
    BY <2>2 DEF Creating, Leaves, Stays, Working
  <2>4. /\ task[t].pc = "create" /\ DOMAIN rows' = DOMAIN rows \cup {n}
        /\ ~rows'[n].deleted /\ \A i \in DOMAIN rows : rows'[i] = rows[i]
    BY <2>1, MadeRows
  <2> HIDE DEF n
  <2>5. Live' \subseteq Live \cup {n} /\ t \in Creating
    BY <2>4 DEF Live, Creating
  <2>6. Reviving' \subseteq Reviving
    BY <2>2, <2>4 DEF Reviving, Leaves, Stays, Working
  <2>7. /\ Cardinality(Live') <= Cardinality(Live) + 1 /\ Cardinality(Live') \in Nat
        /\ Cardinality(Creating') <= Cardinality(Creating) - 1 /\ Cardinality(Creating') \in Nat
    BY <2>3, <2>5, LimitFinite, OneMore, OneLess
  <2>8. Cardinality(Reviving') <= Cardinality(Reviving) /\ Cardinality(Reviving') \in Nat
    BY <2>6, LimitFinite, FS_Subset, FS_CardinalityType
  <2>9. Accounted'
    BY <2>7, <2>8, LimitFinite, RegistryAssumption DEF LimitInv, Accounted
  <2> QED BY <1>0, <2>9 DEF LimitInv
<1>3. ASSUME NEW i \in Live, OperatorDelete(i)
      PROVE  LimitInv'
  <2>1. UNCHANGED task
    BY <1>3 DEF OperatorDelete
  <2>2. Live' \subseteq Live \ {i} /\ Reviving' \subseteq Reviving \cup {i} /\ Creating' = Creating
    BY <1>3, <2>1, DeletedRows DEF Live, Reviving, Creating
  <2>3. /\ Cardinality(Reviving') <= Cardinality(Reviving) + 1 /\ Cardinality(Reviving') \in Nat
        /\ Cardinality(Live') <= Cardinality(Live) - 1 /\ Cardinality(Live') \in Nat
    BY <2>2, LimitFinite, OneMore, OneLess
  <2>4. Accounted'
    BY <2>2, <2>3, LimitFinite, RegistryAssumption DEF LimitInv, Accounted
  <2> QED BY <1>0, <2>4 DEF LimitInv
<1>4. CASE RowsQuiet /\ \A t \in Task : ~Passes(t)
  <2>1. \A u \in Task : Stays(u) \/ Leaves(u) \/ Begins(u)
    BY <1>4, TasksOfStep
  <2>2. Live' \subseteq Live
    BY <1>4 DEF RowsQuiet, Live
  <2>3. Creating' \subseteq Creating
    BY <2>1 DEF Creating, Stays, Leaves, Begins, Working
  <2>4. Reviving' \subseteq Reviving
    <3> SUFFICES ASSUME NEW i \in Reviving' PROVE i \in Reviving
      OBVIOUS
    <3>1. PICK u \in Task : task'[u].pc = "save" /\ task'[u].got.id = i
      BY DEF Reviving
    <3>2. i \in DOMAIN rows /\ rows[i].deleted
      BY <1>4 DEF RowsQuiet, Reviving
    <3>3. CASE Stays(u)
      BY <3>1, <3>2, <3>3 DEF Stays, Reviving
    <3>4. CASE Begins(u)
      <4>1. PICK s \in Sn : LiveOf(s) # {} /\ task'[u].got = CopyOf(First(s))
        BY <3>1, <3>4 DEF Begins
      <4>2. First(s) \in LiveOf(s)
        BY <4>1, FirstIsLive DEF IInv
      <4> QED BY <3>1, <3>2, <4>1, <4>2 DEF CopyOf, LiveOf, Live
    <3> QED BY <2>1, <3>1, <3>3, <3>4 DEF Leaves, Working
  <2> QED BY <1>0, <2>2, <2>3, <2>4, NoMore DEF LimitInv
<1>5. CASE \E t \in Task : Passes(t)
  <2>1. UNCHANGED rows /\ (MaxDevices > 0 => Cardinality(Live) < MaxDevices)
    BY <1>5 DEF Passes
  <2>2. IInv'
    BY NextInv
  <2>3. Live' = Live
    BY <2>1 DEF Live
  <2>4. (Cardinality(Creating) + Cardinality(Reviving) <= Cardinality(Task))'
    BY <2>2, OneEach, PTL
  <2>5. (/\ Cardinality(Creating) \in Nat /\ Cardinality(Reviving) \in Nat
         /\ Cardinality(Live) \in Nat /\ Cardinality(Task) \in Nat)'
    BY <2>2, LimitFinite, PTL
  <2>6. Accounted'
    BY <2>1, <2>3, <2>4, <2>5, RegistryAssumption DEF Accounted
  <2> QED BY <1>0, <2>6 DEF LimitInv
<1> QED BY <1>1, <1>2, <1>3, <1>4, <1>5, RowsOfStep DEF LimitInv

\* Informs that race exceed the limit by less than their number: every handler past
\* the check makes one row, or brings one back, and the one check that lets the last
\* of them pass had seen room.  Imports, and operators who create or edit, are not
\* held to the limit at all.
THEOREM OvershootBounded ==
  ASSUME Unattended
  PROVE  Spec => []OvershootIsBounded
<1>1. Init => LimitInv
  <2> SUFFICES ASSUME Init PROVE LimitInv
    OBVIOUS
  <2>1. Live = {} /\ Creating = {} /\ Reviving = {} /\ edit = None /\ SavesLive
    BY DEF Init, Live, Creating, Reviving, SavesLive, IdleTask
  <2>2. Cardinality({}) = 0 /\ Cardinality(Task) \in Nat
    BY FS_EmptySet, FS_CardinalityType, RegistryAssumption
  <2>3. Accounted
    BY <2>1, <2>2, RegistryAssumption DEF Accounted
  <2> QED BY <2>1, <2>3 DEF LimitInv
<1>2. IInv /\ LimitInv /\ [Next]_vars => LimitInv'
  BY LimitStep
<1>3. IInv /\ LimitInv => OvershootIsBounded
  BY LimitFinite, RegistryAssumption DEF LimitInv, Accounted, OvershootIsBounded
<1> QED BY <1>1, <1>2, <1>3, Invariance, PTL DEF Spec

=============================================================================
