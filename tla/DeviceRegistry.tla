---------------------------- MODULE DeviceRegistry ----------------------------
(***************************************************************************)
(* The rows of cpe_element and everyone who writes them: Inform handlers   *)
(* that register unknown devices and save known ones, the goroutines that  *)
(* start the initialization of a device, operators who create, edit and    *)
(* delete devices, and imports.  Most of them write a whole row that they  *)
(* read some steps before.                                                 *)
(***************************************************************************)
EXTENDS Integers, Sequences, FiniteSets

CONSTANTS
  Sn,          \* serial numbers of the devices in the field
  Task,        \* Informs being processed, with the goroutine each may start
  Importer,    \* imports being processed
  None,        \* no serial number, row or copy
  MaxDevices,  \* the configured maxDeviceCount; 0 when there is none
  Ops,         \* what operators do: "create", "edit", "put", "claim", "delete"
  Faults,      \* which faults may happen
  MaxFault,    \* bound on the number of faults in a behaviour
  MaxRow       \* bound on the number of rows ever made

ASSUME RegistryAssumption ==
  /\ MaxDevices \in Nat
  /\ IsFiniteSet(Task)
  /\ IsFiniteSet(Importer)
  /\ Ops \subseteq {"create", "edit", "put", "claim", "delete"}
  /\ Faults \subseteq {"db", "push", "overlap", "lockTTL", "importTTL", "crash"}
  /\ MaxFault \in Nat
  /\ MaxRow \in Nat
  /\ None \notin Sn
  /\ None \notin [sn : Sn, deleted : BOOLEAN, init : BOOLEAN]
  /\ None \notin Int

VARIABLES
  rows,        \* cpe_element; a row is known by its place, its ne_neid
  task,        \* the Informs being processed
  initLock,    \* the rows whose device:init_lock:<id> is set
  initLog,     \* the rows that have an INIT_GPN event_log row
  pushed,      \* the rows whose GetParameterNames is in the device's queue
  edit,        \* the row an operator has read and may save, with its copy
  import,      \* the imports being processed
  importLock,  \* is nms_add_device_lock set?
  faults       \* number of faults so far

vars == <<rows, task, initLock, initLog, pushed, edit, import,
          importLock, faults>>

initVars   == <<initLock, initLog, pushed>>
importVars == <<import, importLock>>

-----------------------------------------------------------------------------

Id  == 1..MaxRow
Row == [sn : Sn, deleted : BOOLEAN, init : BOOLEAN]

\* A row and the values it had when it was read.
Copy == [id : Id, row : Row]

NewRow(s) == [sn |-> s, deleted |-> FALSE, init |-> FALSE]

\* The rows that queries with "deleted = false" see.
Live      == {i \in DOMAIN rows : ~rows[i].deleted}
LiveOf(s) == {i \in Live : rows[i].sn = s}

\* Of the live rows with a serial number, the one an Inform finds and the one
\* an import keeps.
First(s) == CHOOSE i \in LiveOf(s) : \A j \in LiveOf(s) : i <= j
Last(s)  == CHOOSE i \in LiveOf(s) : \A j \in LiveOf(s) : j <= i

\* What a handler has in hand after reading row i.
CopyOf(i) == [id |-> i, row |-> rows[i]]

\* pc is the next step; got what the handler read or made.
TaskState ==
  [pc : {"idle", "save", "limit", "create", "init", "mark", "push", "unlock"},
   sn : Sn \cup {None}, got : Copy \cup {None}]

IdleTask == [pc |-> "idle", sn |-> None, got |-> None]

\* todo is what the file asks for the serial numbers not yet processed; seen is
\* what the one query for existing devices returned for each of them.
ImportState ==
  [pc : {"idle", "read", "rows"},
   todo : UNION {[S -> {"add", "modify", "delete"}] : S \in SUBSET Sn},
   seen : [Sn -> Copy \cup {None}]]

IdleImport == [pc |-> "idle", todo |-> <<>>, seen |-> [s \in Sn |-> None]]

Init ==
  /\ rows = <<>>
  /\ task = [t \in Task |-> IdleTask]
  /\ initLock = {}
  /\ initLog = {}
  /\ pushed = {}
  /\ edit = None
  /\ import = [m \in Importer |-> IdleImport]
  /\ importLock = FALSE
  /\ faults = 0

Fault(f) ==
  /\ f \in Faults
  /\ faults < MaxFault
  /\ faults' = faults + 1

\* Mutant of Create: a deleted row of the same serial number is brought back.
CreateOrRevive(s) ==
  \/ \E i \in DOMAIN rows :
        /\ rows[i].sn = s /\ rows[i].deleted
        /\ rows' = [rows EXCEPT ![i] = NewRow(s)]
  \/ /\ \A i \in DOMAIN rows : rows[i].sn # s
     /\ Len(rows) < MaxRow
     /\ rows' = Append(rows, NewRow(s))

\* INSERT of a new row, and below UPDATE of all columns of a row.
Create(s) == Len(rows) < MaxRow /\ rows' = Append(rows, NewRow(s))

Save(c) == rows' = [rows EXCEPT ![c.id] = c.row]

-----------------------------------------------------------------------------
(* EventProcessor.ProcessInform *)

\* Look up the live row with the least id.  A device has one Inform in progress
\* unless it gave up on an earlier one, which its handler does not notice.
Inform(t, s) ==
  /\ task[t].pc = "idle"
  /\ \/ /\ \A u \in Task : task[u].sn # s
        /\ UNCHANGED faults
     \/ /\ \E u \in Task : task[u].sn = s
        /\ Fault("overlap")
  /\ \/ /\ LiveOf(s) = {}
        /\ task' = [task EXCEPT ![t] = [pc |-> "limit", sn |-> s, got |-> None]]
     \/ /\ LiveOf(s) # {}
        /\ task' = [task EXCEPT ![t] = [pc |-> "save", sn |-> s, got |-> CopyOf(First(s))]]
  /\ UNCHANGED <<rows, initVars, edit, importVars>>

\* The handler is done with the Inform; it starts the initialization if the row
\* it has in hand says that the device is not initialized.
EndInform(t, c) ==
  task' = [task EXCEPT ![t] = IF c.row.init THEN IdleTask
                              ELSE [pc |-> "init", sn |-> None, got |-> c]]

\* Mutant of SaveDevice: only the Inform that creates a device initializes it.
SaveAndForget(t) ==
  /\ task[t].pc = "save"
  /\ Save(task[t].got)
  /\ task' = [task EXCEPT ![t] = IdleTask]
  /\ UNCHANGED <<initVars, edit, importVars, faults>>

\* Mutant of SaveDevice: the row is saved without its key, which inserts it.
SaveAsNew(t) ==
  /\ task[t].pc = "save"
  /\ Create(task[t].sn)
  /\ EndInform(t, task[t].got)
  /\ UNCHANGED <<initVars, edit, importVars, faults>>

\* Save the whole row that was read, with the basic information of the Inform.
\* A failure is logged.
SaveDevice(t) ==
  /\ task[t].pc = "save"
  /\ \/ Save(task[t].got) /\ UNCHANGED faults
     \/ Fault("db") /\ UNCHANGED rows
  /\ EndInform(t, task[t].got)
  /\ UNCHANGED <<initVars, edit, importVars>>

\* Mutant of CheckDeviceLimit: the limit itself still passes.
CheckDeviceLimitLate(t) ==
  /\ task[t].pc = "limit"
  /\ task' = [task EXCEPT ![t] =
       IF MaxDevices > 0 /\ Cardinality(Live) > MaxDevices
       THEN IdleTask ELSE [@ EXCEPT !.pc = "create"]]
  /\ UNCHANGED <<rows, initVars, edit, importVars, faults>>

\* checkDeviceLimit: count the live rows.  An error refuses the device.
CheckDeviceLimit(t) ==
  /\ task[t].pc = "limit"
  /\ \/ /\ MaxDevices > 0 => Cardinality(Live) < MaxDevices
        /\ task' = [task EXCEPT ![t].pc = "create"]
        /\ UNCHANGED faults
     \/ /\ MaxDevices > 0 /\ Cardinality(Live) >= MaxDevices
        /\ task' = [task EXCEPT ![t] = IdleTask]
        /\ UNCHANGED faults
     \/ /\ Fault("db")
        /\ task' = [task EXCEPT ![t] = IdleTask]
  /\ UNCHANGED <<rows, initVars, edit, importVars>>

CreateDevice(t) ==
  /\ task[t].pc = "create"
  /\ \/ /\ Create(task[t].sn)
        /\ EndInform(t, [id |-> Len(rows) + 1, row |-> NewRow(task[t].sn)])
        /\ UNCHANGED faults
     \/ /\ Fault("db")
        /\ task' = [task EXCEPT ![t] = IdleTask]
        /\ UNCHANGED rows
  /\ UNCHANGED <<initVars, edit, importVars>>

-----------------------------------------------------------------------------
(* EventProcessor.triggerDeviceInit *)

\* Mutant of LockInit: SET in place of SET NX.
LockInitAnyway(t) ==
  /\ task[t].pc = "init"
  /\ initLock' = initLock \cup {task[t].got.id}
  /\ task' = [task EXCEPT ![t].pc = "mark"]
  /\ UNCHANGED <<rows, initLog, pushed, edit, importVars, faults>>

LockInit(t) ==
  LET i == task[t].got.id IN
  /\ task[t].pc = "init"
  /\ \/ /\ i \notin initLock
        /\ initLock' = initLock \cup {i}
        /\ task' = [task EXCEPT ![t].pc = "mark"]
     \/ /\ i \in initLock
        /\ task' = [task EXCEPT ![t] = IdleTask]
        /\ UNCHANGED initLock
  /\ UNCHANGED <<rows, initLog, pushed, edit, importVars, faults>>

\* Mutant of MarkInitialized: the row is updated, the log row comes later.
MarkBeforeLog(t) ==
  /\ task[t].pc = "mark"
  /\ rows' = [rows EXCEPT ![task[t].got.id].init = TRUE]
  /\ task' = [task EXCEPT ![t].pc = "push"]
  /\ UNCHANGED <<initVars, edit, importVars, faults>>

\* One transaction inserts the INIT_GPN row and updates is_initialized.
MarkInitialized(t) ==
  LET i == task[t].got.id IN
  /\ task[t].pc = "mark"
  /\ \/ /\ initLog' = initLog \cup {i}
        /\ rows' = [rows EXCEPT ![i].init = TRUE]
        /\ task' = [task EXCEPT ![t].pc = "push"]
        /\ UNCHANGED faults
     \/ /\ Fault("db")
        /\ task' = [task EXCEPT ![t].pc = "unlock"]
        /\ UNCHANGED <<rows, initLog>>
  /\ UNCHANGED <<initLock, pushed, edit, importVars>>

\* PutMessage of the GetParameterNames; an error is logged.
PushInit(t) ==
  /\ task[t].pc = "push"
  /\ \/ pushed' = pushed \cup {task[t].got.id} /\ UNCHANGED faults
     \/ Fault("push") /\ UNCHANGED pushed
  /\ task' = [task EXCEPT ![t].pc = "unlock"]
  /\ UNCHANGED <<rows, initLock, initLog, edit, importVars>>

\* DEL of the lock key, whoever set it.
UnlockInit(t) ==
  /\ task[t].pc = "unlock"
  /\ initLock' = initLock \ {task[t].got.id}
  /\ task' = [task EXCEPT ![t] = IdleTask]
  /\ UNCHANGED <<rows, initLog, pushed, edit, importVars, faults>>

InInit(t) == task[t].pc \in {"mark", "push", "unlock"}

\* The lock expires after 60 seconds: before its holder is done with it (a
\* fault), or after its holder died.
OrphanLockExpires(i) ==
  /\ i \in initLock
  /\ \A t \in Task : InInit(t) => task[t].got.id # i
  /\ initLock' = initLock \ {i}
  /\ UNCHANGED <<rows, task, initLog, pushed, edit, importVars, faults>>

HeldLockExpires(i) ==
  /\ i \in initLock
  /\ \E t \in Task : InInit(t) /\ task[t].got.id = i
  /\ Fault("lockTTL")
  /\ initLock' = initLock \ {i}
  /\ UNCHANGED <<rows, task, initLog, pushed, edit, importVars>>

-----------------------------------------------------------------------------
(* Operators: device.Handler *)

OperatorCreate(s) ==
  /\ "create" \in Ops
  /\ Create(s)
  /\ UNCHANGED <<task, initVars, edit, importVars, faults>>

\* An edit is a GET, whose row the client changes, and a PUT of all of it.  It keeps
\* the columns of a Row, which are not the client's to change.
OperatorRead(i) ==
  /\ "edit" \in Ops
  /\ edit = None
  /\ i \in Live
  /\ edit' = CopyOf(i)
  /\ UNCHANGED <<rows, task, initVars, importVars, faults>>

OperatorSave ==
  /\ edit # None
  /\ edit' = None
  /\ Save(edit) \/ UNCHANGED rows
  /\ UNCHANGED <<task, initVars, importVars, faults>>

\* A PUT of any body under any id: nobody need have read the row.  Save writes every
\* column, "deleted" with them, and inserts the row when no row has that id.  A body may
\* claim an initialization that did not take place: "claim" says whether some do.
OperatorPut(i, body) ==
  /\ "put" \in Ops
  /\ body.init => "claim" \in Ops
  /\ \/ /\ i \in DOMAIN rows
        /\ rows' = [rows EXCEPT ![i] = body]
     \/ /\ i = Len(rows) + 1 /\ i <= MaxRow
        /\ rows' = Append(rows, body)
  /\ UNCHANGED <<task, initVars, edit, importVars, faults>>

\* Mutant of OperatorDelete: the row is removed.
OperatorRemove(i) ==
  /\ "delete" \in Ops
  /\ i \in Live
  /\ rows' = [rows EXCEPT ![i] = None]
  /\ UNCHANGED <<task, initVars, edit, importVars, faults>>

OperatorDelete(i) ==
  /\ "delete" \in Ops
  /\ i \in Live
  /\ rows' = [rows EXCEPT ![i].deleted = TRUE]
  /\ UNCHANGED <<task, initVars, edit, importVars, faults>>

-----------------------------------------------------------------------------
(* device.Service.ImportDevices *)

\* A file names each serial number at most once.  The lock is taken or the
\* import is refused.
ImportLock(m) ==
  /\ import[m].pc = "idle"
  /\ ~importLock
  /\ importLock' = TRUE
  /\ \E S \in SUBSET Sn \ {{}} : \E todo \in [S -> {"add", "modify", "delete"}] :
        import' = [import EXCEPT ![m].pc = "read", ![m].todo = todo]
  /\ UNCHANGED <<rows, task, initVars, edit, faults>>

\* One query for all serial numbers of the file; of two live rows with the same
\* serial number the last one is kept, and an error is not looked at.  The quota
\* does not refuse anything: it is read by scanning a row of several columns
\* into an integer, and an error there skips the check.
ImportRead(m) ==
  /\ import[m].pc = "read"
  /\ \/ /\ import' = [import EXCEPT
             ![m].pc = "rows",
             ![m].seen = [s \in Sn |-> IF s \in DOMAIN import[m].todo /\ LiveOf(s) # {}
                                       THEN CopyOf(Last(s)) ELSE None]]
        /\ UNCHANGED faults
     \/ /\ Fault("db")
        /\ import' = [import EXCEPT ![m].pc = "rows"]
  /\ UNCHANGED <<rows, task, initVars, edit, importLock>>

Remaining(todo, s) == [u \in DOMAIN todo \ {s} |-> todo[u]]

\* One row of the file, by what was read for its serial number.
ImportRow(m, s) ==
  LET op == import[m].todo[s]
      c  == import[m].seen[s] IN
  /\ import[m].pc = "rows"
  /\ s \in DOMAIN import[m].todo
  /\ import' = [import EXCEPT ![m].todo = Remaining(@, s)]
  /\ \/ op = "add" /\ c = None /\ Create(s) /\ UNCHANGED faults
     \/ op = "modify" /\ c # None /\ Save(c) /\ UNCHANGED faults
     \/ /\ op = "delete" /\ c # None /\ UNCHANGED faults
        /\ rows' = [rows EXCEPT ![c.id].deleted = TRUE]
     \/ (op = "add") = (c # None) /\ UNCHANGED <<rows, faults>>
     \/ Fault("db") /\ UNCHANGED rows
  /\ UNCHANGED <<task, initVars, edit, importLock>>

ImportEnd(m) ==
  /\ import[m].pc = "rows"
  /\ DOMAIN import[m].todo = {}
  /\ import' = [import EXCEPT ![m] = IdleImport]
  /\ importLock' = FALSE
  /\ UNCHANGED <<rows, task, initVars, edit, faults>>

\* The lock expires after 60 seconds, held or not.
ImportLockExpires ==
  /\ importLock
  /\ \/ (\A m \in Importer : import[m].pc = "idle") /\ UNCHANGED faults
     \/ (\E m \in Importer : import[m].pc # "idle") /\ Fault("importTTL")
  /\ importLock' = FALSE
  /\ UNCHANGED <<rows, task, initVars, edit, import>>

-----------------------------------------------------------------------------

\* The server dies and restarts; Redis and the database keep what they have.
Crash ==
  /\ Fault("crash")
  /\ task' = [t \in Task |-> IdleTask]
  /\ import' = [m \in Importer |-> IdleImport]
  /\ UNCHANGED <<rows, initVars, edit, importLock>>

Step(t) ==
  \/ SaveDevice(t) \/ CheckDeviceLimit(t) \/ CreateDevice(t)
  \/ LockInit(t) \/ MarkInitialized(t) \/ PushInit(t) \/ UnlockInit(t)

ImportStep(m) ==
  \/ ImportLock(m) \/ ImportRead(m) \/ ImportEnd(m)
  \/ \E s \in Sn : ImportRow(m, s)

\* A registry that nobody edits or imports into: devices, deletions, and what may
\* go wrong.
DeviceNext ==
  \/ \E t \in Task : Step(t)
  \/ \E t \in Task, s \in Sn : Inform(t, s)
  \/ \E i \in Id : OrphanLockExpires(i) \/ HeldLockExpires(i)
  \/ \E i \in Id : OperatorDelete(i)
  \/ Crash

Next ==
  \/ DeviceNext
  \/ \E s \in Sn : OperatorCreate(s)
  \/ \E i \in Id : OperatorRead(i)
  \/ OperatorSave
  \/ \E i \in Id, body \in Row : OperatorPut(i, body)
  \/ \E m \in Importer : ImportStep(m)
  \/ ImportLockExpires

Spec       == Init /\ [][Next]_vars
DeviceSpec == Init /\ [][DeviceNext]_vars

\* Handlers and goroutines run to their end, devices keep informing and are
\* served among others, and Redis expires the locks of the dead.
Fairness ==
  /\ \A t \in Task : WF_vars(Step(t))
  /\ \A s \in Sn : SF_vars(\E t \in Task : Inform(t, s))
  /\ \A i \in Id : WF_vars(OrphanLockExpires(i))

FairSpec == DeviceSpec /\ Fairness

-----------------------------------------------------------------------------
(* Properties *)

TypeOK ==
  /\ rows \in Seq(Row) /\ Len(rows) <= MaxRow
  /\ task \in [Task -> TaskState]
  /\ initLock \subseteq Id
  /\ initLog \subseteq Id
  /\ pushed \subseteq Id
  /\ edit \in Copy \cup {None}
  /\ import \in [Importer -> ImportState]
  /\ importLock \in BOOLEAN
  /\ faults \in 0..MaxFault

\* A row that says the device is initialized has the INIT_GPN log row that
\* starts its initialization: they are written in one transaction, and no
\* stale save of a whole row makes up the one without the other, unless the body of
\* a PUT claims it.
InitializedIsLogged == \A i \in DOMAIN rows : rows[i].init => i \in initLog

\* Informs that race exceed the device limit by less than their number, however
\* many devices are deleted and brought back by a save in the meantime, as long as
\* nobody edits the registry, which is not held to the limit.
OvershootIsBounded ==
  MaxDevices > 0 => Cardinality(Live) < MaxDevices + Cardinality(Task)

\* Somebody has read row i before it was deleted and may still save it.
HeldAlive(i) ==
  \/ \E t \in Task : task[t].pc = "save" /\ task[t].got.id = i
  \/ edit # None /\ edit.id = i
  \/ \E m \in Importer, s \in Sn :
       import[m].pc = "rows" /\ import[m].seen[s] # None /\ import[m].seen[s].id = i

\* A deleted device comes back only through a request that read its row before it
\* was deleted, or through a PUT of that very row: not through the Inform, import or
\* registration of any device, though they all write whole rows.
DeletedStaysDeleted ==
  [][\A i \in DOMAIN rows :
       rows[i].deleted /\ ~HeldAlive(i) =>
         rows'[i].deleted \/ \E body \in Row : OperatorPut(i, body)]_vars

\* Two goroutines never initialize the same device at the same time, as long as
\* the lock outlives its holder: each Inform of a device that is not marked yet
\* starts one more.
InitIsExclusive ==
  \A t, u \in Task :
    InInit(t) /\ InInit(u) /\ task[t].got.id = task[u].got.id => t = u

\* A device that keeps informing is marked initialized in the end, or deleted, in a
\* registry where nobody adds a second row for it: Informs find only one.
EventuallyInitialized ==
  \A i \in Id : i \in Live ~> i \notin Live \/ rows[i].init

\* A device is marked initialized after its parameters are loaded, for which
\* they must have been asked for first.
MarkedWhenAsked ==
  [][\A i \in DOMAIN rows : ~rows[i].init /\ rows'[i].init => i \in pushed]_vars

\* An import adds a device only if no live row has its serial number when it
\* does: a serial number that already exists is skipped, under a lock that is
\* there to prevent races.
ImportAddsNew ==
  [][\A m \in Importer : \A s \in DOMAIN import[m].todo :
       import[m].pc = "rows" /\ s \notin DOMAIN import'[m].todo /\ Len(rows') > Len(rows)
         => LiveOf(s) = {}]_vars

=============================================================================
