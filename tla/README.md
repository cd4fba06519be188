# Formal verification of nmsappsrv

nmsappsrv is the application server of a network management system: it talks
TR-069 (CWMP) to base stations and CPEs over HTTP, keeps what it knows of them
in MySQL, uses Redis for queues, locks and notifications, and offers REST and
WebSocket interfaces to operators.  This directory holds TLA+ models of the
parts of it that several actors share, the TLC runs that check them on small
instances, and proofs that the TLA+ proof system (TLAPS) checks for all of
them.

To run one model: `tlc -workers 2 -config channel.cfg MCCommandChannel`; to
check the proofs: `tlapm CommandChannel_proofs.tla`, and likewise for the
seven other `*_proofs` modules.

| Part of the system | Model | Instance, configurations | Proofs |
|---|---|---|---|
| Command channel | `CommandChannel`, implements `LossyFifo` | `MCCommandChannel`, `channel*.cfg` | `CommandChannel_proofs`, `CommandChannelOrder_proofs` |
| Registry, initialization | `DeviceRegistry` | `MCDeviceRegistry`, `registry.cfg`, `registry_live.cfg`, `registry_race.cfg`, `registry_mark.cfg` | `DeviceRegistry_proofs` |
| Live rows of a serial number | `DeviceSerials`, extends `DeviceRegistry` | `MCDeviceSerials`, `registry_edits.cfg` | `DeviceSerials_proofs` |
| Alarms, offline worker | `DeviceAlarms` | `MCDeviceAlarms`, `alarms.cfg` | `DeviceAlarms_proofs` |
| Tasks, upgrade worker | `DeviceTasks` | `MCDeviceTasks`, `tasks.cfg` | `DeviceTasks_proofs` |
| Zero-touch provisioning | `ZtpProvision` | `MCZtpProvision`, `ztp*.cfg` | `ZtpProvision_proofs` |
| WebSocket hub and bridge | `WebSocketHub` | `MCWebSocketHub`, `hub.cfg` | `WebSocketHub_proofs` |

## 1. Inventory

Paths are under `src/`; `tr069/` is short for `internal/tr069/` and so on.

### Command channel (`tr069/acs.go`, `message_manager.go`, `operation_sender.go`, `event_processor.go`, `event_response.go`, `parameter/service.go`, `parameter/scheduler.go`)

- State: the Redis list `tr069:queue:<sn>` of each device, the `event_log` row
  of each command (status, `command_track_data` with the cwmp:ID), the
  parameter table with its lock `red_lock_add_parameter_names_<id>`, and for
  each device the CWMP session (the `SN` cookie and what the device holds).
- Operations: producers insert a row and LPUSH the SOAP message; HTTP handlers
  answer an Inform, pop (RPOP) a command for an empty post, and process a
  result before they pop the next command.
- Interactions: services call `OperationSender` or push on their own; a result
  finds its row again only by the cwmp:ID; `GetParameterValues` results and
  VALUE CHANGE Informs write the parameter table under one lock.
- Hard: commands popped for a device that has gone; a handler still processing
  the result of a cut session while the next session runs; pushes and pops sent
  twice by the Redis client; rows that were never inserted; crashes between row
  and push; locks that expire, or that are deleted by someone else's `Unlock`.
- Correct when: commands reach a device in order and at most once per stored
  entry; a row speaks of an answer only if that command was delivered to its
  device; success means the values were written; lists drain.

### Device registry (`tr069/event_processor.go`, `event_helpers.go`, `device/service.go`, `repository.go`, `handler.go`)

- State: the rows of `cpe_element` (serial number, `deleted`,
  `is_initialized`, ...), the device limit, the import lock
  `nms_add_device_lock`.
- Operations: an Inform creates or saves a row; operators create, edit (GET and
  PUT of a whole row, or a PUT of any body) and soft-delete; an Excel import
  adds, modifies, deletes.
- Hard: everyone saves whole rows read some steps earlier, and a PUT need not
  have read any; `serial_number` has no unique index; the limit is counted before
  the insert; the import decides by one query at its start.
- Correct when: one live row per serial number and one more at most for each that
  was made in doubt, a bounded overshoot of the limit, no deleted row revived
  except by a request that read it before or a PUT of that very row.

### Device initialization (`tr069/event_init.go`)

- State: `device:init_lock:<id>`, `is_initialized`, the `INIT_GPN` event_log
  row, the pushed `GetParameterNames`.
- Operations: a goroutine per Inform of an uninitialized device takes the lock,
  writes row and mark in one transaction, pushes, unlocks.  The answer starts a
  second stage of `GetParameterValues`.
- Hard: many goroutines for one device; failures between mark and push; stale
  saves that revert the mark; a lock without owner.
- Correct when: one initialization at a time, a marked device has its log row,
  a device that keeps informing is marked in the end.

### Alarms (`alarm/service.go`, `repository.go`, `notifier.go`, `tr069/offline_worker.go`, `event_inform.go`, `parammonitor/threshold.go`, `snmp/receiver.go`, `restapi/`)

- State: alarm rows with a status (1 active, 2 cleared, 3 active and
  acknowledged, 4 cleared and acknowledged, and 0, which only the offline worker
  and the northbound interface write) and a type (1 active, 2 history, 4 from
  the threshold checker), two online keys per device, the deduplication key of
  a threshold.
- Operations: alarm events raise and clear, the offline worker raises and clears
  every 5 seconds and announces changes, operators clear, confirm and unconfirm,
  the northbound interface clears, thresholds and traps raise.
- Hard: read-then-write of the status against a clear; find-then-create; the
  worker uses a status that operators do not write; the announcement and the
  deduplication key come after the row.
- Correct when: a row never looks cleared and counts as active, only a race
  makes a cleared alarm look active, one active alarm per cause, every outage is
  raised, every recovery cleared, and the last announcement is true.

### Upgrade, rollback, reboot and reset tasks (`upgrade/`, `reboot/`, `reset/`)

- State: task rows, log rows (`upgrade_log` or `event_log`), the lists
  `queue:upgrade` and `operation_queue`, a start lock and a cancel lock.
- Operations: create (which may start at once), start (read the status, lock,
  save the whole row, make a log and push a message for each entry of the list of
  devices), cancel, delete, and the worker that pops a message and sends the
  Download.
- Hard: the status is read before the lock and not again; a device may be on the
  list twice; start and cancel use different locks; messages lost by a stopping
  worker; errors that leave the command where it is; deleted devices and files.
- Correct when: one request starts a task, each entry of its list is dispatched
  once and its Download sent once, a cancelled task stays cancelled, a log tells
  the truth of its Download and is settled in the end.

### Zero-touch provisioning (`tr069/ztp_worker.go`, `misc/ztp_service.go`, `event_inform.go`)

- State: `queue:ztp`, the rows of `ztp_log` (progress, done, fault) and
  `ztp_retry_log`, the attempt a device is at work on.
- Operations: a request enqueues; the worker makes a row, sends the parameters
  and notes that they were sent; the device reports stages and a result, which
  the server files under the attempt that is open.
- Hard: the note "sent" comes after the command; results name no attempt; two
  requests for one device; a row and its line in the history are two writes.
- Correct when: a success is one the device reported for that attempt, shows as
  complete and stays; every end is in the history; attempts end.

### WebSocket hub and bridge (`websocket/`)

- State: the client map under an RWMutex, a bounded channel per client, the
  register, unregister and broadcast channels, two pumps per client.
- Operations: the loop registers, unregisters and broadcasts; the bridge serves
  subscribers of a topic; pumps read and write.
- Hard: close of a channel against a send; unbuffered channels against the lock;
  a slow client that is dropped while it is still running; the loop over the
  clients that starts again.
- Correct when: nobody sends on a closed channel or closes one twice, messages
  arrive in order and once, whoever has gone leaves.

### Other components

| Component | State and operations | Hard behaviour | What makes it correct |
|---|---|---|---|
| MML and batch configuration (`mml/`, `misc/batch_service.go`) | a Redis queue, result rows, `mml:uid:` keys; a worker; batch tasks started without a lock | popped messages lost by a stop; results by UID; two starts | each command gets one result |
| Parameter templates, batches, scheduled collection (`parameter/`) | event_log rows, the command channel | a third kind of producer | as the command channel |
| Parameter monitoring (`parammonitor/`) | thresholds, deduplication keys, alarms | the key is set after the alarm is created | one alarm per violation |
| STUN (`tr069/stun.go`) | cached addresses | none between actors | parsing |
| SOAP, signatures, HTTP authentication (`tr069/soap/`, `tr069/auth/`) | none | none | parsing, cryptography |
| Backups (`nmsbackup/`, `misc/bsbackup_service.go`) | files, a status column | a process killed half-way | files exist for rows |
| Performance files (`pm/`, `pmfile/`) | files, counters | one goroutine | parsing |
| SNMP (`snmp/`) | sockets, a VIP flag | lost traps | delivery while VIP |
| High availability (`ha/`) | `cachedVIP` | the cache is updated even when the publish failed | subscribers agree with the monitor |
| Users and login (`user/`, `middleware/`, `mail/`) | the latest token per user, verification codes | a second login, a code used twice | one session per user |
| Licenses, tenants (`license/`, `tenancy/`) | quota columns | the quota query fails and is skipped | counts within quota |
| Northbound REST (`restapi/`) | none of its own | its alarm clear is another writer of the status | as the services it calls |
| Lifecycle (`cmd/main.go`, `pkg/shutdown/`, `scheduler/`) | the list of workers | stop while a message is being processed | reverse order, each once |
| Screens (`site/`, `topology/`, `dashboard/`, ... ) | tables of their own | none between actors | CRUD |
| Shared packages (`pkg/`) | none | locks without owner, whole-row saves | modelled where used |

PROJECT.json lists every component with its status and every hazard with its
line and the property that covers it.

## 2. Plan

Built, in this order: `CommandChannel` with `LossyFifo` and its proofs;
`DeviceRegistry` (registry and initialization together, because stale saves
couple them); `DeviceAlarms`; `DeviceTasks`; `ZtpProvision`; `WebSocketHub`; the
scheduled collection as a further producer of `CommandChannel`; the proofs about
the other modules; the proof that `CommandChannel` implements
`LossyFifo`, and the invariants that count (alarms, device limit, serial numbers,
history of the provisioning); `DeviceSerials`, which counts the live rows of a
serial number against the looks that could not be relied on.

What would come next:

1. The second stage of the initialization and `TransferComplete` in
   `CommandChannel`.
2. The MML queue and the batch tasks of `misc/batch_service.go`, in the manner of
   `DeviceTasks`.
3. The login token, the VIP monitor.

The modules meet at two places.  `DeviceTasks` and `ZtpProvision` put commands
into the channel of a device and see of it what `CommandChannel` guarantees of a
put: it is stored, or an error is reported and it may be stored all the same
(`SendDownload`, `SendParameters`).  And the online key of a device, which
`DeviceAlarms` starts from, is set by the Informs that `CommandChannel` and
`DeviceRegistry` follow further.

## 3. Models

### CommandChannel

| Variable | Code |
|---|---|
| `stage[c]` | how far the goroutine issuing `c` has got: `SendGetParameterValues` and the like, `SetParameter` and the like, or a round of the scheduled collection |
| `row[c]`, `tracked[c]` | status of the event_log row, and whether its `command_track_data` holds the cwmp:ID |
| `queue[d]`, `pushes[d]` | `tr069:queue:<sn>`; a history count that numbers the pushes |
| `lock[d]` | `red_lock_add_parameter_names_<id>` |
| `req[x]` | an HTTP request being served, its `pc` naming the next step of the handler |
| `conn[d]`, `sess[d]`, `exec[d]` | the device: the request it waits for, whether it has the `SN` cookie, the command it holds |
| `saved[c]` | what became of the values reported for `c` in `element_basic_info_parameter` |
| `strays` | results inserted as rows of their own because no tracking row was found |
| `delivered[d]` | history: the list entries the device received |

Actions follow the handlers step by step, one action for each access to Redis
or the database: `SenderTrack`, `ServiceTrack` or `ScheduledTrack`, which differ
in what a failed insert leads to, `PutMessage`, then `Inform`,
`Poll` and `Respond` of the device, `Lookup`, `LockParameters`,
`SaveParameterValues`, `UnlockParameters`, `Record`, `GetMessage`, `Reply` of a
handler.  A handler never notices that its device has gone (`Cut`): it goes on
and its answer reaches nobody, which is why a request is more than a step.
Faults are database and Redis errors where the code handles them, a command
sent twice by the client (`PutResend`, the last disjunct of `GetMessage`),
expiring keys, cut sessions and crashes.  All of them are drawn from one budget
`MaxFault`.  Templates, parameter backups, presets and live queries of the
parameter packages issue their commands in the steps of `ServiceTrack`, and the
read-back of a VALUE CHANGE in those of `SenderTrack`.

Abstractions: a SOAP message is its command; a report is a verdict
(`Verdicts`): success, an error of the device's answer, a fault, for a
`SetParameterValues` the status 1 that reads "pending", and for a kind of answer
that `ProcessResult` does not handle none at all, upon which the row is saved
with the status it was read with; a result without any values is left out (it is
a success with nothing to store).  The
device posts one request at a time and reports a command again only after a
session that was cut.

### LossyFifo

What a device may rely on: entries arrive in the order they were put, none
twice, any may be lost.  `CommandChannel` implements it with the channel being
the entry popped for the request the device waits on, followed by the list.

### DeviceRegistry

| Variable | Code |
|---|---|
| `rows` | `cpe_element`: serial number, `deleted`, `is_initialized`; the index is `ne_neid` |
| `task[t]` | an Inform in `ProcessInform` and then the goroutine of `triggerDeviceInit`; `got` is the `CpeElement` in hand |
| `initLock`, `initLog`, `pushed` | `device:init_lock:<id>` keys, INIT_GPN rows, pushed `GetParameterNames` |
| `edit` | the row an operator has read and will PUT; a PUT that follows no GET is `OperatorPut` |
| `import[m]`, `importLock` | an import with what its one query returned, and `nms_add_device_lock` |

One action for each database or Redis access, as above.  The goroutine of the
initialization runs in the slot of its Inform, so that a device may have as
many of them as there are tasks.  The quota check of an import never refuses:
`GetLicenseQuota` scans a whole license row into an integer, fails, and the
caller skips the check.  Of two live rows the import sees the last one, which
is the order of the primary key in which MySQL returns an unordered query here.
`Ops` says what operators may do: "put" is the PUT of any body under any id,
which updates every column or, when no row has the id, inserts one; its body says
that the device is initialized only if "claim" is in `Ops` too.

`DeviceNext` has the steps of devices, server and Redis, with deletions, and `Next`
adds creating, editing and importing.  `registry` and `registry_live` run the former
(`DeviceSpec`): edits and imports are not held to the device limit, and a second row
they may add for a device is one that no Inform finds and nobody initializes.

### DeviceSerials

`DeviceRegistry` with one more variable, the history `unsure[s]`: how often a live
row of serial number `s` was made, or decided on, in doubt since it last had one
at most and nobody was about to write one.  In doubt is an Inform or an import
that finds none while somebody else may still write one, an import whose query
failed, and every POST, or PUT of a row that is not live, of a serial number that
is taken: they do not look.

### DeviceAlarms

| Variable | Code |
|---|---|
| `online`, `dash` | the keys `device:online:<sn>` and `online_<id>` |
| `alarms` | the alarm table; a row has a cause, a device, a status and a type |
| `told[d]` | the last message about `d` on `device:status:change` |
| `worker` | the pass of `OfflineWorker.checkAllDevices`, a device and the step it is at |
| `handler[h]` | an alarm event in `handleAlarmGenerated`, with the row it found |
| `ack` | a `ConfirmAlarm` or `UnconfirmAlarm` with the row it read |
| `checker`, `dedup` | `createAlarmFromViolation` and its deduplication key |
| `raced`, `done` | history: rows an acknowledgement wrote over a change; moves made |

All writers of the table are there, one action for each statement: the worker
looks, inserts or updates, announces and drops a key; alarm events look and then
insert or update; operators clear one or many rows, and acknowledge in two
steps; the northbound interface clears; thresholds and traps insert.  One alarm
identifier per device and one rule with one device stand for all of them.

### DeviceTasks

| Variable | Code |
|---|---|
| `kind`, `status` | the task's table and the status column of its row |
| `elementIds` | the list of its devices, in order; a device may be on it twice, for the ids of groups are appended as they are |
| `req[r]` | a request creating, starting or cancelling the task, with the place on the list it dispatches to next |
| `startLock`, `cancelLock` | `<kind>_task_start_<id>`, `<kind>_task_cancel_<id>` |
| `logs` | the log rows: place on the list, device, `is_downloaded`, `is_done`, `success` |
| `queue`, `worker` | `queue:upgrade` or `operation_queue`, and the message the upgrade worker has in hand |
| `sent` | Downloads put into the command channel of a device |
| `hasFile`, `deleted` | is the upgrade file there; devices deleted meanwhile |
| `overlap`, `faults` | history: two starts past the status at a time; faults |

The four kinds of task share their code line by line, but for what the guards
on `Worked` tell apart: upgrades and rollbacks have a worker and a cancel with a
lock and a condition, reboots and resets skip blacklisted devices, give a device
in upgrade a row that reports the failure and no message (`RefuseInUpgrade`), are
cancelled by saving the whole row, and end in a list that nothing in this
repository reads.  A message may be stored twice by the client, and a Download
as well.

### ZtpProvision

| Variable | Code |
|---|---|
| `queue`, `asked` | `queue:ztp`, requests so far |
| `logs` | `ztp_log` |
| `filed` | the attempts that have a row in `ztp_retry_log`; rows about no attempt are left out |
| `worker` | the message `ZTPWorker.handleProvision` has in hand |
| `handler[h]` | a startup result in `handleStartupResult`, with the open row it found |
| `sent`, `answer[i]` | attempts whose parameters were sent; what the device reported of them |
| `overlap`, `late`, `faults` | history: two attempts at a time; attempts marked as sent after they were closed; faults |

The push of a request may be stored twice, or reported as an error although it is
stored.  A result whose device or whose open attempt cannot be looked up is
dropped, and the attempt stays open.

### WebSocketHub

| Variable | Code |
|---|---|
| `clients`, `send[c]`, `broadcast` | `hub.clients` and the channels, open or closed |
| `hub` | where `Hub.Run` is, with whom it has still to serve |
| `topic` | where the bridge is in `BroadcastToTopic`, holding the read lock |
| `reader[c]`, `writer[c]` | the pumps of a client, from `ServeWS` on; the read pump ends with the connection (`ReadFails`), or on a message that is too long or malformed and on a pong that did not come, while the connection still takes writes (`ReadRefused`) |
| `up` | connections that are neither broken nor closed |
| `published`, `called`, `got[c]` | messages of the two sources, and what a browser has received |
| `panicked` | history: a send to a closed channel, or a second close |

The lock is modelled by who may enter: `MayReadLock` and `MayLock`, where a
waiting writer keeps new readers out, as Go's RWMutex does.  The iteration over
the map is a set of clients left to serve, in any order.

## 4. Runs

| Run | Question | Bounds |
|---|---|---|
| `channel` | order, truth of rows, refinement, draining | one device, a GPV command of `OperationSender` and another of the parameter service, two handlers, two faults of any kind |
| `channel_lock` | are reported values stored in the end? (violated) | one cut session |
| `registry` | limit, exclusion | three devices, two tasks, limit 1, deletions, one fault among database, push, crash |
| `registry_live` | initialized in the end | two devices, two tasks, limit 1, deletions, one fault among database, push, lock expiry, crash |
| `registry_edits` | do stale saves make up a mark that was not logged; how many live rows a serial number has; who brings a deleted row back | one device, two rows, two tasks, an import, an operator who creates, edits, puts any body that claims no initialization, and deletes; one fault among overlapping Informs, import lock expiry, database |
| `registry_race` | does an import add what exists? (violated) | one device, one task, one import |
| `registry_mark` | is a device marked after it was asked? (violated) | one device, one task |
| `alarms` | what an alarm shows, how often it is raised, whether outages and recoveries are noticed and announced | one device, two alarm events at a time, any three moves or faults |
| `tasks` | who starts a task, what is dispatched and sent how often, what a log says, whether logs settle | upgrade, rollback and reboot; a list of two devices, or of one device twice; two requests, one fault |
| `ztp` | whose result closes an attempt, what is shown and filed of it, whether attempts end | two requests for the device, two results at a time, one fault |
| `ztp_atomic` | is a failed attempt closed together with its line? (violated) | the same |
| `hub` | closed channels, order, whether who has gone leaves | two clients, channels of capacity 1, one message of the bridge and two of the callback list |

Why the bounds suffice.  Devices share nothing in the channel but the handlers,
and every property is about one device, so one device with two commands and two
concurrent requests shows every pair of steps; a third request on a device
needs a second cut session.  Two faults allow a fault in the handling of a
fault, such as a cut session followed by an expired lock.  In the registry two
tasks give every race of two; three devices with a limit of one make the
overshoot reach its bound.  A crash in the middle of an import, after which
its lock expires, would make `registry_edits` three times as large; the theorems about
its properties include it.  In `alarms` a move is anything but an Inform, a step
of the worker or of a request in progress, and three of them make an outage and
what an operator makes of it, or two alarm events and an acknowledgement; the
worker itself runs on without a bound.  The devices of a task and the clients of
the hub are alike, so that two of them show all there is between them; a
channel of capacity 1 is full as soon as a pump is slow, which capacity 256
hides in tests.  A reset differs from a reboot only by its table.
`CHECK_DEADLOCK FALSE` is set everywhere: when the fault and row budgets are
spent, the environment may really stop.

Some properties hold with a count, because the code has nothing that would keep
the plain promise.  The count names what it costs:

- `UniqueSerial`: one live row per serial number, and one more for each doubt
  (`unsure`).  In a registry where nobody makes a row in doubt it is one; in
  `registry_edits` there are two by overlapping Informs, by an import, by a POST or
  by a PUT, and `registry_race` shows the import.
- `DispatchedOnce`: one row per entry of the list of a task, and one more per
  failed save of the status; where two starts have been past the status at a
  time, no more than one per request.
- `SentOnce`: one Download per row, and one more per LPUSH that the client sent
  twice.
- `EveryEndIsFiled`: a success is in the history always, for its two writes are one
  transaction.  A failed attempt is in it too, but for one per write that failed
  and those a crash caught between the two; it counts attempts, so that no line
  stands in for that of another attempt.  `ztp_atomic` shows the missing one.

`InitIsExclusive` is checked without the expiry of a held lock, for
the lock promises nothing beyond its 60 seconds.

Fairness.  `Serve(x)` of a handler and `Step(t)` of a task are weakly fair:
goroutines run.  A device that can post does so again and again (periodic
Informs, and the session goes on until it is closed): weak fairness of `Ask` for
each device.  In the registry the Inform of each device is strongly fair,
because a device competes for the task slots, of which the real server has no
limit.  A lock whose holder is gone expires: weak fairness.  Producers,
operators, imports and faults are not fair.  The offline worker, the upgrade and
ZTP workers, the loop and the pumps of the hub are goroutines that run until the
server stops: weak fairness, and likewise of requests that have begun.  That a
device answers a provisioning is assumed (weak fairness of a first `Report`),
and `AttemptsEnd` promises nothing otherwise.  `LogsSettle` and `AttemptsEnd` are
stated for behaviours in which nothing is lost, for the code has no step that
makes up for a lost message.  The loop of the hub chooses among those that wait
for it as it likes; they are finitely many.

What the violations show, with the lines that say otherwise, is under
"findings" in PROJECT.json:

- values that find the parameter lock taken are dropped although the log says
  "will retry";
- the import lock does not exclude auto-registration, so an import can add a
  serial number that exists;
- a device is marked initialized before its parameters are asked for, and stays
  so when the push fails;
- the update of a failed provisioning and its line in the history, "atomic" by the
  comment, are two writes whose errors are ignored.

Further observations the models make visible, of which no line of the
repository promises the contrary:

- `event_log` status 0 of a `GetParameterValues` does not say that the values are
  in the database; `saveParameterValues` logs a failed upsert and goes on
  (`saved[c] = "lost"`).
- The Status of a `SetParameterValuesResponse` is stored in the status column as it
  stands (`tr069/event_response.go:232`), where 1 means pending
  (`operation_sender.go:471`): `Verdicts` has it.
- A PUT under an id that has no row makes a device, and one of a deleted row brings
  it back, although the interface is documented to update an existing device
  (`device/handler.go:110`).
- An outage that an operator has cleared, to status 2 or 4, is "active (uncleared)"
  to the offline worker (`tr069/offline_worker.go:125`): the next one raises no alarm
  (`OutageIsRaised` excepts it).
- Two starts that both read a task as waiting dispatch it one after the other: the
  status is not read again under the lock (`DispatchedOnce` counts it by `overlap`).
- An outage that the northbound interface clears ends unannounced (`LastWord`).
- A confirmation that races a clear makes a cleared alarm look active, and an
  acknowledged outage opens again behind which the next one hides (`raced`).
- A start or a cancel that read a task before it was cancelled or deleted brings
  it back when it saves the whole row (`CancelledForGood` excepts requests in
  progress).
- The Download for a device that was deleted goes to the list of the empty serial
  number, and its log says downloaded (`DownloadIsReal`).
- `TransferComplete` and UPGRADE FINISH look for a log by `command_track_id`, which
  no code sets: no successful upgrade is ever marked as done.
- A provisioning that the worker gives up is closed with progress 6, which
  `FindZTPResults` (`misc/repository.go`) shows as a success; a late note "sent"
  writes progress 3 over a 6 (`late`).
- A startup result is filed under any open attempt (`SuccessIsOwn` needs attempts
  that do not overlap); without one, a success leaves nothing in the history,
  a failure leaves a line.
- A PUT takes `is_initialized` from its body, and may claim an initialization that
  never began (`InitializedIsLogged` is checked for PUTs that do not).
- `web_callback` messages of Informs are published on a channel, while the bridge
  takes them from a list, `queue:web_callback`.

## 5. Proofs

Eight modules hold proofs.  Each proves, for every value of the constants that
the model's assumption admits (any sets of devices, requests, handlers or
clients, any bounds and any budget of faults), that a strengthened invariant
holds initially and is kept by every step; the theorems follow from it.  Every
safety invariant and every action property that a passing run checks is stated
by a theorem.

The sets of requests in progress are assumed to be finite where a property
counts them (`RegistryAssumption` for tasks, `ZtpAssumption` for handlers,
`TasksAssumption` for what it counts): a server never has more of them than
requests have arrived.  Three theorems about the registry, `MarkIsLogged`,
`OneInitializes` and `OvershootBounded`, have hypotheses, named below with the
reason.

`CommandChannel_proofs`: `TypeCorrect`, `ResultsAreReal` (`NoPhantomResult`) and
`SuccessIsSaved` (`SuccessMeansSaved`).  `NoPhantomResult` is not inductive by
itself: that a result is recorded only for a delivered command rests on where
the result comes from.  `IInv` says so link by link: list entries and popped
entries are addressed to the device in whose list they are (`Addressed`); what a
device holds was delivered to it (`Held`); the command a request reports was
delivered (`Reported`); a request past the save has its values dealt with
(`Stored`); a request being served has the fields its next step reads (`Busy`).

`CommandChannelOrder_proofs`: `OrderIsKept` (`InOrder`) and `ChannelIsLossyFifo`
(`ImplementsLossyFifo`), the refinement.  What a device received, the entry
popped for the request it waits for and its list form one line, in which the
push numbers increase and stay below `pushes` (`Ordered`).  Every step appends
the next number to the line, moves its boundary by one, or drops elements of it;
what is left of an increasing line by dropping increases.  Two facts about the
connection are needed (`Connected`, `Carried`): a device waits for a request of
its own that is still being served, and only a request at its last step carries
an entry.  Without the first a device that was cut off could be given the entry
of another.  The refinement is read off the same case split: a push is `Put`, an
answer that arrives is `Take`, the rest is `Lose` or a stutter.  A command whose
LPUSH the client sends twice is two entries, each with a number of its own: what
is never repeated is an entry, not a command.

`DeviceRegistry_proofs`: `TypeCorrect`, `MarkIsLogged` (`InitializedIsLogged`),
`DeletedForGood` (`DeletedStaysDeleted`) and `OneInitializes`
(`InitIsExclusive`).  The invariant speaks of all copies of rows at once: what a
task, an edit or an import has in hand is a row that exists.  `MarkIsLogged` adds
that it claims no more than was logged; it assumes that no PUT claims an
initialization ("claim" is not among `Ops`), for a body that does is taken at its
word.  `DeletedForGood` has no such hypothesis: it
is stated for PUTs of any body too, and says that the only other way back is a
PUT of the deleted row itself.  `OneInitializes` assumes that a held lock does not
expire, as the run does; its invariant says that a goroutine past the lock finds
the key set.  `OvershootBounded` (`OvershootIsBounded`) counts three things
together: live rows, tasks past the limit check that will insert, and deleted rows
that a stale save will bring back.  Their sum stays below the limit plus the
number of tasks: a task that passes the check has seen room and was not counted,
and one that revives a row read it alive.  It holds with overlapping Informs and
every fault, for a registry that operators only delete from and into which
nothing is imported (`Unattended`): creating, editing and importing are not held
to this limit.

`DeviceSerials_proofs`: `SerialIsUnique` (`UniqueSerial`), without hypotheses:
Informs of a device may overlap, imports run, operators put any body under any
id.  The invariant counts for each serial number the live rows together with
everything that may become one: tasks that will insert, deleted rows that
somebody will save back alive, entries an import will add.  A step that does not
doubt moves an element of this sum from one place to another or drops it; a step
that adds one is the first, or is counted in `unsure`; and `unsure` is set to 0
only when the sum is 1 at most.

`DeviceAlarms_proofs`: `TypeCorrect`, `ActiveShowsActive` (`ActiveLooksActive`),
`OnlyRaces` (`OnlyRacesResurrect`), `HistoryForGood` (`HistoryStays`).  What has
to be added is what the two-step writers hold: a handler that will clear has a
row of its device in hand (`DeviceInHand`, `ClearInHand`), and an
acknowledgement carries a next status that fits the row as it was read, which
was history if the next status is a cleared one (`AckInHand`).  `ActiveOnce`
(`OneActiveAlarm`), `OutageOnce` (`OneOutage`) and `BreachesPaced`
(`ThresholdIsPaced`) count what is raised with what is about to be: a handler or
the worker that has looked and found nothing is a row already (`Raising`,
`Creating`), and a checker that has inserted has used up the key it is going to
set (`Paid`).  Each look that may be wrong is paid for by a fault or an overlap
when it is made, and the insert is free.  An acknowledgement adds to no count:
it writes the status and leaves the type alone, and an outage that it opens
again is in `raced` (`ReadInHand`).

`DeviceTasks_proofs`: `TypeCorrect`, `OneStarts` (`StartIsExclusive`),
`OneDispatch` (`DispatchedOnce`), `OneDownload` (`SentOnce`), `HonestFailure`
(`FailureIsHonest`), `RealDownload` (`DownloadIsReal`) and `CancelStands`
(`CancelledForGood`).  Five arguments on top of the types.  Counting locks: the
requests that took the start lock are no more than the lock, if it is set, and
the locks that expired under their holders.  Copies (`FewCopies`): what a row has
of requests about to push it, messages in the list and in the worker's hand, and
Downloads sent is one, and one more for every LPUSH that was sent twice.  Tokens,
while no command is sent twice or with an error: a log row is in a request's
hand, or once in the list, or in the worker's hand, or past it, and only in the
first three is nothing sent for it.  Rounds (`Round`): at each place of the list,
the rows made and those that a request at work has still to make are within what
`DispatchedOnce` allows (`WithinLimit`); while the task still waits, only a save
that failed has let anybody make a row (`PaidFor`); and nobody begins while the
request that created the task is at work (`FirstRequest`).  And for the cancel: no
request in progress is about to start the task, and nobody can begin to.

`ZtpProvision_proofs`: `TypeCorrect`, `OwnSuccess` (`SuccessIsOwn`),
`ShownSuccess` (`SuccessIsShown`), and `ClosedAttemptsStay` (`ClosedStays`),
which no run checks: an instance of it, a success that is overwritten, is what
`SuccessIsShown` is about.  The invariant numbers rows and messages against
requests (`Counted`) and says, while attempts do not overlap, that the row a
result has found is the one the device reported on (`FoundOwn`, `InTurn`).
`EndsAreFiled` (`EveryEndIsFiled`) is about the set of closed attempts that
neither have a line nor are about to get one (`Missing`): an attempt enters it
by a write that failed, one for each, or by a crash, which takes no more with it
than there are handlers and the worker; the transaction of a success never does.

`WebSocketHub_proofs`: `TypeCorrect`, `NeverPanics` (`NoPanic`),
`OrderedDelivery` (`InOrder`).  `NoPanic` rests on `OpenInMap`: what is in the
map, and what the loop and the bridge have still to serve, has an open channel;
the lock keeps it so while they are at it.  Order is proved of the whole path at
once: the received messages, the one in the pump's hand, the client's channel
and what is on its way form one sequence in which the numbers of each source
increase.

Only model-checked: liveness (`QueueDrains`, `EventuallyInitialized`,
`OutageIsRaised`, `RecoveryIsCleared`, `LastWord`, `LogsSettle`, `AttemptsEnd`,
`GoneClientsLeave`), which is out of the prover's reach; and the four
promises that runs show to be violated.

## 6. Not modelled

Most of this code handles one request at a time on tables of its own, or parses
and formats: SOAP and its signatures, performance files, licenses, the screens
of sites, topology, dashboards and settings, backups, terminals.  Nothing in it
is shared by actors in a way that a model could say more about than the code
does, and it is by far the larger part of the lines.

Of what is shared, these are left out: the MML queue and the batch tasks of
`misc/batch_service.go`, which repeat the pattern of `DeviceTasks`; the second stage
of the initialization, `TransferComplete` and the callbacks to browsers in the
command channel; device groups and tenant quotas; the mail notifier of alarms;
uploads of files; shutdown tasks, which one transaction writes and nothing
dispatches; the consumer of `operation_queue`, which is another program; the ZTP
message `reztp`, which no code produces; subscriptions of a browser, which
`WebSocketHub` leaves open; stop of the bridge, and its Redis subscription, which
is not tried again when it fails at the start; the login token and the VIP
monitor.

PROJECT.json gives the status and the reason for every component.
