---------------------------- MODULE CommandChannel ----------------------------
(***************************************************************************)
(* The channel that carries TR-069 commands to a device and their results  *)
(* back: the producers (OperationSender, the parameter service and its     *)
(* scheduler), the per-device Redis list behind MessageManager, the HTTP   *)
(* handlers of the ACS, the result processor, and the rows of event_log    *)
(* that tell an operator what became of a command.                         *)
(*                                                                         *)
(* A command is named by its cwmp:ID.  What each command asks for and who  *)
(* issues it are constants; when its steps run is not.                     *)
(***************************************************************************)
EXTENDS Naturals, Sequences

CONSTANTS
  Device,     \* serial numbers of registered devices
  Cmd,        \* commands, named by their cwmp:ID
  Handler,    \* HTTP requests the ACS can be serving at one time
  None,       \* no device, command, entry or handler
  DeviceOf,   \* the device a command is for
  Rpc,        \* the RPC of a command
  Producer,   \* who may issue a command: "sender" is OperationSender,
              \* "service" parameter.Service, "scheduler" its scheduler
  Faults,     \* which faults may happen
  MaxFault    \* bound on the number of faults in a behaviour

ASSUME ChannelAssumption ==
  /\ None \notin Device /\ None \notin Cmd /\ None \notin Handler
  /\ DeviceOf \in [Cmd -> Device]
  /\ Rpc \in [Cmd -> {"GPV", "SPV", "OTHER"}]
  /\ Producer \in [Cmd -> {{"sender"}, {"service"}, {"scheduler"}, {"sender", "scheduler"}}]
  /\ Faults \subseteq {"track", "push", "resend", "pop", "lookup", "save",
                       "record", "cut", "crash", "queueTTL", "lockTTL"}
  /\ MaxFault \in Nat
  /\ None \notin [cmd : Cmd, n : Nat]

VARIABLES
  stage,      \* how far the goroutine issuing a command has got
  row,        \* status of the event_log row made for a command
  tracked,    \* does that row carry the cwmp:ID in command_track_data?
  queue,      \* tr069:queue:<sn>, oldest first
  pushes,     \* number of LPUSHes made on a device's list (history)
  lock,       \* is red_lock_add_parameter_names_<id> set?
  req,        \* the HTTP requests being served
  conn,       \* the request whose answer a device is waiting for
  sess,       \* is the CWMP session (the SN cookie) open?
  exec,       \* the command a device has received and not yet reported
  saved,      \* what became of the values reported for a GPV command
  strays,     \* commands whose result was inserted as a row of its own
  delivered,  \* list entries each device received, in order (history)
  faults      \* number of faults so far

vars == <<stage, row, tracked, queue, pushes, lock, req, conn, sess, exec,
          saved, strays, delivered, faults>>

producerVars == <<stage, row, tracked, pushes>>
deviceVars   == <<conn, sess, exec, delivered>>
resultVars   == <<row, lock, saved, strays>>

-----------------------------------------------------------------------------

\* A list entry: a command and the number of the LPUSH that stored it.
Entry == [cmd : Cmd, n : Nat]

Saved  == {"no", "stored", "lost"}
Stage  == {"new", "tracked", "resend", "sent", "aborted"}
Status == {"none", "pending", "success", "error", "fault", "failed"}

\* The status that a report leads to when nothing goes wrong while it is being
\* processed: "success" for values or an acceptance, "error" for a body that
\* cannot be parsed or a device whose row is gone, "fault" for a SOAP Fault.  The
\* status 1 of a SetParameterValuesResponse is stored as it stands, and 1 is
\* "pending".  There is none for an answer that ProcessResult does not handle.
Verdicts(c) ==
  {"success", "error", "fault"}
    \cup (CASE Rpc[c] = "GPV" -> {} [] Rpc[c] = "SPV" -> {"pending"} [] OTHER -> {"none"})

\* pc is the next step of the request; cmd the reported command; verdict the
\* status its row will be saved with; found whether the tracking row was read;
\* reply the list entry popped for the answer.
Request ==
  [pc : {"idle", "result", "lock", "save", "unlock", "record", "poll", "reply"},
   dev : Device \cup {None}, inform : BOOLEAN,
   cmd : Cmd \cup {None}, found : BOOLEAN,
   verdict : Status, reply : Entry \cup {None}]

IdleRequest ==
  [pc |-> "idle", dev |-> None, inform |-> FALSE, cmd |-> None,
   found |-> FALSE, verdict |-> "none", reply |-> None]

Init ==
  /\ stage     = [c \in Cmd |-> "new"]
  /\ row       = [c \in Cmd |-> "none"]
  /\ tracked   = [c \in Cmd |-> FALSE]
  /\ queue     = [d \in Device |-> <<>>]
  /\ pushes    = [d \in Device |-> 0]
  /\ lock      = [d \in Device |-> FALSE]
  /\ req       = [x \in Handler |-> IdleRequest]
  /\ conn      = [d \in Device |-> None]
  /\ sess      = [d \in Device |-> FALSE]
  /\ exec      = [d \in Device |-> None]
  /\ saved     = [c \in Cmd |-> "no"]
  /\ strays    = {}
  /\ delivered = [d \in Device |-> <<>>]
  /\ faults    = 0

\* One more fault of kind f happens.
Fault(f) ==
  /\ f \in Faults
  /\ faults < MaxFault
  /\ faults' = faults + 1

-----------------------------------------------------------------------------
(* Producers *)

\* OperationSender.saveTrackData: a row that cannot be created is logged and
\* the command is sent all the same.
SenderTrack(c) ==
  /\ "sender" \in Producer[c]
  /\ stage[c] = "new"
  /\ stage' = [stage EXCEPT ![c] = "tracked"]
  /\ \/ /\ row' = [row EXCEPT ![c] = "pending"]
        /\ tracked' = [tracked EXCEPT ![c] = TRUE]
        /\ UNCHANGED faults
     \/ /\ Fault("track")
        /\ UNCHANGED <<row, tracked>>
  /\ UNCHANGED <<queue, pushes, lock, req, deviceVars, saved, strays>>

\* parameter.Service inserts the row first (an error ends the call) and then
\* updates it with the tracking data, whose errors it does not look at.
ServiceTrack(c) ==
  /\ "service" \in Producer[c]
  /\ stage[c] = "new"
  /\ \/ /\ stage' = [stage EXCEPT ![c] = "tracked"]
        /\ row' = [row EXCEPT ![c] = "pending"]
        /\ \/ /\ tracked' = [tracked EXCEPT ![c] = TRUE]
              /\ UNCHANGED faults
           \/ /\ Fault("track")
              /\ UNCHANGED tracked
     \/ /\ Fault("track")
        /\ stage' = [stage EXCEPT ![c] = "aborted"]
        /\ UNCHANGED <<row, tracked>>
  /\ UNCHANGED <<queue, pushes, lock, req, deviceVars, saved, strays>>

\* Scheduler.executeCollection reads the parameters of a device that is online:
\* one insert writes the row with its tracking data, and a device whose insert
\* fails is passed over until the next round.
ScheduledTrack(c) ==
  /\ "scheduler" \in Producer[c]
  /\ Rpc[c] = "GPV"
  /\ stage[c] = "new"
  /\ \/ /\ stage' = [stage EXCEPT ![c] = "tracked"]
        /\ row' = [row EXCEPT ![c] = "pending"]
        /\ tracked' = [tracked EXCEPT ![c] = TRUE]
        /\ UNCHANGED faults
     \/ /\ Fault("track")
        /\ stage' = [stage EXCEPT ![c] = "aborted"]
        /\ UNCHANGED <<row, tracked>>
  /\ UNCHANGED <<queue, pushes, lock, req, deviceVars, saved, strays>>

\* Mutant of Enqueue: the message is pushed without anything to tell it by.
EnqueueBare(c) ==
  LET d == DeviceOf[c] IN
  /\ pushes' = [pushes EXCEPT ![d] = @ + 1]
  /\ queue' = [queue EXCEPT ![d] = Append(@, c)]

\* LPUSH of the command on the list of its device.
Enqueue(c) ==
  LET d == DeviceOf[c] IN
  /\ pushes' = [pushes EXCEPT ![d] = @ + 1]
  /\ queue' = [queue EXCEPT ![d] = Append(@, [cmd |-> c, n |-> pushes[d] + 1])]

\* MessageManager.PutMessage, acknowledged.
PutMessage(c) ==
  /\ stage[c] \in {"tracked", "resend"}
  /\ Enqueue(c)
  /\ stage' = [stage EXCEPT ![c] = "sent"]
  /\ UNCHANGED <<row, tracked, lock, req, deviceVars, saved, strays, faults>>

\* The Redis client sends a command again when its connection breaks: the
\* first LPUSH may have been executed.
PutResend(c) ==
  /\ Fault("resend")
  /\ stage[c] = "tracked"
  /\ Enqueue(c)
  /\ stage' = [stage EXCEPT ![c] = "resend"]
  /\ UNCHANGED <<row, tracked, lock, req, deviceVars, saved, strays>>

\* PutMessage returns an error.  OperationSender passes it to its caller, the
\* scheduler goes on with the next device, and both leave the row pending; the
\* parameter service marks the row failed.
PutFails(c) ==
  /\ Fault("push")
  /\ stage[c] \in {"tracked", "resend"}
  /\ stage' = [stage EXCEPT ![c] = "aborted"]
  /\ row' = IF "service" \in Producer[c] THEN [row EXCEPT ![c] = "failed"] ELSE row
  /\ UNCHANGED <<tracked, queue, pushes, lock, req, deviceVars, saved, strays>>

\* The list expires 24 hours after the last LPUSH, with everything in it.
QueueExpires(d) ==
  /\ Fault("queueTTL")
  /\ queue[d] # <<>>
  /\ queue' = [queue EXCEPT ![d] = <<>>]
  /\ UNCHANGED <<producerVars, lock, req, deviceVars, saved, strays>>

-----------------------------------------------------------------------------
(* The device: one request at a time, in a session that an Inform opens.   *)

\* Device d posts request r, which handler x serves.
Post(d, x, r) ==
  /\ conn[d] = None
  /\ req[x].pc = "idle"
  /\ req' = [req EXCEPT ![x] = r]
  /\ conn' = [conn EXCEPT ![d] = x]
  /\ UNCHANGED <<producerVars, queue, lock, sess, exec, saved, strays, delivered, faults>>

\* An Inform opens a session.  With a VALUE CHANGE event its handler stores the
\* reported values under the same lock as a GetParameterValues result.
Inform(d, x) ==
  /\ ~sess[d]
  /\ \E pc \in {"reply", "lock"} :
        Post(d, x, [IdleRequest EXCEPT !.pc = pc, !.dev = d, !.inform = TRUE])

\* An empty post asks for the next command.
Poll(d, x) ==
  /\ sess[d]
  /\ exec[d] = None
  /\ Post(d, x, [IdleRequest EXCEPT !.pc = "poll", !.dev = d])

\* A device reports the command it holds, possibly once more after a session
\* that was cut before the answer.
Respond(d, x) ==
  /\ sess[d]
  /\ exec[d] # None
  /\ \E v \in Verdicts(exec[d]) :
        Post(d, x, [IdleRequest EXCEPT !.pc = "result", !.dev = d,
                                       !.cmd = exec[d], !.verdict = v])

\* A device forgets the command of a session that was cut.
GiveUp(d) ==
  /\ ~sess[d]
  /\ exec[d] # None
  /\ exec' = [exec EXCEPT ![d] = None]
  /\ UNCHANGED <<producerVars, queue, lock, req, conn, sess, saved, strays, delivered, faults>>

\* The device closes its connection; the handler does not notice.
Cut(d) ==
  /\ Fault("cut")
  /\ conn[d] # None
  /\ conn' = [conn EXCEPT ![d] = None]
  /\ sess' = [sess EXCEPT ![d] = FALSE]
  /\ UNCHANGED <<producerVars, queue, lock, req, exec, saved, strays, delivered>>

-----------------------------------------------------------------------------
(* EventProcessor.ProcessResult *)

\* Mutant of Lookup: the row is looked up by device and not by cwmp:ID.
LookupByDevice(x) ==
  /\ req[x].pc = "result"
  /\ \E c \in Cmd :
        /\ DeviceOf[c] = req[x].dev
        /\ tracked[c]
        /\ req' = [req EXCEPT ![x].found = TRUE, ![x].cmd = c, ![x].pc = "record"]
  /\ UNCHANGED <<producerVars, queue, lock, deviceVars, saved, strays, faults>>

\* Read the event_log row by cwmp:ID.  A row that is not found, or cannot be
\* read, does not stop the processing.  An answer that is not handled leaves the
\* status that was read.
Lookup(x) ==
  /\ req[x].pc = "result"
  /\ \E found \in BOOLEAN :
        /\ \/ found = tracked[req[x].cmd] /\ UNCHANGED faults
           \/ ~found /\ Fault("lookup")
        /\ req' = [req EXCEPT
             ![x].found = found,
             ![x].verdict = IF @ = "none" /\ found THEN row[req[x].cmd] ELSE @,
             ![x].pc = IF Rpc[req[x].cmd] = "GPV" /\ req[x].verdict = "success"
                       THEN "lock" ELSE "record"]
  /\ UNCHANGED <<producerVars, queue, lock, deviceVars, saved, strays>>

\* Mutant of LockParameters: a result that finds the lock taken skips the
\* values and is recorded as it is.
LockParametersOrSkip(x) ==
  LET d == req[x].dev IN
  /\ req[x].pc = "lock"
  /\ \/ /\ ~lock[d]
        /\ lock' = [lock EXCEPT ![d] = TRUE]
        /\ req' = [req EXCEPT ![x].pc = "save"]
     \/ /\ lock[d]
        /\ req' = [req EXCEPT ![x].pc = IF req[x].inform THEN "reply" ELSE "record"]
        /\ UNCHANGED lock
  /\ UNCHANGED <<producerVars, queue, deviceVars, saved, strays, faults>>

\* SETNX of the parameter lock.  A result that finds it taken is recorded as an
\* error and its values are dropped; an Inform drops its values silently.
LockParameters(x) ==
  LET d == req[x].dev IN
  /\ req[x].pc = "lock"
  /\ \/ /\ ~lock[d]
        /\ lock' = [lock EXCEPT ![d] = TRUE]
        /\ req' = [req EXCEPT ![x].pc = "save"]
     \/ /\ lock[d]
        /\ req' = [req EXCEPT ![x].pc = IF req[x].inform THEN "reply" ELSE "record",
                              ![x].verdict = IF req[x].inform THEN "none" ELSE "error"]
        /\ UNCHANGED lock
  /\ UNCHANGED <<producerVars, queue, deviceVars, saved, strays, faults>>

\* Upsert the reported values.  A failure is logged and changes nothing else.
SaveParameterValues(x) ==
  /\ req[x].pc = "save"
  /\ \/ req[x].inform /\ UNCHANGED <<saved, faults>>
     \/ /\ ~req[x].inform
        /\ saved' = [saved EXCEPT ![req[x].cmd] = "stored"]
        /\ UNCHANGED faults
     \/ /\ ~req[x].inform
        /\ Fault("save")
        /\ saved' = [saved EXCEPT ![req[x].cmd] = "lost"]
  /\ req' = [req EXCEPT ![x].pc = "unlock"]
  /\ UNCHANGED <<producerVars, queue, lock, deviceVars, strays>>

\* DEL of the lock key, whoever set it.
UnlockParameters(x) ==
  /\ req[x].pc = "unlock"
  /\ lock' = [lock EXCEPT ![req[x].dev] = FALSE]
  /\ req' = [req EXCEPT ![x].pc = IF req[x].inform THEN "reply" ELSE "record"]
  /\ UNCHANGED <<producerVars, queue, deviceVars, saved, strays, faults>>

\* Save the whole row that was read; a row that was not found is inserted.
Record(x) ==
  /\ req[x].pc = "record"
  /\ \/ /\ req[x].found
        /\ row' = [row EXCEPT ![req[x].cmd] = req[x].verdict]
        /\ UNCHANGED <<strays, faults>>
     \/ /\ ~req[x].found
        /\ strays' = strays \cup {req[x].cmd}
        /\ UNCHANGED <<row, faults>>
     \/ /\ Fault("record")
        /\ UNCHANGED <<row, strays>>
  /\ req' = [req EXCEPT ![x] = [IdleRequest EXCEPT !.pc = "poll", !.dev = req[x].dev]]
  /\ UNCHANGED <<stage, tracked, pushes, queue, lock, deviceVars, saved>>

\* The lock key expires 30 seconds after it was set.
LockExpires(d) ==
  /\ Fault("lockTTL")
  /\ lock[d]
  /\ lock' = [lock EXCEPT ![d] = FALSE]
  /\ UNCHANGED <<producerVars, queue, req, deviceVars, saved, strays>>

-----------------------------------------------------------------------------
(* ACSHandler.pollForCommand *)

\* Mutant of GetMessage: the newest entry is popped (LPUSH with LPOP).
GetNewestMessage(x) ==
  LET d == req[x].dev IN
  /\ req[x].pc = "poll"
  /\ IF queue[d] = <<>>
     THEN /\ req' = [req EXCEPT ![x].pc = "reply"]
          /\ UNCHANGED queue
     ELSE /\ req' = [req EXCEPT ![x].pc = "reply",
                                ![x].reply = queue[d][Len(queue[d])]]
          /\ queue' = [queue EXCEPT ![d] = SubSeq(@, 1, Len(@) - 1)]
  /\ UNCHANGED <<producerVars, lock, deviceVars, saved, strays, faults>>

\* MessageManager.GetMessage: RPOP, an error being the same as an empty list.
\* A pop that the client sends again loses the entry of the first one.
GetMessage(x) ==
  LET d == req[x].dev IN
  /\ req[x].pc = "poll"
  /\ \/ /\ queue[d] # <<>>
        /\ req' = [req EXCEPT ![x].pc = "reply", ![x].reply = Head(queue[d])]
        /\ queue' = [queue EXCEPT ![d] = Tail(@)]
        /\ UNCHANGED faults
     \/ /\ queue[d] = <<>>
        /\ req' = [req EXCEPT ![x].pc = "reply"]
        /\ UNCHANGED <<queue, faults>>
     \/ /\ Fault("pop")
        /\ req' = [req EXCEPT ![x].pc = "reply"]
        /\ UNCHANGED queue
     \/ /\ Fault("resend")
        /\ queue[d] # <<>>
        /\ queue' = [queue EXCEPT ![d] = Tail(@)]
        /\ UNCHANGED req
  /\ UNCHANGED <<producerVars, lock, deviceVars, saved, strays>>

\* Mutant of Reply: an entry whose device is gone is put back, behind the others.
ReplyOrRequeue(x) ==
  LET d == req[x].dev
      e == req[x].reply IN
  /\ req[x].pc = "reply"
  /\ req' = [req EXCEPT ![x] = IdleRequest]
  /\ IF conn[d] = x
     THEN /\ conn' = [conn EXCEPT ![d] = None]
          /\ sess' = [sess EXCEPT ![d] = req[x].inform \/ e # None]
          /\ exec' = IF req[x].inform THEN exec
                     ELSE [exec EXCEPT ![d] = IF e = None THEN None ELSE e.cmd]
          /\ delivered' = IF e = None THEN delivered
                          ELSE [delivered EXCEPT ![d] = Append(@, e)]
          /\ UNCHANGED queue
     ELSE /\ queue' = IF e = None THEN queue ELSE [queue EXCEPT ![d] = Append(@, e)]
          /\ UNCHANGED deviceVars
  /\ UNCHANGED <<producerVars, lock, saved, strays, faults>>

\* Mutant of Reply: the answer to an Inform does not set the SN cookie.
ReplyWithoutCookie(x) ==
  LET d == req[x].dev
      e == req[x].reply IN
  /\ req[x].pc = "reply"
  /\ req' = [req EXCEPT ![x] = IdleRequest]
  /\ IF conn[d] = x
     THEN /\ conn' = [conn EXCEPT ![d] = None]
          /\ sess' = [sess EXCEPT ![d] = e # None]
          /\ exec' = [exec EXCEPT ![d] = IF e = None THEN None ELSE e.cmd]
          /\ delivered' = IF e = None THEN delivered
                          ELSE [delivered EXCEPT ![d] = Append(@, e)]
     ELSE UNCHANGED deviceVars
  /\ UNCHANGED <<producerVars, queue, lock, saved, strays, faults>>

\* The answer reaches the device that still waits for it, and nobody else.
\* InformResponse opens the session, an empty answer closes it.
Reply(x) ==
  LET d == req[x].dev
      e == req[x].reply IN
  /\ req[x].pc = "reply"
  /\ req' = [req EXCEPT ![x] = IdleRequest]
  /\ \/ /\ conn[d] = x
        /\ conn' = [conn EXCEPT ![d] = None]
        /\ sess' = [sess EXCEPT ![d] = req[x].inform \/ e # None]
        /\ \/ /\ req[x].inform
              /\ UNCHANGED <<exec, delivered>>
           \/ /\ ~req[x].inform /\ e = None
              /\ exec' = [exec EXCEPT ![d] = None]
              /\ UNCHANGED delivered
           \/ /\ ~req[x].inform /\ e # None
              /\ exec' = [exec EXCEPT ![d] = e.cmd]
              /\ delivered' = [delivered EXCEPT ![d] = Append(@, e)]
     \/ /\ conn[d] # x
        /\ UNCHANGED deviceVars
  /\ UNCHANGED <<producerVars, queue, lock, saved, strays, faults>>

\* The server dies and restarts: what is in Redis and in the database stays.
Crash ==
  /\ Fault("crash")
  /\ req' = [x \in Handler |-> IdleRequest]
  /\ conn' = [d \in Device |-> None]
  /\ sess' = [d \in Device |-> FALSE]
  /\ stage' = [c \in Cmd |-> IF stage[c] \in {"tracked", "resend"}
                             THEN "aborted" ELSE stage[c]]
  /\ UNCHANGED <<row, tracked, pushes, queue, lock, exec, saved, strays, delivered>>

-----------------------------------------------------------------------------

Produce(c) ==
  \/ SenderTrack(c) \/ ServiceTrack(c) \/ ScheduledTrack(c)
  \/ PutMessage(c) \/ PutResend(c) \/ PutFails(c)

Ask(d, x) == Inform(d, x) \/ Poll(d, x) \/ Respond(d, x)

Serve(x) ==
  \/ Lookup(x) \/ LockParameters(x) \/ SaveParameterValues(x)
  \/ UnlockParameters(x) \/ Record(x) \/ GetMessage(x) \/ Reply(x)

Next ==
  \/ \E c \in Cmd : Produce(c)
  \/ \E d \in Device, x \in Handler : Ask(d, x)
  \/ \E x \in Handler : Serve(x)
  \/ \E d \in Device : GiveUp(d) \/ Cut(d) \/ QueueExpires(d) \/ LockExpires(d)
  \/ Crash

Spec == Init /\ [][Next]_vars

\* Requests are served to their end, and a device keeps coming back: periodic
\* Informs start sessions and a session goes on until it is closed.
Fairness ==
  /\ \A x \in Handler : WF_vars(Serve(x))
  /\ \A d \in Device : WF_vars(\E x \in Handler : Ask(d, x))

FairSpec == Spec /\ Fairness

-----------------------------------------------------------------------------
(* Properties *)

TypeOK ==
  /\ stage     \in [Cmd -> Stage]
  /\ row       \in [Cmd -> Status]
  /\ tracked   \in [Cmd -> BOOLEAN]
  /\ queue     \in [Device -> Seq(Entry)]
  /\ pushes    \in [Device -> Nat]
  /\ lock      \in [Device -> BOOLEAN]
  /\ req       \in [Handler -> Request]
  /\ conn      \in [Device -> Handler \cup {None}]
  /\ sess      \in [Device -> BOOLEAN]
  /\ exec      \in [Device -> Cmd \cup {None}]
  /\ saved     \in [Cmd -> Saved]
  /\ strays    \subseteq Cmd
  /\ delivered \in [Device -> Seq(Entry)]
  /\ faults    \in 0..MaxFault

\* The entry popped for the request device d is waiting on: it can still arrive.
InFlight(d) ==
  IF conn[d] = None THEN <<>>
  ELSE IF req[conn[d]].reply = None THEN <<>>
  ELSE <<req[conn[d]].reply>>

Fifo == INSTANCE LossyFifo WITH
          chan <- [d \in Device |-> InFlight(d) \o queue[d]],
          got  <- delivered

\* Whatever handlers, cut sessions and crashes do, the channel is a lossy FIFO:
\* no command overtakes another on its way to a device and no list entry is
\* handed out twice (GetMessage and PutMessage of message_manager.go).
ImplementsLossyFifo == Fifo!Spec

\* The entries a device received, the one on its way and those still in the
\* list were stored in this order: none is repeated and none is overtaken.
InOrder ==
  \A d \in Device :
    LET all == delivered[d] \o InFlight(d) \o queue[d] IN
    \A i, j \in DOMAIN all : i < j => all[i].n < all[j].n

\* Command c was received by the device it was issued for.
Delivered(c) ==
  \E i \in DOMAIN delivered[DeviceOf[c]] : delivered[DeviceOf[c]][i].cmd = c

\* An event_log row says that a device answered only when that very command
\* was delivered to the device it was issued for.
NoPhantomResult ==
  \A c \in Cmd :
    row[c] \in {"success", "error", "fault"} \/ c \in strays => Delivered(c)

\* A GetParameterValues row is a success only if the values it reported were
\* stored, or storing them was tried under the lock and the failure logged, even
\* when the same result is processed twice at the same time.
SuccessMeansSaved ==
  \A c \in Cmd : row[c] = "success" /\ Rpc[c] = "GPV" => saved[c] # "no"

\* A command in the list of a device does not stay there for ever: the device
\* keeps polling, and each poll takes one.
QueueDrains ==
  \A c \in Cmd :
    (\E i \in DOMAIN queue[DeviceOf[c]] : queue[DeviceOf[c]][i].cmd = c)
      ~> ~(\E i \in DOMAIN queue[DeviceOf[c]] : queue[DeviceOf[c]][i].cmd = c)

\* The values a device reports are stored in the end, because a handler that
\* finds the parameter lock taken says it will retry.
ReportedIsSaved ==
  \A c \in Cmd :
    (\E x \in Handler : req[x].pc = "lock" /\ req[x].cmd = c) ~> saved[c] = "stored"

=============================================================================
