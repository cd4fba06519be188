------------------------ MODULE CommandChannel_proofs ------------------------
(***************************************************************************)
(* Theorems about CommandChannel for every set of devices, commands and    *)
(* handlers, and for every number of faults.                               *)
(***************************************************************************)
EXTENDS CommandChannel, TLAPS

-----------------------------------------------------------------------------
(* The inductive invariant: where a result comes from.  A result is posted  *)
(* for the command a device holds (Held), which the device was handed in an *)
(* answer (Addressed); it stays with its request (Reported), and has its    *)
(* values stored when it gets as far as being recorded (Stored).            *)

\* A request that is being served has what its next step uses.
Busy ==
  \A x \in Handler :
    /\ req[x].pc # "idle" => req[x].dev \in Device
    /\ req[x].pc \in {"result", "record"} => req[x].cmd \in Cmd
    /\ req[x].pc \in {"lock", "save", "unlock"} => req[x].inform \/ req[x].cmd \in Cmd

Addressed ==
  /\ \A d \in Device : \A i \in DOMAIN queue[d] : DeviceOf[queue[d][i].cmd] = d
  /\ \A x \in Handler : req[x].reply # None => DeviceOf[req[x].reply.cmd] = req[x].dev

Held == \A d \in Device : exec[d] # None => Delivered(exec[d])

Reported == \A x \in Handler : req[x].cmd # None => Delivered(req[x].cmd)

Stored ==
  \A x \in Handler :
    /\ req[x].pc = "unlock" => req[x].inform \/ saved[req[x].cmd] # "no"
    /\ req[x].pc = "record" /\ req[x].verdict = "success" /\ Rpc[req[x].cmd] = "GPV"
         => saved[req[x].cmd] # "no"

IInv ==
  /\ TypeOK
  /\ Busy
  /\ Addressed
  /\ Held
  /\ Reported
  /\ Stored
  /\ NoPhantomResult
  /\ SuccessMeansSaved

-----------------------------------------------------------------------------
(* Types *)

\* A handler that serves nothing has a request of the right type.
LEMMA IdleRequestType == IdleRequest \in Request
BY DEF IdleRequest, Request, Status

\* What the steps of a handler change in its request.
LEMMA RequestUpdate ==
  ASSUME NEW r \in Request
  PROVE  /\ \A pc \in {"result", "lock", "save", "unlock", "record", "poll", "reply"} :
              /\ [r EXCEPT !.pc = pc] \in Request
              /\ \A found \in BOOLEAN : [r EXCEPT !.found = found, !.pc = pc] \in Request
              /\ \A v \in Status : [r EXCEPT !.pc = pc, !.verdict = v] \in Request
              /\ \A e \in Entry : [r EXCEPT !.pc = pc, !.reply = e] \in Request
<1> SUFFICES ASSUME NEW pc \in {"result", "lock", "save", "unlock", "record", "poll", "reply"}
             PROVE  /\ [r EXCEPT !.pc = pc] \in Request
                    /\ \A found \in BOOLEAN : [r EXCEPT !.found = found, !.pc = pc] \in Request
                    /\ \A v \in Status : [r EXCEPT !.pc = pc, !.verdict = v] \in Request
                    /\ \A e \in Entry : [r EXCEPT !.pc = pc, !.reply = e] \in Request
  OBVIOUS
<1>1. [r EXCEPT !.pc = pc] \in Request
  BY DEF Request
<1>2. \A found \in BOOLEAN : [r EXCEPT !.found = found, !.pc = pc] \in Request
  BY DEF Request
<1>3. \A v \in Status : [r EXCEPT !.pc = pc, !.verdict = v] \in Request
  BY DEF Request
<1>4. \A e \in Entry : [r EXCEPT !.pc = pc, !.reply = e] \in Request
  BY DEF Request
<1>5. QED BY <1>1, <1>2, <1>3, <1>4

\* A report can only lead to statuses that event_log rows have.
LEMMA VerdictsType == \A c \in Cmd : Verdicts(c) \subseteq Status
BY DEF Verdicts, Status

\* What LPUSH stores is a list entry.
LEMMA EntryType == ASSUME NEW c \in Cmd, NEW n \in Nat
                   PROVE  [cmd |-> c, n |-> n] \in Entry
BY DEF Entry

\* An empty answer is told from a list entry.
LEMMA NoneIsNoEntry == None \notin Entry
BY ChannelAssumption DEF ChannelAssumption, Entry

\* Faults only count up to their bound.
LEMMA FaultType == ASSUME TypeOK, NEW f, Fault(f)
                   PROVE  faults' \in 0..MaxFault
BY ChannelAssumption DEF ChannelAssumption, TypeOK, Fault

\* Producers keep the types.
LEMMA ProduceType == ASSUME TypeOK, NEW c \in Cmd, Produce(c)
                     PROVE  TypeOK'
<1>1. CASE SenderTrack(c)
  <2>1. faults' \in 0..MaxFault
    BY <1>1, FaultType DEF SenderTrack, TypeOK
  <2>2. QED BY <1>1, <2>1 DEF SenderTrack, TypeOK, Stage, Status, deviceVars
<1>2. CASE ServiceTrack(c)
  <2>1. faults' \in 0..MaxFault
    BY <1>2, FaultType DEF ServiceTrack, TypeOK
  <2>2. QED BY <1>2, <2>1 DEF ServiceTrack, TypeOK, Stage, Status, deviceVars
<1>2a. CASE ScheduledTrack(c)
  <2>1. faults' \in 0..MaxFault
    BY <1>2a, FaultType DEF ScheduledTrack, TypeOK
  <2>2. QED BY <1>2a, <2>1 DEF ScheduledTrack, TypeOK, Stage, Status, deviceVars
<1>3. ASSUME Enqueue(c)
      PROVE  /\ queue' \in [Device -> Seq(Entry)]
             /\ pushes' \in [Device -> Nat]
  <2>1. [cmd |-> c, n |-> pushes[DeviceOf[c]] + 1] \in Entry
    BY ChannelAssumption DEF ChannelAssumption, TypeOK, Entry
  <2>2. DeviceOf[c] \in Device
    BY ChannelAssumption DEF ChannelAssumption
  <2>3. QED BY <1>3, <2>1, <2>2 DEF Enqueue, TypeOK
<1>4. CASE PutMessage(c)
  BY <1>3, <1>4 DEF PutMessage, TypeOK, Stage, deviceVars
<1>5. CASE PutResend(c)
  BY <1>3, <1>5, FaultType DEF PutResend, TypeOK, Stage, deviceVars
<1>6. CASE PutFails(c)
  BY <1>6, FaultType DEF PutFails, TypeOK, Stage, Status, deviceVars
<1>7. QED BY <1>1, <1>2, <1>2a, <1>4, <1>5, <1>6 DEF Produce

\* A posted request keeps the types.
LEMMA PostType == ASSUME TypeOK, NEW d \in Device, NEW x \in Handler,
                         NEW r \in Request, Post(d, x, r)
                  PROVE  TypeOK'
BY DEF Post, TypeOK, producerVars

\* What a device posts keeps the types.
LEMMA AskType == ASSUME TypeOK, NEW d \in Device, NEW x \in Handler, Ask(d, x)
                 PROVE  TypeOK'
<1>1. CASE Inform(d, x)
  <2>1. PICK pc \in {"reply", "lock"} :
          Post(d, x, [IdleRequest EXCEPT !.pc = pc, !.dev = d, !.inform = TRUE])
    BY <1>1 DEF Inform
  <2>2. [IdleRequest EXCEPT !.pc = pc, !.dev = d, !.inform = TRUE] \in Request
    BY IdleRequestType DEF Request
  <2>3. QED BY <2>1, <2>2, PostType
<1>2. CASE Poll(d, x)
  <2>1. [IdleRequest EXCEPT !.pc = "poll", !.dev = d] \in Request
    BY IdleRequestType DEF Request
  <2>2. QED BY <1>2, <2>1, PostType DEF Poll
<1>3. CASE Respond(d, x)
  <2>1. exec[d] \in Cmd
    BY <1>3 DEF Respond, TypeOK
  <2>2. PICK v \in Verdicts(exec[d]) :
          Post(d, x, [IdleRequest EXCEPT !.pc = "result", !.dev = d,
                                         !.cmd = exec[d], !.verdict = v])
    BY <1>3 DEF Respond
  <2>3. v \in Status
    BY <2>1, <2>2, VerdictsType
  <2>4. [IdleRequest EXCEPT !.pc = "result", !.dev = d,
                            !.cmd = exec[d], !.verdict = v] \in Request
    BY <2>1, <2>3, IdleRequestType DEF Request
  <2>5. QED BY <2>2, <2>4, PostType
<1>4. QED BY <1>1, <1>2, <1>3 DEF Ask

\* Reading the event_log row keeps the types.
LEMMA LookupType == ASSUME TypeOK, Busy, NEW x \in Handler, Lookup(x)
                    PROVE  TypeOK'
<1>1. PICK found \in BOOLEAN :
        /\ UNCHANGED faults \/ Fault("lookup")
        /\ req' = [req EXCEPT
             ![x].found = found,
             ![x].verdict = IF req[x].verdict = "none" /\ found THEN row[req[x].cmd]
                            ELSE req[x].verdict,
             ![x].pc = IF Rpc[req[x].cmd] = "GPV" /\ req[x].verdict = "success"
                       THEN "lock" ELSE "record"]
  BY DEF Lookup
<1>2. req' \in [Handler -> Request]
  <2> DEFINE pc == IF Rpc[req[x].cmd] = "GPV" /\ req[x].verdict = "success"
                   THEN "lock" ELSE "record"
             v  == IF req[x].verdict = "none" /\ found THEN row[req[x].cmd]
                   ELSE req[x].verdict
  <2>1. pc \in {"lock", "record"} /\ req[x] \in Request
    BY DEF TypeOK
  <2>2. v \in Status
    <3>1. req[x].cmd \in Cmd
      BY DEF Busy, Lookup
    <3> QED BY <2>1, <3>1 DEF TypeOK, Request
  <2>3. req' = [req EXCEPT ![x] = [req[x] EXCEPT !.found = found, !.verdict = v, !.pc = pc]]
    BY <1>1 DEF TypeOK
  <2> HIDE DEF pc, v
  <2>4. [req[x] EXCEPT !.found = found, !.verdict = v, !.pc = pc] \in Request
    BY <2>1, <2>2 DEF Request
  <2>5. QED BY <2>3, <2>4 DEF TypeOK
<1>3. faults' \in 0..MaxFault
  BY <1>1, FaultType DEF TypeOK
<1>4. QED BY <1>2, <1>3 DEF Lookup, TypeOK, producerVars, deviceVars

\* The three steps under the parameter lock keep the types.
LEMMA ResultType == ASSUME TypeOK, Busy, NEW x \in Handler,
                           LockParameters(x) \/ SaveParameterValues(x) \/ UnlockParameters(x)
                    PROVE  TypeOK'
<1>1. CASE LockParameters(x)
  <2>1. req \in [Handler -> Request] /\ req[x] \in Request
    BY DEF TypeOK
  <2>2. req' \in [Handler -> Request]
    <3>1. CASE ~lock[req[x].dev]
      <4>1. [req[x] EXCEPT !.pc = "save"] \in Request
        BY <2>1, RequestUpdate
      <4>2. req' = [req EXCEPT ![x].pc = "save"]
        BY <1>1, <3>1 DEF LockParameters
      <4>3. QED BY <2>1, <4>1, <4>2
    <3>2. CASE lock[req[x].dev]
      <4> DEFINE pc == IF req[x].inform THEN "reply" ELSE "record"
                 v  == IF req[x].inform THEN "none" ELSE "error"
      <4>1. pc \in {"reply", "record"} /\ v \in Status
        BY DEF Status
      <4>2. [req[x] EXCEPT !.pc = pc, !.verdict = v] \in Request
        BY <2>1, <4>1, RequestUpdate
      <4>3. req' = [req EXCEPT ![x].pc = pc, ![x].verdict = v]
        BY <1>1, <3>2 DEF LockParameters
      <4> HIDE DEF pc, v
      <4>4. QED BY <2>1, <4>2, <4>3
    <3>3. QED BY <3>1, <3>2
  <2>3. QED BY <1>1, <2>2 DEF LockParameters, TypeOK, producerVars, deviceVars
<1>2. CASE SaveParameterValues(x)
  <2>1. req' \in [Handler -> Request]
    BY <1>2, RequestUpdate DEF SaveParameterValues, TypeOK
  <2>2. saved' \in [Cmd -> Saved]
    BY <1>2 DEF SaveParameterValues, TypeOK, Saved
  <2>3. faults' \in 0..MaxFault
    BY <1>2, FaultType DEF SaveParameterValues, TypeOK
  <2>4. QED BY <1>2, <2>1, <2>2, <2>3 DEF SaveParameterValues, TypeOK, producerVars, deviceVars
<1>3. CASE UnlockParameters(x)
  <2>1. req' \in [Handler -> Request]
    BY <1>3, RequestUpdate DEF UnlockParameters, TypeOK
  <2>2. QED BY <1>3, <2>1 DEF UnlockParameters, TypeOK, producerVars, deviceVars
<1>4. QED BY <1>1, <1>2, <1>3

\* Saving the event_log row keeps the types.
LEMMA RecordType == ASSUME TypeOK, Busy, NEW x \in Handler, Record(x)
                    PROVE  TypeOK'
<1>1. req' \in [Handler -> Request]
  <2>1. [IdleRequest EXCEPT !.pc = "poll", !.dev = req[x].dev] \in Request
    BY IdleRequestType DEF TypeOK, Request
  <2>2. QED BY <2>1 DEF Record, TypeOK
<1>2. row' \in [Cmd -> Status] /\ strays' \subseteq Cmd
  BY DEF Record, TypeOK, Busy, Request
<1>3. faults' \in 0..MaxFault
  BY FaultType DEF Record, TypeOK
<1>4. QED BY <1>1, <1>2, <1>3 DEF Record, TypeOK, deviceVars

\* The RPOP of a poll keeps the types.
LEMMA GetMessageType == ASSUME TypeOK, Busy, NEW x \in Handler, GetMessage(x)
                        PROVE  TypeOK'
<1> DEFINE d == req[x].dev
<1>1. d \in Device /\ queue[d] \in Seq(Entry)
  BY DEF GetMessage, Busy, TypeOK
<1>2. queue[d] # <<>> => Head(queue[d]) \in Entry /\ Tail(queue[d]) \in Seq(Entry)
  BY <1>1
<1>3. queue' \in [Device -> Seq(Entry)]
  <2>1. queue' = queue \/ (queue[d] # <<>> /\ queue' = [queue EXCEPT ![d] = Tail(queue[d])])
    BY <1>1 DEF GetMessage, TypeOK
  <2>2. queue \in [Device -> Seq(Entry)]
    BY DEF TypeOK
  <2>3. QED BY <1>1, <1>2, <2>1, <2>2
<1>4. req' \in [Handler -> Request]
  <2>1. \/ req' = req
        \/ req' = [req EXCEPT ![x].pc = "reply"]
        \/ /\ queue[d] # <<>>
           /\ req' = [req EXCEPT ![x].pc = "reply", ![x].reply = Head(queue[d])]
    BY DEF GetMessage
  <2>2. CASE req' = req \/ req' = [req EXCEPT ![x].pc = "reply"]
    <3>1. req \in [Handler -> Request] /\ [req[x] EXCEPT !.pc = "reply"] \in Request
      BY RequestUpdate DEF TypeOK
    <3>2. QED BY <2>2, <3>1
  <2>3. CASE /\ queue[d] # <<>>
             /\ req' = [req EXCEPT ![x].pc = "reply", ![x].reply = Head(queue[d])]
    <3>1. [req[x] EXCEPT !.pc = "reply", !.reply = Head(queue[d])] \in Request
      BY <1>2, <2>3, RequestUpdate DEF TypeOK
    <3>2. req' = [req EXCEPT ![x] = [req[x] EXCEPT !.pc = "reply", !.reply = Head(queue[d])]]
      BY <2>3 DEF TypeOK
    <3>3. QED BY <3>1, <3>2 DEF TypeOK
  <2>4. QED BY <2>1, <2>2, <2>3
<1>5. faults' \in 0..MaxFault
  BY FaultType DEF GetMessage, TypeOK
<1>6. QED BY <1>3, <1>4, <1>5 DEF GetMessage, TypeOK, producerVars, deviceVars

\* The answer to a device keeps the types.
LEMMA ReplyType == ASSUME TypeOK, Busy, NEW x \in Handler, Reply(x)
                   PROVE  TypeOK'
<1> DEFINE d == req[x].dev
           e == req[x].reply
<1>1. d \in Device /\ e \in Entry \cup {None} /\ req[x].inform \in BOOLEAN
  BY DEF Reply, Busy, TypeOK, Request
<1>2. req' \in [Handler -> Request]
  BY IdleRequestType DEF Reply, TypeOK
<1>3. /\ conn' \in [Device -> Handler \cup {None}]
      /\ sess' \in [Device -> BOOLEAN]
  BY <1>1 DEF Reply, TypeOK, deviceVars
<1>4. e # None => e.cmd \in Cmd
  BY <1>1 DEF Entry
<1>5. exec' \in [Device -> Cmd \cup {None}]
  BY <1>1, <1>4 DEF Reply, TypeOK, deviceVars
<1>6. delivered' \in [Device -> Seq(Entry)]
  <2>1. \/ delivered' = delivered
        \/ e # None /\ delivered' = [delivered EXCEPT ![d] = Append(delivered[d], e)]
    BY <1>1 DEF Reply, TypeOK, deviceVars
  <2>2. delivered \in [Device -> Seq(Entry)]
    BY DEF TypeOK
  <2>3. e # None => Append(delivered[d], e) \in Seq(Entry)
    BY <1>1, <2>2
  <2>4. QED BY <1>1, <2>1, <2>2, <2>3
<1>7. QED BY <1>2, <1>3, <1>5, <1>6 DEF Reply, TypeOK, producerVars

\* Crashes, cut sessions and expiring keys keep the types.
LEMMA OtherType == ASSUME TypeOK,
                          \/ Crash
                          \/ \E d \in Device : GiveUp(d) \/ Cut(d) \/ QueueExpires(d) \/ LockExpires(d)
                   PROVE  TypeOK'
<1>1. CASE Crash
  BY <1>1, FaultType, IdleRequestType DEF Crash, TypeOK, Stage
<1>2. ASSUME NEW d \in Device, GiveUp(d) PROVE TypeOK'
  BY <1>2 DEF GiveUp, TypeOK, producerVars
<1>3. ASSUME NEW d \in Device, Cut(d) PROVE TypeOK'
  BY <1>3, FaultType DEF Cut, TypeOK, producerVars
<1>4. ASSUME NEW d \in Device, QueueExpires(d) PROVE TypeOK'
  BY <1>4, FaultType DEF QueueExpires, TypeOK, producerVars, deviceVars
<1>5. ASSUME NEW d \in Device, LockExpires(d) PROVE TypeOK'
  BY <1>5, FaultType DEF LockExpires, TypeOK, producerVars, deviceVars
<1>6. QED BY <1>1, <1>2, <1>3, <1>4, <1>5

-----------------------------------------------------------------------------
(* Each action preserves the inductive invariant. *)

\* Delivered is a predicate of the history alone.
LEMMA SameDelivered == ASSUME UNCHANGED delivered
                       PROVE  \A c \in Cmd : Delivered(c)' <=> Delivered(c)
BY DEF Delivered

\* What was delivered stays delivered, and an entry that reaches the device it
\* is addressed to is delivered from then on.
LEMMA DeliveredGrows ==
  ASSUME TypeOK, NEW d \in Device, NEW e \in Entry,
         delivered' = [delivered EXCEPT ![d] = Append(@, e)]
  PROVE  /\ \A c \in Cmd : Delivered(c) => Delivered(c)'
         /\ DeviceOf[e.cmd] = d => Delivered(e.cmd)'
<1>1. /\ delivered \in [Device -> Seq(Entry)]
      /\ DeviceOf \in [Cmd -> Device]
  BY ChannelAssumption DEF ChannelAssumption, TypeOK
<1>2. ASSUME NEW c \in Cmd, Delivered(c) PROVE Delivered(c)'
  <2>1. PICK i \in DOMAIN delivered[DeviceOf[c]] : delivered[DeviceOf[c]][i].cmd = c
    BY <1>2 DEF Delivered
  <2>2. CASE DeviceOf[c] = d
    <3>1. i \in DOMAIN Append(delivered[d], e) /\ Append(delivered[d], e)[i] = delivered[d][i]
      BY <1>1, <2>1, <2>2
    <3>2. delivered'[d] = Append(delivered[d], e)
      BY <1>1
    <3>3. QED BY <2>1, <2>2, <3>1, <3>2 DEF Delivered
  <2>3. CASE DeviceOf[c] # d
    <3>1. delivered'[DeviceOf[c]] = delivered[DeviceOf[c]]
      BY <1>1, <2>3
    <3>2. QED BY <2>1, <3>1 DEF Delivered
  <2>4. QED BY <2>2, <2>3
<1>3. ASSUME DeviceOf[e.cmd] = d PROVE Delivered(e.cmd)'
  <2>1. delivered'[d] = Append(delivered[d], e)
    BY <1>1
  <2>2. /\ Len(delivered[d]) + 1 \in DOMAIN delivered'[d]
        /\ delivered'[d][Len(delivered[d]) + 1] = e
    BY <1>1, <2>1
  <2>3. QED BY <1>3, <2>2 DEF Delivered
<1>4. QED BY <1>2, <1>3

\* The inductive invariant holds at the start.
LEMMA InitInv == Init => IInv
<1> SUFFICES ASSUME Init PROVE IInv
  OBVIOUS
<1>1. TypeOK
  BY IdleRequestType, ChannelAssumption DEF ChannelAssumption, Init, TypeOK, Stage, Status, Saved
<1>2. Busy /\ Reported /\ Stored
  BY DEF Init, Busy, Reported, Stored, IdleRequest
<1>3. Addressed
  BY DEF Init, Addressed, IdleRequest
<1>4. Held /\ NoPhantomResult /\ SuccessMeansSaved
  BY DEF Init, Held, NoPhantomResult, SuccessMeansSaved
<1>5. QED BY <1>1, <1>2, <1>3, <1>4 DEF IInv

\* A producer adds entries addressed to the device of their command, and a
\* row it writes is pending or failed, never an answer.
LEMMA ProduceInv == ASSUME IInv, NEW c \in Cmd, Produce(c)
                    PROVE  IInv'
<1>1. TypeOK /\ TypeOK'
  BY ProduceType DEF IInv
<1>2. UNCHANGED <<req, exec, delivered, saved, strays>>
  BY DEF Produce, SenderTrack, ServiceTrack, ScheduledTrack, PutMessage, PutResend, PutFails, deviceVars
<1>3. Busy' /\ Stored'
  BY <1>2 DEF IInv, Busy, Stored
<1>4. Held' /\ Reported'
  BY <1>1, <1>2, SameDelivered DEF IInv, Held, Reported, TypeOK, Request
<1>5. Addressed'
  <2>1. CASE queue' = queue
    BY <1>2, <2>1 DEF IInv, Addressed
  <2>2. CASE Enqueue(c)
    <3> DEFINE e == [cmd |-> c, n |-> pushes[DeviceOf[c]] + 1]
    <3>1. DeviceOf[c] \in Device /\ queue \in [Device -> Seq(Entry)]
      BY <1>1, ChannelAssumption DEF ChannelAssumption, TypeOK
    <3>2. queue' = [queue EXCEPT ![DeviceOf[c]] = Append(@, e)]
      BY <2>2 DEF Enqueue
    <3>3. ASSUME NEW d \in Device, NEW i \in DOMAIN queue'[d]
          PROVE  DeviceOf[queue'[d][i].cmd] = d
      <4>1. CASE d # DeviceOf[c]
        BY <3>1, <3>2, <3>3, <4>1 DEF IInv, Addressed
      <4>2. CASE d = DeviceOf[c]
        <5>1. queue'[d] = Append(queue[d], e)
          BY <3>1, <3>2, <4>2
        <5>2. i \in DOMAIN queue[d] \/ i = Len(queue[d]) + 1
          BY <3>1, <3>3, <5>1
        <5>3. CASE i \in DOMAIN queue[d]
          <6>1. queue'[d][i] = queue[d][i]
            BY <3>1, <5>1, <5>3
          <6>2. QED BY <5>3, <6>1 DEF IInv, Addressed
        <5>4. CASE i = Len(queue[d]) + 1
          <6>1. queue'[d][i] = e
            BY <3>1, <5>1, <5>4
          <6>2. QED BY <4>2, <6>1
        <5>5. QED BY <5>2, <5>3, <5>4
      <4>3. QED BY <4>1, <4>2
    <3>4. QED BY <1>2, <3>3 DEF IInv, Addressed
  <2>3. QED BY <2>1, <2>2 DEF Produce, SenderTrack, ServiceTrack, ScheduledTrack, PutMessage, PutResend, PutFails
<1>6. \A k \in Cmd : row'[k] = row[k] \/ row'[k] \in {"pending", "failed"}
  BY <1>1 DEF Produce, SenderTrack, ServiceTrack, ScheduledTrack, PutMessage, PutResend, PutFails, TypeOK
<1>7. NoPhantomResult'
  BY <1>2, <1>6, SameDelivered DEF IInv, NoPhantomResult
<1>8. SuccessMeansSaved'
  BY <1>2, <1>6 DEF IInv, SuccessMeansSaved
<1>9. QED BY <1>1, <1>3, <1>4, <1>5, <1>7, <1>8 DEF IInv

\* A post replaces the request of an idle handler.
LEMMA AskInv == ASSUME IInv, NEW d \in Device, NEW x \in Handler, Ask(d, x)
                PROVE  IInv'
<1>1. TypeOK /\ TypeOK'
  BY AskType DEF IInv
<1>2. PICK r : /\ Post(d, x, r)
               /\ r.dev = d /\ r.reply = None
               /\ \/ /\ r.pc \in {"reply", "lock", "poll"}
                     /\ r.inform \/ r.pc = "poll"
                     /\ r.cmd = None
                  \/ /\ r.pc = "result"
                     /\ exec[d] # None
                     /\ r.cmd = exec[d]
  <2>1. CASE Inform(d, x)
    <3>1. PICK pc \in {"reply", "lock"} :
            Post(d, x, [IdleRequest EXCEPT !.pc = pc, !.dev = d, !.inform = TRUE])
      BY <2>1 DEF Inform
    <3> DEFINE r == [IdleRequest EXCEPT !.pc = pc, !.dev = d, !.inform = TRUE]
    <3>2. r.dev = d /\ r.reply = None /\ r.pc \in {"reply", "lock"} /\ r.inform /\ r.cmd = None
      BY DEF IdleRequest
    <3>3. Post(d, x, r)
      BY <3>1
    <3> HIDE DEF r
    <3>4. QED BY <3>2, <3>3
  <2>2. CASE Poll(d, x)
    <3> DEFINE r == [IdleRequest EXCEPT !.pc = "poll", !.dev = d]
    <3>1. Post(d, x, r)
      BY <2>2 DEF Poll
    <3>2. r.dev = d /\ r.reply = None /\ r.pc = "poll" /\ r.cmd = None
      BY DEF IdleRequest
    <3> HIDE DEF r
    <3>3. QED BY <3>1, <3>2
  <2>3. CASE Respond(d, x)
    <3>1. PICK v \in Verdicts(exec[d]) :
            Post(d, x, [IdleRequest EXCEPT !.pc = "result", !.dev = d,
                                           !.cmd = exec[d], !.verdict = v])
      BY <2>3 DEF Respond
    <3> DEFINE r == [IdleRequest EXCEPT !.pc = "result", !.dev = d,
                                        !.cmd = exec[d], !.verdict = v]
    <3>2. r.dev = d /\ r.reply = None /\ r.pc = "result" /\ r.cmd = exec[d] /\ exec[d] # None
      BY <2>3 DEF Respond, IdleRequest
    <3>3. Post(d, x, r)
      BY <3>1
    <3> HIDE DEF r
    <3>4. QED BY <3>2, <3>3
  <2>4. QED BY <2>1, <2>2, <2>3 DEF Ask
<1>3. /\ UNCHANGED <<row, queue, exec, delivered, saved, strays>>
      /\ req' = [req EXCEPT ![x] = r]
  BY <1>2 DEF Post, producerVars
<1>4. req'[x] = r /\ \A y \in Handler \ {x} : req'[y] = req[y]
  BY <1>1, <1>3 DEF TypeOK
<1>5. Busy'
  BY <1>1, <1>2, <1>4 DEF IInv, Busy, TypeOK
<1>6. Addressed'
  BY <1>2, <1>3, <1>4 DEF IInv, Addressed
<1>7. Held' /\ NoPhantomResult' /\ SuccessMeansSaved'
  BY <1>1, <1>3, SameDelivered DEF IInv, Held, NoPhantomResult, SuccessMeansSaved, TypeOK
<1>8. Reported'
  BY <1>1, <1>2, <1>3, <1>4, SameDelivered DEF IInv, Reported, Held, TypeOK, Request
<1>9. Stored'
  BY <1>2, <1>3, <1>4 DEF IInv, Stored
<1>10. QED BY <1>1, <1>5, <1>6, <1>7, <1>8, <1>9 DEF IInv

\* Reading the event_log row changes only the request; the status it takes over
\* is that of the row.
LEMMA LookupInv == ASSUME IInv, NEW x \in Handler, Lookup(x)
                   PROVE  IInv'
<1>1. TypeOK /\ TypeOK'
  BY LookupType DEF IInv
<1>2. UNCHANGED <<row, queue, exec, delivered, saved, strays>>
  BY DEF Lookup, producerVars, deviceVars
<1>3. /\ \A y \in Handler \ {x} : req'[y] = req[y]
      /\ req[x].pc = "result"
      /\ req'[x].pc = IF Rpc[req[x].cmd] = "GPV" /\ req[x].verdict = "success"
                      THEN "lock" ELSE "record"
      /\ req'[x].cmd = req[x].cmd /\ req'[x].dev = req[x].dev
      /\ req'[x].reply = req[x].reply
      /\ req'[x].verdict \in {req[x].verdict, row[req[x].cmd]}
  BY <1>1 DEF Lookup, TypeOK, Request
<1>4. Busy' /\ Stored'
  <2>1. req[x].cmd \in Cmd
    BY <1>3 DEF IInv, Busy
  <2>2. /\ req'[x].pc = "record" /\ req'[x].verdict = "success" /\ Rpc[req[x].cmd] = "GPV"
             => saved[req[x].cmd] # "no"
    BY <1>3, <2>1 DEF IInv, SuccessMeansSaved
  <2>3. Stored'
    BY <1>2, <1>3, <2>2 DEF IInv, Stored
  <2> QED BY <1>2, <1>3, <2>3 DEF IInv, Busy
<1>5. Addressed'
  BY <1>2, <1>3 DEF IInv, Addressed
<1>6. Held' /\ NoPhantomResult' /\ SuccessMeansSaved'
  BY <1>1, <1>2, SameDelivered DEF IInv, Held, NoPhantomResult, SuccessMeansSaved, TypeOK
<1>7. Reported'
  <2>1. \A y \in Handler : req'[y].cmd = req[y].cmd
    BY <1>3
  <2>2. \A y \in Handler : req[y].cmd \in Cmd \cup {None}
    BY <1>1 DEF TypeOK, Request
  <2>3. QED BY <1>2, <2>1, <2>2, SameDelivered DEF IInv, Reported
<1>8. QED BY <1>1, <1>4, <1>5, <1>6, <1>7 DEF IInv

\* The three steps under the parameter lock: only saving values changes what
\* the invariant speaks of.
LEMMA ResultInv == ASSUME IInv, NEW x \in Handler,
                          LockParameters(x) \/ SaveParameterValues(x) \/ UnlockParameters(x)
                   PROVE  IInv'
<1>1. TypeOK /\ TypeOK'
  BY ResultType DEF IInv
<1>2. UNCHANGED <<row, queue, exec, delivered, strays>>
  BY DEF LockParameters, SaveParameterValues, UnlockParameters, producerVars, deviceVars
<1>3. /\ \A y \in Handler \ {x} : req'[y] = req[y]
      /\ req'[x].cmd = req[x].cmd /\ req'[x].dev = req[x].dev
      /\ req'[x].inform = req[x].inform /\ req'[x].reply = req[x].reply
  BY <1>1 DEF LockParameters, SaveParameterValues, UnlockParameters, TypeOK, Request
<1>4. \A c \in Cmd : saved[c] # "no" => saved'[c] # "no"
  BY <1>1 DEF LockParameters, SaveParameterValues, UnlockParameters, TypeOK
<1>5. /\ req[x].pc \in {"lock", "save", "unlock"}
      /\ req'[x].pc \in {"save", "unlock", "record", "reply"}
      /\ req'[x].pc = "record" => ~req[x].inform
  BY <1>1 DEF LockParameters, SaveParameterValues, UnlockParameters, TypeOK, Request
<1>6. Busy'
  BY <1>3, <1>5 DEF IInv, Busy
<1>7. Stored'
  <2>1. CASE LockParameters(x)
    <3>1. req'[x].pc = "save" \/ req'[x].pc = "reply" \/ req'[x].verdict = "error"
      BY <1>1, <2>1 DEF LockParameters, TypeOK, Request
    <3>2. req'[x].pc # "unlock"
      BY <1>1, <2>1 DEF LockParameters, TypeOK, Request
    <3>3. QED BY <1>1, <1>3, <1>4, <3>1, <3>2 DEF IInv, Busy, Stored
  <2>2. CASE SaveParameterValues(x)
    <3>1. req'[x].pc = "unlock" /\ (req[x].inform \/ saved'[req[x].cmd] # "no")
      BY <1>1, <2>2 DEF IInv, Busy, SaveParameterValues, TypeOK, Request
    <3>2. QED BY <1>1, <1>3, <1>4, <3>1 DEF IInv, Busy, Stored
  <2>3. CASE UnlockParameters(x)
    <3>1. /\ req[x].pc = "unlock" /\ saved' = saved
          /\ req'[x].pc \in {"reply", "record"}
          /\ req'[x].pc = "record" => ~req[x].inform
      BY <1>1, <2>3 DEF UnlockParameters, TypeOK, Request
    <3>2. QED BY <1>3, <3>1 DEF IInv, Stored
  <2>4. QED BY <2>1, <2>2, <2>3
<1>8. Addressed'
  BY <1>2, <1>3 DEF IInv, Addressed
<1>9. Held' /\ NoPhantomResult' /\ SuccessMeansSaved'
  BY <1>1, <1>2, <1>4, SameDelivered DEF IInv, Held, NoPhantomResult, SuccessMeansSaved, TypeOK
<1>10. Reported'
  BY <1>1, <1>2, <1>3, SameDelivered DEF IInv, Reported, TypeOK, Request
<1>11. QED BY <1>1, <1>6, <1>7, <1>8, <1>9, <1>10 DEF IInv

\* The row takes the verdict of a command that its device reported.
LEMMA RecordInv == ASSUME IInv, NEW x \in Handler, Record(x)
                   PROVE  IInv'
<1> DEFINE c == req[x].cmd
<1>1. TypeOK /\ TypeOK'
  BY RecordType DEF IInv
<1>2. UNCHANGED <<queue, exec, delivered, saved>>
  BY DEF Record, deviceVars
<1>3. /\ \A y \in Handler \ {x} : req'[y] = req[y]
      /\ req'[x].pc = "poll" /\ req'[x].dev = req[x].dev
      /\ req'[x].cmd = None /\ req'[x].reply = None
  <2>1. req'[x] = [IdleRequest EXCEPT !.pc = "poll", !.dev = req[x].dev]
    BY <1>1 DEF Record, TypeOK
  <2>2. \A y \in Handler \ {x} : req'[y] = req[y]
    BY <1>1 DEF Record, TypeOK
  <2>3. QED BY <2>1, <2>2 DEF IdleRequest
<1>4. c \in Cmd /\ Delivered(c) /\ req[x].dev \in Device
  BY ChannelAssumption DEF ChannelAssumption, IInv, Busy, Reported, Record
<1>5. \A k \in Cmd \ {c} : row'[k] = row[k] /\ (k \in strays' => k \in strays)
  BY <1>1 DEF Record, TypeOK
<1>6. NoPhantomResult'
  BY <1>2, <1>4, <1>5, SameDelivered DEF IInv, NoPhantomResult
<1>7. row'[c] = row[c] \/ row'[c] = req[x].verdict
  BY <1>1, <1>4 DEF Record, TypeOK
<1>8. SuccessMeansSaved'
  BY <1>2, <1>5, <1>7 DEF IInv, SuccessMeansSaved, Stored, Record
<1>9. Busy' /\ Stored'
  <2>1. Busy'
    BY <1>3, <1>4 DEF IInv, Busy
  <2>2. Stored'
    <3>1. req'[x].pc = "poll"
      BY <1>3
    <3>2. \A y \in Handler : req'[y].pc \in {"unlock", "record"} => req'[y] = req[y]
      BY <1>3, <3>1
    <3>3. saved' = saved
      BY <1>2
    <3>4. QED BY <3>2, <3>3 DEF IInv, Stored
  <2>3. QED BY <2>1, <2>2
<1>10. Addressed'
  BY <1>2, <1>3 DEF IInv, Addressed
<1>11. Held'
  BY <1>1, <1>2, SameDelivered DEF IInv, Held, TypeOK
<1>12. Reported'
  <2>1. \A y \in Handler : req'[y].cmd # None => req'[y] = req[y]
    BY <1>3
  <2>2. \A y \in Handler : req[y].cmd \in Cmd \cup {None}
    BY <1>1 DEF TypeOK, Request
  <2>3. QED BY <1>2, <2>1, <2>2, SameDelivered DEF IInv, Reported
<1>13. QED BY <1>1, <1>6, <1>8, <1>9, <1>10, <1>11, <1>12 DEF IInv

\* The popped entry is addressed to the device whose list it was in.
LEMMA GetMessageInv == ASSUME IInv, NEW x \in Handler, GetMessage(x)
                       PROVE  IInv'
<1> DEFINE d == req[x].dev
<1>1. TypeOK /\ TypeOK'
  BY GetMessageType DEF IInv
<1>2. UNCHANGED <<row, exec, delivered, saved, strays>>
  BY DEF GetMessage, producerVars, deviceVars
<1>3. d \in Device /\ queue[d] \in Seq(Entry) /\ req[x].pc = "poll"
  BY <1>1 DEF IInv, Busy, GetMessage, TypeOK
<1>4. /\ \A y \in Handler \ {x} : req'[y] = req[y]
      /\ req'[x].pc \in {"poll", "reply"}
      /\ req'[x].cmd = req[x].cmd /\ req'[x].dev = d
      /\ \/ req'[x].reply = req[x].reply
         \/ queue[d] # <<>> /\ req'[x].reply = Head(queue[d])
  BY <1>1 DEF GetMessage, TypeOK, Request
<1>5. /\ \A k \in Device \ {d} : queue'[k] = queue[k]
      /\ queue'[d] = queue[d] \/ (queue[d] # <<>> /\ queue'[d] = Tail(queue[d]))
  BY <1>1, <1>3 DEF GetMessage, TypeOK
<1>6. Addressed'
  <2>1. ASSUME queue[d] # <<>> PROVE DeviceOf[Head(queue[d]).cmd] = d
    <3>1. 1 \in DOMAIN queue[d] /\ Head(queue[d]) = queue[d][1]
      BY <1>3, <2>1
    <3>2. QED BY <1>3, <3>1 DEF IInv, Addressed
  <2>2. ASSUME NEW k \in Device, NEW i \in DOMAIN queue'[k]
        PROVE  DeviceOf[queue'[k][i].cmd] = k
    <3>1. CASE queue'[k] = queue[k]
      BY <2>2, <3>1 DEF IInv, Addressed
    <3>2. CASE k = d /\ queue[d] # <<>> /\ queue'[d] = Tail(queue[d])
      <4>1. i + 1 \in DOMAIN queue[d] /\ queue'[d][i] = queue[d][i + 1]
        BY <1>3, <2>2, <3>2
      <4>2. QED BY <1>3, <3>2, <4>1 DEF IInv, Addressed
    <3>3. QED BY <1>5, <3>1, <3>2
  <2>3. ASSUME NEW y \in Handler, req'[y].reply # None
        PROVE  DeviceOf[req'[y].reply.cmd] = req'[y].dev
    BY <1>4, <2>1, <2>3 DEF IInv, Addressed
  <2>4. QED BY <2>2, <2>3 DEF Addressed
<1>7. Busy' /\ Stored'
  BY <1>2, <1>3, <1>4 DEF IInv, Busy, Stored
<1>8. Held' /\ NoPhantomResult' /\ SuccessMeansSaved'
  BY <1>1, <1>2, SameDelivered DEF IInv, Held, NoPhantomResult, SuccessMeansSaved, TypeOK
<1>9. Reported'
  BY <1>1, <1>2, <1>4, SameDelivered DEF IInv, Reported, TypeOK, Request
<1>10. QED BY <1>1, <1>6, <1>7, <1>8, <1>9 DEF IInv

\* The only step that delivers: the answer to the request its device waits for.
LEMMA ReplyInv == ASSUME IInv, NEW x \in Handler, Reply(x)
                  PROVE  IInv'
<1>1. TypeOK /\ TypeOK'
  BY ReplyType DEF IInv
<1>2. PICK d \in Device, e \in Entry \cup {None} : req[x].dev = d /\ req[x].reply = e
  BY <1>1 DEF IInv, Busy, Reply, TypeOK, Request
<1>3. UNCHANGED <<row, queue, saved, strays>>
  BY DEF Reply, producerVars
<1>4. req' = [req EXCEPT ![x] = IdleRequest]
  BY DEF Reply
<1>5. req'[x] = IdleRequest /\ \A y \in Handler \ {x} : req'[y] = req[y]
  BY <1>1, <1>4 DEF TypeOK
<1>6. \/ delivered' = delivered /\ exec' = exec
      \/ delivered' = delivered /\ exec' = [exec EXCEPT ![d] = None]
      \/ /\ e # None
         /\ delivered' = [delivered EXCEPT ![d] = Append(@, e)]
         /\ exec' = [exec EXCEPT ![d] = e.cmd]
  BY <1>2 DEF Reply, deviceVars
<1>7. e # None => DeviceOf[e.cmd] = d
  BY <1>2 DEF IInv, Addressed
<1>8. /\ \A c \in Cmd : Delivered(c) => Delivered(c)'
      /\ \A k \in Device : exec'[k] = None \/ exec'[k] = exec[k] \/ Delivered(exec[k])'
  <2>1. CASE delivered' = delivered
    <3>1. \A k \in Device : exec'[k] = None \/ exec'[k] = exec[k]
      <4>1. exec' = exec \/ exec' = [exec EXCEPT ![d] = None]
        <5>1. delivered[d] # Append(delivered[d], e)
          BY <1>1, <1>2 DEF TypeOK
        <5>2. QED BY <1>1, <1>2, <1>6, <2>1, <5>1 DEF TypeOK
      <4>2. QED BY <1>1, <4>1 DEF TypeOK
    <3>2. QED BY <2>1, <3>1, SameDelivered
  <2>2. CASE /\ e # None
             /\ delivered' = [delivered EXCEPT ![d] = Append(@, e)]
             /\ exec' = [exec EXCEPT ![d] = e.cmd]
    <3>1. e \in Entry
      BY <1>2, <2>2
    <3>2. /\ \A c \in Cmd : Delivered(c) => Delivered(c)'
          /\ Delivered(e.cmd)'
      BY <1>1, <1>2, <1>7, <2>2, <3>1, DeliveredGrows
    <3>3. exec'[d] = e.cmd /\ \A k \in Device \ {d} : exec'[k] = exec[k]
      BY <1>1, <1>2, <2>2 DEF TypeOK
    <3>4. QED BY <3>2, <3>3 DEF Delivered
  <2>3. QED BY <1>6, <2>1, <2>2
<1>9. Busy' /\ Stored'
  BY <1>3, <1>5 DEF IInv, Busy, Stored, IdleRequest
<1>10. Addressed'
  BY <1>3, <1>5 DEF IInv, Addressed, IdleRequest
<1>11. Held'
  <2>1. ASSUME NEW k \in Device, exec'[k] # None PROVE Delivered(exec[k])'
    <3>1. CASE exec'[k] = exec[k]
      <4>1. PICK c \in Cmd : exec[k] = c
        BY <1>1, <2>1, <3>1 DEF TypeOK
      <4>2. Delivered(c)'
        BY <1>8, <2>1, <3>1, <4>1 DEF IInv, Held
      <4>3. QED BY <3>1, <4>1, <4>2 DEF Delivered
    <3>2. QED BY <1>8, <2>1, <3>1
  <2>2. QED BY <2>1 DEF Held
<1>12. Reported'
  <2>1. ASSUME NEW y \in Handler, req'[y].cmd # None PROVE Delivered(req[y].cmd)'
    <3>1. y # x /\ req'[y] = req[y]
      BY <1>5, <2>1 DEF IdleRequest
    <3>2. PICK c \in Cmd : req[y].cmd = c
      BY <1>1, <2>1, <3>1 DEF TypeOK, Request
    <3>3. Delivered(c)'
      BY <1>8, <2>1, <3>1, <3>2 DEF IInv, Reported
    <3>4. QED BY <3>1, <3>2, <3>3 DEF Delivered
  <2>2. QED BY <2>1 DEF Reported
<1>13. NoPhantomResult' /\ SuccessMeansSaved'
  BY <1>3, <1>8 DEF IInv, NoPhantomResult, SuccessMeansSaved
<1>14. QED BY <1>1, <1>9, <1>10, <1>11, <1>12, <1>13 DEF IInv

\* Crashes, cut sessions and expiring keys forget requests and entries, and
\* make up none.
LEMMA OtherInv == ASSUME IInv,
                         \/ Crash
                         \/ \E d \in Device : GiveUp(d) \/ Cut(d) \/ QueueExpires(d) \/ LockExpires(d)
                  PROVE  IInv'
<1>1. TypeOK /\ TypeOK'
  BY OtherType DEF IInv
<1>2. UNCHANGED <<row, delivered, saved, strays>>
  BY DEF Crash, GiveUp, Cut, QueueExpires, LockExpires, producerVars, deviceVars
<1>3. req' = req \/ req' = [x \in Handler |-> IdleRequest]
  BY DEF Crash, GiveUp, Cut, QueueExpires, LockExpires
<1>4. \A d \in Device : queue'[d] = queue[d] \/ queue'[d] = <<>>
  BY <1>1 DEF Crash, GiveUp, Cut, QueueExpires, LockExpires, TypeOK
<1>5. \A d \in Device : exec'[d] = exec[d] \/ exec'[d] = None
  BY <1>1 DEF Crash, GiveUp, Cut, QueueExpires, LockExpires, TypeOK, deviceVars
<1>6. Busy' /\ Stored'
  BY <1>2, <1>3 DEF IInv, Busy, Stored, IdleRequest
<1>7. Addressed'
  BY <1>3, <1>4 DEF IInv, Addressed, IdleRequest
<1>8. Held'
  BY <1>1, <1>2, <1>5, SameDelivered DEF IInv, Held, TypeOK
<1>9. Reported'
  BY <1>1, <1>2, <1>3, SameDelivered DEF IInv, Reported, IdleRequest, TypeOK, Request
<1>10. NoPhantomResult' /\ SuccessMeansSaved'
  BY <1>2, SameDelivered DEF IInv, NoPhantomResult, SuccessMeansSaved
<1>11. QED BY <1>1, <1>6, <1>7, <1>8, <1>9, <1>10 DEF IInv

\* Steps that change nothing of the channel.
LEMMA StutterInv == ASSUME IInv, UNCHANGED vars
                    PROVE  IInv'
BY DEF vars, IInv, TypeOK, Busy, Addressed, Held, Reported, Stored, Delivered,
       NoPhantomResult, SuccessMeansSaved

\* The inductive invariant is kept by every step.
LEMMA NextInv == IInv /\ [Next]_vars => IInv'
<1> SUFFICES ASSUME IInv, [Next]_vars PROVE IInv'
  OBVIOUS
<1>1. ASSUME NEW c \in Cmd, Produce(c) PROVE IInv'
  BY <1>1, ProduceInv
<1>2. ASSUME NEW d \in Device, NEW x \in Handler, Ask(d, x) PROVE IInv'
  BY <1>2, AskInv
<1>3. ASSUME NEW x \in Handler, Serve(x) PROVE IInv'
  BY <1>3, LookupInv, ResultInv, RecordInv, GetMessageInv, ReplyInv DEF Serve
<1>4. CASE \/ Crash
           \/ \E d \in Device : GiveUp(d) \/ Cut(d) \/ QueueExpires(d) \/ LockExpires(d)
  BY <1>4, OtherInv
<1>5. CASE UNCHANGED vars
  BY <1>5, StutterInv
<1>6. QED BY <1>1, <1>2, <1>3, <1>4, <1>5 DEF Next

-----------------------------------------------------------------------------

\* IInv is an invariant: the three theorems below are its parts.
THEOREM Invariance == Spec => []IInv
BY InitInv, NextInv, PTL DEF Spec

\* Every variable of the channel keeps its type, whatever faults happen.
THEOREM TypeCorrect == Spec => []TypeOK
<1>1. IInv => TypeOK
  BY DEF IInv
<1>2. QED BY <1>1, Invariance, PTL

\* An event_log row speaks of an answer only after its command reached the
\* device (EventProcessor.ProcessResult, ACSHandler.pollForCommand).
THEOREM ResultsAreReal == Spec => []NoPhantomResult
<1>1. IInv => NoPhantomResult
  BY DEF IInv
<1>2. QED BY <1>1, Invariance, PTL

\* The success of a GetParameterValues command implies that its values are in
\* the database, or their loss was logged, even if handlers race for the
\* parameter lock or it expires.
THEOREM SuccessIsSaved == Spec => []SuccessMeansSaved
<1>1. IInv => SuccessMeansSaved
  BY DEF IInv
<1>2. QED BY <1>1, Invariance, PTL

=============================================================================
