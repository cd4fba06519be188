------------------------- MODULE WebSocketHub_proofs -------------------------
(***************************************************************************)
(* Theorems about WebSocketHub for every set of clients, all capacities of *)
(* the channels and any number of messages.                                *)
(***************************************************************************)
EXTENDS WebSocketHub, TLAPS

-----------------------------------------------------------------------------
(* The inductive invariant: whoever is about to send has looked up the      *)
(* client under a lock, and the lock is still held.                         *)

\* The channel of a client in the map is open.
OpenInMap == \A c \in clients : send[c].open

\* So is that of a client on its way into the map, which is not there yet.
OpenBefore ==
  /\ \A c \in Client : reader[c] \in {"new", "register"} => send[c].open /\ c \notin clients
  /\ hub.pc = "register" => \A c \in hub.who : send[c].open

\* The loop only serves clients of the map, and has one at hand to take out.
LoopInMap ==
  /\ hub.pc \in {"deliver", "drop"} => hub.who \subseteq clients
  /\ hub.pc = "drop" => hub.slow # {} /\ hub.who \cap hub.slow = {}
  /\ hub.pc = "unregister" => hub.who # {}
  /\ hub.pc = "register" => \A c \in hub.who : reader[c] \notin {"new", "register"}

\* The messages the loop and the bridge have in hand.
InHand ==
  /\ hub.pc \in {"deliver", "drop"} => hub.msg \in Message
  /\ topic.on => topic.msg \in Message
  /\ \A c \in Client : writer[c].pc = "write" => writer[c].msg \in Message

\* So does the bridge, and nobody leaves the map before it is done.
TopicInMap ==
  /\ topic.todo \subseteq clients
  /\ topic.todo # {} => topic.on

IInv ==
  /\ TypeOK
  /\ OpenInMap
  /\ OpenBefore
  /\ LoopInMap
  /\ InHand
  /\ TopicInMap
  /\ NoPanic

-----------------------------------------------------------------------------
(* Each step preserves it *)

LEMMA InitInv == Init => IInv
<1> USE HubAssumption
<1> SUFFICES ASSUME Init PROVE IInv
  OBVIOUS
<1>1. TypeOK
  <2>1. <<>> \in Seq(Message) /\ Len(<<>>) = 0
    OBVIOUS
  <2>2. send \in [Client -> Channel] /\ \A c \in Client : Len(send[c].buf) <= SendCap
    BY <2>1 DEF Init, Channel
  <2>3. writer \in [Client -> [pc : {"new", "wait", "write", "ended"}, msg : Message \cup {<<>>}]]
    BY DEF Init, Waiting
  <2>4. hub \in [pc : {"select", "register", "unregister", "deliver", "drop"},
                 who : SUBSET Client, slow : SUBSET Client, msg : Message \cup {<<>>}]
    BY DEF Init, Looping
  <2>5. topic \in [on : BOOLEAN, todo : SUBSET Client, msg : Message \cup {<<>>}]
    BY DEF Init, Quiet
  <2>6. got \in [Client -> Seq(Message)]
    BY <2>1 DEF Init
  <2>7. /\ broadcast = <<>> /\ clients = {} /\ up = Client /\ panicked = FALSE
        /\ published = 0 /\ called = 0 /\ reader = [c \in Client |-> "new"]
    BY Zenon DEF Init
  <2>8. broadcast \in Seq(Message) /\ Len(broadcast) <= BroadcastCap
    BY <2>1, <2>7
  <2>9. published \in 0..MaxTopic /\ called \in 0..MaxCallback
    BY <2>7
  <2>10. reader \in [Client -> {"new", "register", "read", "unregister", "ended"}]
    BY <2>7, Zenon
  <2> QED BY <2>2, <2>3, <2>4, <2>5, <2>6, <2>7, <2>8, <2>9, <2>10 DEF TypeOK
<1>2. OpenInMap /\ OpenBefore /\ LoopInMap /\ InHand /\ TopicInMap /\ NoPanic
  BY DEF Init, OpenInMap, OpenBefore, LoopInMap, InHand, TopicInMap, NoPanic, Looping, Quiet, Waiting
<1> QED BY <1>1, <1>2 DEF IInv

\* What stands in for a message when there is none is no message.
LEMMA EmptyIsNoMessage == <<>> \notin Message
BY DEF Message

\* What sending to a client of the map does: there is no panic.
Sent(c, m) ==
  /\ send' \in [Client -> Channel]
  /\ \A x \in Client : Len(send'[x].buf) <= SendCap
  /\ \A x \in Client : send'[x].open = send[x].open
  /\ panicked' = panicked

\* The client is in the map, and so its channel is open.
LEMMA SendInMap ==
  ASSUME IInv, NEW c \in clients, NEW m \in Message, ~Full(c), Send(c, m)
  PROVE  Sent(c, m)
<1>1. c \in Client /\ send[c].open /\ send[c] \in Channel
  BY DEF IInv, TypeOK, OpenInMap
<1>2. send[c].buf \in Seq(Message) /\ Len(send[c].buf) < SendCap
  BY <1>1, HubAssumption DEF Channel, Full
<1>3. Append(send[c].buf, m) \in Seq(Message) /\ Len(Append(send[c].buf, m)) <= SendCap
  BY <1>2, HubAssumption
<1>4. send' = [send EXCEPT ![c].buf = Append(send[c].buf, m)]
  BY DEF Send
<1>5. send'[c].buf = Append(send[c].buf, m) /\ send'[c].open = send[c].open
      /\ send'[c] \in Channel
  BY <1>1, <1>3, <1>4 DEF IInv, TypeOK, Channel
<1>6. \A x \in Client \ {c} : send'[x] = send[x]
  BY <1>4 DEF IInv, TypeOK
<1>7. panicked' = panicked
  BY <1>1 DEF Send, IInv, TypeOK
<1> QED BY <1>1, <1>3, <1>4, <1>5, <1>6, <1>7 DEF Sent, IInv, TypeOK, Channel

\* What taking a client out does: it is not in the map any more, the channels of
\* the others stay open, and nothing is closed twice.
Removed(c) ==
  /\ clients' = clients \ {c}
  /\ send' \in [Client -> Channel]
  /\ \A x \in Client : Len(send'[x].buf) <= SendCap
  /\ \A x \in Client : x # c => send'[x].open = send[x].open
  /\ c \notin clients => send' = send
  /\ panicked' = panicked

LEMMA RemoveKeepsMap ==
  ASSUME IInv, NEW c \in Client, Remove(c)
  PROVE  Removed(c)
<1>1. CASE c \in clients
  <2>1. clients' = clients \ {c} /\ send' = [send EXCEPT ![c].open = FALSE]
    BY <1>1 DEF Remove, Close
  <2>2. panicked' = panicked
    BY <1>1 DEF Remove, Close, IInv, TypeOK, OpenInMap
  <2>3. /\ send' \in [Client -> Channel]
        /\ \A x \in Client : send'[x].buf = send[x].buf
        /\ \A x \in Client : x # c => send'[x] = send[x]
    <3>1. send \in [Client -> Channel] /\ send[c] \in Channel
      BY DEF IInv, TypeOK
    <3>2. /\ [send[c] EXCEPT !.open = FALSE] \in Channel
          /\ [send[c] EXCEPT !.open = FALSE].buf = send[c].buf
      BY <3>1 DEF Channel
    <3> QED BY <2>1, <3>1, <3>2
  <2> QED BY <1>1, <2>1, <2>2, <2>3 DEF Removed, IInv, TypeOK
<1>2. CASE c \notin clients
  BY <1>2 DEF Remove, Removed, IInv, TypeOK
<1> QED BY <1>1, <1>2

LEMMA LoopSteps ==
  ASSUME IInv,
         \/ \E c \in Client : TakeRegister(c) \/ TakeUnregister(c)
         \/ Register \/ TakeBroadcast \/ EndBroadcast
  PROVE  IInv'
<1>1. CASE \E c \in Client : TakeRegister(c)
  <2> PICK c \in Client : TakeRegister(c)
    BY <1>1
  <2>1. TypeOK'
    BY DEF IInv, TypeOK, TakeRegister, Looping, Waiting, sourceVars
  <2>2. hub'.pc = "register" /\ hub'.who = {c} /\ reader'[c] = "read" /\ reader[c] = "register"
    BY DEF IInv, TypeOK, TakeRegister, Looping
  <2>3. \A x \in Client \ {c} : reader'[x] = reader[x]
    BY DEF IInv, TypeOK, TakeRegister
  <2>4. \A x \in Client : writer'[x].pc = "write" => writer'[x] = writer[x]
    BY DEF IInv, TypeOK, TakeRegister, Waiting
  <2>5. UNCHANGED <<clients, send, topic, panicked>>
    BY DEF TakeRegister
  <2>6. (OpenInMap /\ OpenBefore /\ LoopInMap)'
    BY <2>2, <2>3, <2>5 DEF IInv, OpenInMap, OpenBefore, LoopInMap
  <2>7. (InHand /\ TopicInMap /\ NoPanic)'
    BY <2>2, <2>4, <2>5 DEF IInv, InHand, TopicInMap, NoPanic
  <2> QED BY <2>1, <2>6, <2>7 DEF IInv
<1>2. CASE \E c \in Client : TakeUnregister(c)
  <2> PICK c \in Client : TakeUnregister(c)
    BY <1>2
  <2>1. TypeOK'
    BY DEF IInv, TypeOK, TakeUnregister, HubFrame, Looping, sourceVars
  <2>2. (OpenInMap /\ OpenBefore /\ LoopInMap /\ InHand /\ TopicInMap /\ NoPanic)'
    BY DEF IInv, TypeOK, TakeUnregister, HubFrame, Looping, sourceVars,
           OpenInMap, OpenBefore, LoopInMap, InHand, TopicInMap, NoPanic
  <2> QED BY <2>1, <2>2 DEF IInv
<1>3. CASE Register
  <2>1. TypeOK'
    BY <1>3 DEF IInv, TypeOK, Register, HubFrame, Looping, sourceVars
  <2>2. (OpenInMap /\ OpenBefore /\ LoopInMap /\ InHand /\ TopicInMap /\ NoPanic)'
    BY <1>3 DEF IInv, TypeOK, Register, HubFrame, Looping, sourceVars,
           OpenInMap, OpenBefore, LoopInMap, InHand, TopicInMap, NoPanic
  <2> QED BY <2>1, <2>2 DEF IInv
<1>4. CASE TakeBroadcast
  <2>1. Head(broadcast) \in Message /\ Tail(broadcast) \in Seq(Message)
        /\ Len(Tail(broadcast)) <= BroadcastCap
    BY <1>4, HubAssumption DEF IInv, TypeOK, TakeBroadcast
  <2>3. hub' \in [pc : {"select", "register", "unregister", "deliver", "drop"},
                  who : SUBSET Client, slow : SUBSET Client, msg : Message \cup {<<>>}]
    BY <1>4, <2>1 DEF IInv, TypeOK, TakeBroadcast
  <2>4. TypeOK'
    BY <1>4, <2>1, <2>3 DEF IInv, TypeOK, TakeBroadcast, HubFrame, sourceVars
  <2>2. (OpenInMap /\ OpenBefore /\ LoopInMap /\ InHand /\ TopicInMap /\ NoPanic)'
    BY <1>4, <2>1 DEF IInv, TypeOK, TakeBroadcast, HubFrame, sourceVars,
           OpenInMap, OpenBefore, LoopInMap, InHand, TopicInMap, NoPanic
  <2> QED BY <2>2, <2>4 DEF IInv
<1>5. CASE EndBroadcast
  <2>1. TypeOK'
    BY <1>5 DEF IInv, TypeOK, EndBroadcast, HubFrame, Looping, sourceVars
  <2>2. (OpenInMap /\ OpenBefore /\ LoopInMap /\ InHand /\ TopicInMap /\ NoPanic)'
    BY <1>5 DEF IInv, TypeOK, EndBroadcast, HubFrame, Looping, sourceVars,
           OpenInMap, OpenBefore, LoopInMap, InHand, TopicInMap, NoPanic
  <2> QED BY <2>1, <2>2 DEF IInv
<1> QED BY <1>1, <1>2, <1>3, <1>4, <1>5

LEMMA ServeSteps ==
  ASSUME IInv,
         \/ \E c \in Client : Deliver(c) \/ DeliverTopic(c)
         \/ BeginTopic \/ EndTopic \/ BroadcastMessage
  PROVE  IInv'
<1>1. CASE \E c \in Client : Deliver(c)
  <2> PICK c \in Client : Deliver(c)
    BY <1>1
  <2>1. CASE Full(c)
    <3>1. /\ hub' = [hub EXCEPT !.pc = "drop", !.who = @ \ {c}, !.slow = {c}]
          /\ UNCHANGED <<clients, send, broadcast, topic, reader, writer, up, got, published, called, panicked>>
      BY <2>1 DEF Deliver, HubFrame, sourceVars
    <3>2. /\ hub.pc = "deliver" /\ hub'.pc = "drop" /\ hub'.who = hub.who \ {c} /\ hub'.slow = {c}
          /\ hub'.msg = hub.msg
      BY <3>1 DEF Deliver, IInv, TypeOK
    <3>3. TypeOK'
      BY <3>1 DEF IInv, TypeOK
    <3>4. (OpenInMap /\ OpenBefore /\ LoopInMap /\ InHand /\ TopicInMap /\ NoPanic)'
      BY <3>1, <3>2 DEF IInv, OpenInMap, OpenBefore, LoopInMap, InHand, TopicInMap, NoPanic
    <3> QED BY <3>3, <3>4 DEF IInv
  <2>2. CASE ~Full(c)
    <3>1. /\ hub' = [hub EXCEPT !.who = @ \ {c}]
          /\ Send(c, hub.msg)
          /\ UNCHANGED <<clients, broadcast, topic, reader, writer, up, got, published, called>>
      BY <2>2 DEF Deliver, HubFrame, sourceVars
    <3>2. /\ hub.pc = "deliver" /\ hub'.pc = "deliver" /\ hub'.who = hub.who \ {c}
          /\ hub'.msg = hub.msg /\ c \in clients /\ hub.msg \in Message
          /\ clients \subseteq Client
      BY <3>1 DEF Deliver, IInv, TypeOK, LoopInMap, InHand
    <3>3. IInv /\ Sent(c, hub.msg)
      BY <2>2, <3>1, <3>2, SendInMap
    <3>4. TypeOK'
      BY <3>1, <3>3 DEF IInv, TypeOK, Sent
    <3>5. (OpenInMap /\ OpenBefore /\ LoopInMap /\ InHand /\ TopicInMap /\ NoPanic)'
      BY <3>1, <3>2, <3>3
      DEF IInv, OpenInMap, OpenBefore, LoopInMap, InHand, TopicInMap, NoPanic, Sent
    <3> QED BY <3>4, <3>5 DEF IInv
  <2> QED BY <2>1, <2>2
<1>2. CASE \E c \in Client : DeliverTopic(c)
  <2> PICK c \in Client : DeliverTopic(c)
    BY <1>2
  <2>1. /\ topic' = [topic EXCEPT !.todo = @ \ {c}]
        /\ UNCHANGED <<clients, broadcast, hub, reader, writer, up, got, published, called>>
        /\ c \in clients /\ topic.msg \in Message
    BY DEF DeliverTopic, BridgeFrame, pumpVars, sourceVars, IInv, TopicInMap, InHand
  <2>2. Sent(c, topic.msg) \/ UNCHANGED <<send, panicked>>
    BY <2>1, SendInMap DEF DeliverTopic
  <2>3. /\ send' \in [Client -> Channel] /\ \A x \in Client : Len(send'[x].buf) <= SendCap
        /\ \A x \in Client : send'[x].open = send[x].open
        /\ panicked' = panicked
    BY <2>2 DEF IInv, TypeOK, Sent
  <2>4. TypeOK'
    BY <2>1, <2>3 DEF IInv, TypeOK
  <2>5. topic'.todo \subseteq topic.todo /\ topic'.on = topic.on /\ topic'.msg = topic.msg
    BY <2>1 DEF IInv, TypeOK
  <2>6. (OpenInMap /\ OpenBefore /\ LoopInMap /\ InHand /\ TopicInMap /\ NoPanic)'
    BY <2>1, <2>3, <2>5
    DEF IInv, TypeOK, OpenInMap, OpenBefore, LoopInMap, InHand, TopicInMap, NoPanic
  <2> QED BY <2>4, <2>6 DEF IInv
<1>3. CASE BeginTopic
  <2>1. published' \in 0..MaxTopic /\ topic'.msg \in Message
    BY <1>3, HubAssumption DEF BeginTopic, IInv, TypeOK, Message
  <2>2. TypeOK'
    BY <1>3, <2>1 DEF BeginTopic, BridgeFrame, pumpVars, IInv, TypeOK
  <2>3. (OpenInMap /\ OpenBefore /\ LoopInMap /\ InHand /\ TopicInMap /\ NoPanic)'
    BY <1>3, <2>1 DEF BeginTopic, BridgeFrame, pumpVars, IInv,
           OpenInMap, OpenBefore, LoopInMap, InHand, TopicInMap, NoPanic
  <2> QED BY <2>2, <2>3 DEF IInv
<1>4. CASE EndTopic
  <2>1. TypeOK'
    BY <1>4 DEF EndTopic, BridgeFrame, pumpVars, sourceVars, IInv, TypeOK, Quiet
  <2>2. (OpenInMap /\ OpenBefore /\ LoopInMap /\ InHand /\ TopicInMap /\ NoPanic)'
    BY <1>4 DEF EndTopic, BridgeFrame, pumpVars, sourceVars, IInv, Quiet,
           OpenInMap, OpenBefore, LoopInMap, InHand, TopicInMap, NoPanic
  <2> QED BY <2>1, <2>2 DEF IInv
<1>5. CASE BroadcastMessage
  <2>1. called' \in 0..MaxCallback /\ <<"callback", called + 1>> \in Message
    BY <1>5, HubAssumption DEF BroadcastMessage, IInv, TypeOK, Message
  <2>2. broadcast' \in Seq(Message) /\ Len(broadcast') <= BroadcastCap
    <3>1. broadcast \in Seq(Message) /\ Len(broadcast) \in Nat /\ Len(broadcast) <= BroadcastCap
      BY DEF IInv, TypeOK
    <3>2. \/ Len(broadcast) < BroadcastCap /\ broadcast' = Append(broadcast, <<"callback", called + 1>>)
          \/ broadcast' = broadcast
      BY <1>5 DEF BroadcastMessage
    <3> QED BY <2>1, <3>1, <3>2, HubAssumption
  <2>3. TypeOK'
    BY <1>5, <2>1, <2>2 DEF BroadcastMessage, BridgeFrame, pumpVars, IInv, TypeOK
  <2>4. (OpenInMap /\ OpenBefore /\ LoopInMap /\ InHand /\ TopicInMap /\ NoPanic)'
    BY <1>5 DEF BroadcastMessage, BridgeFrame, pumpVars, IInv,
           OpenInMap, OpenBefore, LoopInMap, InHand, TopicInMap, NoPanic
  <2> QED BY <2>3, <2>4 DEF IInv
<1> QED BY <1>1, <1>2, <1>3, <1>4, <1>5

LEMMA RemoveSteps ==
  ASSUME IInv, Unregister \/ Drop
  PROVE  IInv'
<1>1. CASE Unregister
  <2>1. PICK c \in hub.who : c \in Client /\ Remove(c)
    BY <1>1 DEF Unregister, IInv, LoopInMap, TypeOK
  <2>2. TypeOK /\ Removed(c)
    BY <1>1, <2>1, RemoveKeepsMap DEF IInv
  <2>3. topic.todo = {} /\ hub'.pc = "select" /\ hub' = Looping
    BY <1>1 DEF Unregister, MayLock, IInv, TopicInMap, Looping
  <2>4. /\ UNCHANGED <<broadcast, topic, reader, writer, up, got, published, called>>
        /\ clients \subseteq Client
    BY <1>1 DEF Unregister, HubFrame, sourceVars, IInv, TypeOK
  <2>5. TypeOK'
    BY <2>2, <2>3, <2>4 DEF TypeOK, Removed, Looping
  <2>6. (OpenInMap /\ OpenBefore /\ LoopInMap /\ InHand /\ TopicInMap /\ NoPanic)'
    BY <2>2, <2>3, <2>4
    DEF IInv, OpenInMap, OpenBefore, LoopInMap, InHand, TopicInMap, NoPanic, Removed
  <2> QED BY <2>5, <2>6 DEF IInv
<1>2. CASE Drop
  <2>1. PICK c \in hub.slow : c \in Client /\ Remove(c)
    BY <1>2 DEF Drop, IInv, LoopInMap, TypeOK
  <2>2. TypeOK /\ Removed(c)
    BY <1>2, <2>1, RemoveKeepsMap DEF IInv
  <2>3. topic.todo = {} /\ hub'.pc = "deliver" /\ hub'.who = hub.who /\ hub'.msg = hub.msg
        /\ hub.pc = "drop"
    BY <1>2 DEF Drop, MayLock, IInv, TopicInMap, TypeOK
  <2>4. /\ UNCHANGED <<broadcast, topic, reader, writer, up, got, published, called>>
        /\ clients \subseteq Client
    BY <1>2 DEF Drop, HubFrame, sourceVars, IInv, TypeOK
  <2>5. TypeOK'
    BY <1>2, <2>2, <2>4 DEF Drop, TypeOK, Removed
  <2>6. (OpenInMap /\ OpenBefore /\ InHand /\ TopicInMap /\ NoPanic)'
    BY <2>2, <2>3, <2>4
    DEF IInv, OpenInMap, OpenBefore, InHand, TopicInMap, NoPanic, Removed
  <2>7. LoopInMap'
    BY <2>1, <2>2, <2>3 DEF IInv, LoopInMap, Removed
  <2> QED BY <2>5, <2>6, <2>7 DEF IInv
<1> QED BY <1>1, <1>2

\* A pump leaves the map and the loop alone.
LEMMA PumpSteps ==
  ASSUME IInv, NEW c \in Client,
         ServeWS(c) \/ Disconnect(c) \/ ReadFails(c) \/ ReadRefused(c) \/ WriteStep(c)
  PROVE  IInv'
<1>1. CASE ServeWS(c) \/ Disconnect(c) \/ ReadFails(c) \/ ReadRefused(c)
  <2>1. UNCHANGED <<clients, send, broadcast, hub, topic, writer, got, published, called, panicked>>
    BY <1>1 DEF ServeWS, Disconnect, ReadFails, ReadRefused, ReadFrame, PumpFrame, sourceVars
  <2>2. /\ reader' \in [Client -> {"new", "register", "read", "unregister", "ended"}]
        /\ up' \subseteq Client
        /\ \A x \in Client : reader'[x] \in {"new", "register"} => reader[x] \in {"new", "register"}
    BY <1>1 DEF ServeWS, Disconnect, ReadFails, ReadRefused, IInv, TypeOK
  <2>3. TypeOK'
    BY <2>1, <2>2 DEF IInv, TypeOK
  <2>4. \A x \in hub.who : x \in Client
    BY DEF IInv, TypeOK
  <2>5. (OpenInMap /\ OpenBefore /\ LoopInMap /\ InHand /\ TopicInMap /\ NoPanic)'
    BY <2>1, <2>2, <2>4 DEF IInv, OpenInMap, OpenBefore, LoopInMap, InHand, TopicInMap, NoPanic
  <2> QED BY <2>3, <2>5 DEF IInv
<1>2. CASE WriteStep(c)
  <2>1. UNCHANGED <<clients, broadcast, hub, topic, reader, published, called, panicked>>
    BY <1>2 DEF WriteStep, TakeMessage, Write, StopWriting, WriteFrame, PumpFrame, sourceVars
  <2>2. send[c] \in Channel /\ send[c].buf \in Seq(Message) /\ Len(send[c].buf) <= SendCap
    BY DEF IInv, TypeOK, Channel
  <2>3. PICK b : /\ b \in Seq(Message) /\ Len(b) <= SendCap
                 /\ send' = [send EXCEPT ![c].buf = b] \/ send' = send
    <3>1. CASE TakeMessage(c)
      <4>1. Tail(send[c].buf) \in Seq(Message) /\ Len(Tail(send[c].buf)) <= SendCap
        BY <2>2, <3>1, HubAssumption DEF TakeMessage
      <4> QED BY <3>1, <4>1 DEF TakeMessage
    <3>2. CASE Write(c) \/ StopWriting(c)
      <4>1. <<>> \in Seq(Message) /\ Len(<<>>) <= SendCap
        BY HubAssumption
      <4> QED BY <3>2, <4>1 DEF Write, StopWriting
    <3> QED BY <1>2, <3>1, <3>2 DEF WriteStep
  <2>4. /\ send' \in [Client -> Channel] /\ \A x \in Client : Len(send'[x].buf) <= SendCap
        /\ \A x \in Client : send'[x].open = send[x].open
    <3>1. CASE send' = [send EXCEPT ![c].buf = b]
      <4>1. /\ send'[c].buf = b /\ send'[c].open = send[c].open /\ send'[c] \in Channel
            /\ \A x \in Client \ {c} : send'[x] = send[x]
        <5>1. send \in [Client -> Channel] /\ b \in Seq(Message)
          BY <2>3 DEF IInv, TypeOK
        <5> QED BY <2>2, <3>1, <5>1 DEF Channel
      <4>2. send' \in [Client -> Channel]
        BY <3>1, <4>1 DEF IInv, TypeOK
      <4> QED BY <2>3, <4>1, <4>2 DEF IInv, TypeOK
    <3>2. CASE send' = send
      BY <3>2 DEF IInv, TypeOK
    <3> QED BY <2>3, <3>1, <3>2
  <2>5. /\ writer' \in [Client -> [pc : {"new", "wait", "write", "ended"}, msg : Message \cup {<<>>}]]
        /\ \A x \in Client : writer'[x].pc = "write" => writer'[x].msg \in Message
        /\ up' \subseteq Client
    <3> DEFINE Pump == [pc : {"new", "wait", "write", "ended"}, msg : Message \cup {<<>>}]
    <3>1. /\ [Waiting EXCEPT !.pc = "ended"] \in Pump /\ [Waiting EXCEPT !.pc = "ended"].pc = "ended"
          /\ Waiting \in Pump /\ Waiting.pc = "wait"
      BY DEF Waiting
    <3>2. \A m \in Message : [pc |-> "write", msg |-> m] \in Pump
      OBVIOUS
    <3>3. TakeMessage(c) => Head(send[c].buf) \in Message
      BY <2>2 DEF TakeMessage
    <3>4. PICK w \in Pump : /\ w.pc = "write" => w.msg \in Message
                           /\ writer' = [writer EXCEPT ![c] = w]
      <4>1. CASE writer' = [writer EXCEPT ![c] = [Waiting EXCEPT !.pc = "ended"]]
        BY <3>1, <4>1
      <4>2. CASE writer' = [writer EXCEPT ![c] = Waiting]
        BY <3>1, <4>2
      <4>3. CASE TakeMessage(c) /\ writer' = [writer EXCEPT ![c] = [pc |-> "write", msg |-> Head(send[c].buf)]]
        BY <3>2, <3>3, <4>3
      <4> QED BY <1>2, <4>1, <4>2, <4>3 DEF WriteStep, TakeMessage, Write, StopWriting, EndWrite
    <3>5. up' \subseteq Client
      BY <1>2 DEF WriteStep, TakeMessage, Write, StopWriting, EndWrite, IInv, TypeOK
    <3>6. writer \in [Client -> Pump] /\ \A x \in Client : writer[x].pc = "write" => writer[x].msg \in Message
      BY DEF IInv, TypeOK, InHand
    <3> HIDE DEF Pump
    <3>7. /\ writer' \in [Client -> Pump]
          /\ \A x \in Client : writer'[x].pc = "write" => writer'[x].msg \in Message
      BY <3>4, <3>6
    <3> QED BY <3>5, <3>7 DEF Pump
  <2>6. got' \in [Client -> Seq(Message)]
    <3>1. CASE Write(c)
      <4>1. got[c] \in Seq(Message) /\ writer[c].msg \in Message
        BY <3>1 DEF Write, IInv, TypeOK, InHand
      <4>2. got[c] \o <<writer[c].msg>> \o send[c].buf \in Seq(Message)
        BY <2>2, <4>1
      <4> QED BY <3>1, <4>2 DEF Write, IInv, TypeOK
    <3>2. CASE TakeMessage(c) \/ StopWriting(c)
      BY <3>2 DEF TakeMessage, StopWriting, IInv, TypeOK
    <3> QED BY <1>2, <3>1, <3>2 DEF WriteStep
  <2>7. TypeOK'
    BY <2>1, <2>4, <2>5, <2>6 DEF IInv, TypeOK
  <2>8. clients \subseteq Client /\ hub.who \subseteq Client
    BY DEF IInv, TypeOK
  <2>9. (OpenInMap /\ OpenBefore /\ LoopInMap /\ InHand /\ TopicInMap /\ NoPanic)'
    BY <2>1, <2>4, <2>5, <2>8
    DEF IInv, OpenInMap, OpenBefore, LoopInMap, InHand, TopicInMap, NoPanic
  <2> QED BY <2>7, <2>9 DEF IInv
<1> QED BY <1>1, <1>2

LEMMA NextInv == IInv /\ [Next]_vars => IInv'
<1> SUFFICES ASSUME IInv, [Next]_vars PROVE IInv'
  OBVIOUS
<1>1. CASE Next
  <2>1. CASE HubStep
    BY <2>1, LoopSteps, ServeSteps, RemoveSteps DEF HubStep
  <2>2. CASE BeginTopic \/ BroadcastMessage \/ BridgeStep
    BY <2>2, ServeSteps DEF BridgeStep
  <2>3. CASE \E c \in Client : \/ ServeWS(c) \/ Disconnect(c)
                             \/ ReadFails(c) \/ ReadRefused(c) \/ WriteStep(c)
    BY <2>3, PumpSteps
  <2> QED BY <1>1, <2>1, <2>2, <2>3 DEF Next
<1>2. CASE UNCHANGED vars
  BY <1>2 DEF vars, pumpVars, sourceVars, IInv, TypeOK,
     OpenInMap, OpenBefore, LoopInMap, InHand, TopicInMap, NoPanic
<1> QED BY <1>1, <1>2

-----------------------------------------------------------------------------
(* Theorems *)

\* The map, the channels, the loop and the bridge always fit together as described
\* above, whatever the number of clients and the capacity of their channels.
THEOREM Invariance == Spec => []IInv
BY InitInv, NextInv, PTL DEF Spec

\* All variables keep their types; no channel holds more than its capacity.
THEOREM TypeCorrect == Spec => []TypeOK
<1>1. IInv => TypeOK
  BY DEF IInv
<1> QED BY Invariance, <1>1, PTL

\* No goroutine ever sends to a channel that the loop has closed, and the loop closes
\* none twice: lookup and send are always under one lock.
THEOREM NeverPanics == Spec => []NoPanic
<1>1. IInv => NoPanic
  BY DEF IInv
<1> QED BY Invariance, <1>1, PTL

-----------------------------------------------------------------------------
(* The order of messages.  What a browser has received, what the write pump *)
(* has in hand and what waits in the channel form one line per client, at    *)
(* whose end the loop and the bridge only ever put something younger.        *)

Older(m, n) == m[1] = n[1] => m[2] < n[2]

Sorted(s) == \A i, j \in DOMAIN s : i < j => Older(s[i], s[j])

Elems(s) == {s[i] : i \in DOMAIN s}

Ahead(S, T) == \A m \in S, n \in T : Older(m, n)

InPump(c) == {m \in {writer[c].msg} : writer[c].pc = "write"}

Line(c) ==
  /\ Sorted(got[c]) /\ Sorted(send[c].buf)
  /\ Ahead(Elems(got[c]), InPump(c))
  /\ Ahead(Elems(got[c]), Elems(send[c].buf))
  /\ Ahead(InPump(c), Elems(send[c].buf))

Has(c) == Elems(got[c]) \cup InPump(c) \cup Elems(send[c].buf)

\* Topics are numbered as they are published.
TopicsFollow ==
  /\ topic.on => topic.msg = <<"topic", published>>
  /\ \A c \in Client : \A m \in Has(c) :
       m[1] = "topic" => m[2] <= published /\ (c \in topic.todo => m[2] < published)

\* Callbacks are numbered as they are taken from their queue.
Serving == hub.pc \in {"deliver", "drop"}

CallbacksFollow ==
  /\ Sorted(broadcast)
  /\ \A n \in Elems(broadcast) : n[1] = "callback" /\ n[2] <= called
  /\ Serving => /\ hub.msg[1] = "callback" /\ hub.msg[2] <= called
                /\ \A n \in Elems(broadcast) : hub.msg[2] < n[2]
  /\ \A c \in Client : \A m \in Has(c) : m[1] = "callback" =>
       /\ m[2] <= called
       /\ \A n \in Elems(broadcast) : m[2] < n[2]
       /\ Serving /\ c \in hub.who => m[2] < hub.msg[2]

OInv ==
  /\ \A c \in Client : Line(c)
  /\ TopicsFollow
  /\ CallbacksFollow

LEMMA ConcatSorted ==
  ASSUME NEW s \in Seq(Message), NEW t \in Seq(Message),
         Sorted(s), Sorted(t), Ahead(Elems(s), Elems(t))
  PROVE  Sorted(s \o t) /\ Elems(s \o t) \subseteq Elems(s) \cup Elems(t)
<1>1. \A k \in DOMAIN (s \o t) :
        \/ k \in DOMAIN s /\ (s \o t)[k] = s[k]
        \/ k - Len(s) \in DOMAIN t /\ (s \o t)[k] = t[k - Len(s)]
  OBVIOUS
<1>2. Elems(s \o t) \subseteq Elems(s) \cup Elems(t)
  BY <1>1 DEF Elems
<1>3. ASSUME NEW i \in DOMAIN (s \o t), NEW j \in DOMAIN (s \o t), i < j
      PROVE  Older((s \o t)[i], (s \o t)[j])
  <2>1. i \in Int /\ j \in Int /\ Len(s) \in Nat /\ DOMAIN s = 1..Len(s) /\ DOMAIN t = 1..Len(t)
        /\ Len(t) \in Nat
    OBVIOUS
  <2>2. CASE i \in DOMAIN s /\ j \in DOMAIN s /\ (s \o t)[i] = s[i] /\ (s \o t)[j] = s[j]
    BY <1>3, <2>2 DEF Sorted
  <2>3. CASE /\ i - Len(s) \in DOMAIN t /\ (s \o t)[i] = t[i - Len(s)]
             /\ j - Len(s) \in DOMAIN t /\ (s \o t)[j] = t[j - Len(s)]
    <3>1. i - Len(s) < j - Len(s)
      BY <1>3, <2>1
    <3> QED BY <2>3, <3>1 DEF Sorted
  <2>4. CASE i \in DOMAIN s /\ (s \o t)[i] = s[i] /\ j - Len(s) \in DOMAIN t /\ (s \o t)[j] = t[j - Len(s)]
    BY <2>4 DEF Ahead, Elems
  <2>5. ~(j \in DOMAIN s /\ i - Len(s) \in DOMAIN t)
    BY <1>3, <2>1
  <2> QED BY <1>1, <2>2, <2>3, <2>4, <2>5
<1> QED BY <1>2, <1>3 DEF Sorted

LEMMA SingletonSorted ==
  ASSUME NEW m \in Message
  PROVE  Sorted(<<m>>) /\ Elems(<<m>>) = {m} /\ <<m>> \in Seq(Message)
BY DEF Sorted, Elems

LEMMA AppendSorted ==
  ASSUME NEW s \in Seq(Message), NEW m \in Message, Sorted(s), Ahead(Elems(s), {m})
  PROVE  Sorted(Append(s, m)) /\ Elems(Append(s, m)) \subseteq Elems(s) \cup {m}
<1>1. Append(s, m) = s \o <<m>>
  OBVIOUS
<1>2. <<m>> \in Seq(Message) /\ Sorted(<<m>>) /\ Elems(<<m>>) = {m}
  BY SingletonSorted
<1>3. Sorted(s \o <<m>>) /\ Elems(s \o <<m>>) \subseteq Elems(s) \cup Elems(<<m>>)
  <2>1. Ahead(Elems(s), Elems(<<m>>))
    BY <1>2
  <2> QED BY <1>2, <2>1, ConcatSorted
<1> QED BY <1>1, <1>2, <1>3, Zenon

LEMMA TailSorted ==
  ASSUME NEW s \in Seq(Message), s # <<>>, Sorted(s)
  PROVE  /\ Sorted(Tail(s)) /\ Elems(Tail(s)) \subseteq Elems(s)
         /\ Head(s) \in Elems(s) /\ Ahead({Head(s)}, Elems(Tail(s)))
<1>1. \A k \in DOMAIN Tail(s) : k \in Int /\ k + 1 \in DOMAIN s /\ Tail(s)[k] = s[k + 1] /\ k >= 1
  OBVIOUS
<1>2. 1 \in DOMAIN s /\ Head(s) = s[1]
  OBVIOUS
<1>3. Sorted(Tail(s))
  BY <1>1 DEF Sorted
<1>4. Elems(Tail(s)) \subseteq Elems(s) /\ Head(s) \in Elems(s)
  BY <1>1, <1>2 DEF Elems
<1>5. Ahead({Head(s)}, Elems(Tail(s)))
  BY <1>1, <1>2 DEF Ahead, Elems, Sorted
<1> QED BY <1>3, <1>4, <1>5

LEMMA InitOrder == Init => OInv
<1> SUFFICES ASSUME Init PROVE OInv
  OBVIOUS
<1>1. /\ \A c \in Client : got[c] = <<>> /\ send[c].buf = <<>> /\ writer[c].pc = "new"
      /\ broadcast = <<>> /\ topic.on = FALSE /\ hub.pc = "select"
  BY DEF Init, Looping, Quiet, Waiting
<1>2. Sorted(<<>>) /\ Elems(<<>>) = {}
  BY DEF Sorted, Elems
<1>3. \A c \in Client : InPump(c) = {} /\ Line(c) /\ Has(c) = {}
  BY <1>1, <1>2 DEF InPump, Line, Ahead, Has
<1> QED BY <1>1, <1>2, <1>3 DEF OInv, TopicsFollow, CallbacksFollow, Serving

\* What a client has are messages.
LEMMA HasTyped ==
  ASSUME IInv
  PROVE  \A c \in Client : Has(c) \subseteq Message
<1> SUFFICES ASSUME NEW c \in Client PROVE Has(c) \subseteq Message
  OBVIOUS
<1>1. got[c] \in Seq(Message) /\ send[c].buf \in Seq(Message)
  BY DEF IInv, TypeOK, Channel
<1>2. InPump(c) \subseteq Message
  BY DEF IInv, InHand, InPump
<1> QED BY <1>1, <1>2 DEF Has, Elems

\* A step that leaves the three places of a client alone leaves its line alone.
LEMMA LineUnchanged ==
  ASSUME NEW c \in Client, got'[c] = got[c], send'[c].buf = send[c].buf, writer'[c] = writer[c]
  PROVE  (Line(c) => Line(c)') /\ Has(c)' = Has(c)
BY DEF Line, Has, InPump, Ahead, Elems, Sorted

\* Something younger than all a client has is put at the end of its channel.
LEMMA LineExtended ==
  ASSUME IInv, NEW c \in Client, NEW m \in Message, Line(c), Ahead(Has(c), {m}),
         send' = [send EXCEPT ![c].buf = Append(@, m)], UNCHANGED <<got, writer>>
  PROVE  /\ Line(c)' /\ Has(c)' \subseteq Has(c) \cup {m}
         /\ \A x \in Client \ {c} : send'[x].buf = send[x].buf
<1>1. send \in [Client -> Channel] /\ send[c].buf \in Seq(Message)
  BY DEF IInv, TypeOK, Channel
<1>2. send'[c].buf = Append(send[c].buf, m) /\ \A x \in Client \ {c} : send'[x].buf = send[x].buf
  BY <1>1
<1>3. Sorted(send[c].buf) /\ Ahead(Elems(send[c].buf), {m})
  BY DEF Line, Has, Ahead
<1>4. Sorted(send'[c].buf) /\ Elems(send'[c].buf) \subseteq Elems(send[c].buf) \cup {m}
  BY <1>1, <1>2, <1>3, AppendSorted
<1>5. InPump(c)' = InPump(c) /\ Elems(got[c])' = Elems(got[c]) /\ Sorted(got[c])' = Sorted(got[c])
  BY DEF InPump, Elems, Sorted
<1>6. Elems(send[c].buf)' = Elems(send'[c].buf) /\ Sorted(send[c].buf)' = Sorted(send'[c].buf)
  BY DEF Elems, Sorted
<1>7. Line(c)'
  BY <1>3, <1>4, <1>5, <1>6 DEF Line, Has, Ahead
<1>8. Has(c)' \subseteq Has(c) \cup {m}
  BY <1>4, <1>5, <1>6 DEF Has
<1> QED BY <1>2, <1>7, <1>8

\* The write pump moves messages along their line.
LEMMA LineMoves ==
  ASSUME IInv, NEW c \in Client, Line(c), WriteStep(c)
  PROVE  Line(c)' /\ Has(c)' \subseteq Has(c)
<1>1. /\ send[c].buf \in Seq(Message) /\ send \in [Client -> Channel]
      /\ got[c] \in Seq(Message) /\ got \in [Client -> Seq(Message)]
      /\ \A w : writer' = [writer EXCEPT ![c] = w] => writer'[c] = w
      /\ writer[c].pc = "write" => writer[c].msg \in Message
  BY DEF IInv, TypeOK, Channel, InHand
<1>2. /\ [Waiting EXCEPT !.pc = "ended"].pc = "ended" /\ Waiting.pc = "wait"
  BY DEF Waiting
<1>3. CASE TakeMessage(c)
  <2>1. send'[c].buf = Tail(send[c].buf) /\ got' = got
    BY <1>1, <1>3 DEF TakeMessage
  <2>2. \/ writer'[c].pc = "ended"
        \/ writer'[c].pc = "write" /\ writer'[c].msg = Head(send[c].buf)
    <3>1. \/ writer' = [writer EXCEPT ![c] = [Waiting EXCEPT !.pc = "ended"]]
          \/ writer' = [writer EXCEPT ![c] = [pc |-> "write", msg |-> Head(send[c].buf)]]
      BY <1>3 DEF TakeMessage, EndWrite
    <3>2. \/ writer'[c] = [Waiting EXCEPT !.pc = "ended"]
          \/ writer'[c] = [pc |-> "write", msg |-> Head(send[c].buf)]
      BY <1>1, <3>1, Zenon
    <3>3. CASE writer'[c] = [Waiting EXCEPT !.pc = "ended"]
      BY <1>2, <3>3, Zenon
    <3>4. CASE writer'[c] = [pc |-> "write", msg |-> Head(send[c].buf)]
      BY <3>4
    <3> QED BY <3>2, <3>3, <3>4
  <2>3. send[c].buf # <<>>
    BY <1>3 DEF TakeMessage
  <2>4. /\ Sorted(Tail(send[c].buf)) /\ Elems(Tail(send[c].buf)) \subseteq Elems(send[c].buf)
        /\ Head(send[c].buf) \in Elems(send[c].buf)
        /\ Ahead({Head(send[c].buf)}, Elems(Tail(send[c].buf)))
    BY <1>1, <2>3, TailSorted DEF Line
  <2>5. InPump(c)' \subseteq {Head(send[c].buf)}
    BY <2>2 DEF InPump
  <2>6. /\ Elems(send[c].buf)' = Elems(Tail(send[c].buf)) /\ Sorted(send[c].buf)' = Sorted(Tail(send[c].buf))
        /\ Elems(got[c])' = Elems(got[c]) /\ Sorted(got[c])' = Sorted(got[c])
    BY <2>1 DEF Elems, Sorted
  <2> QED BY <2>4, <2>5, <2>6 DEF Line, Has, Ahead
<1>4. CASE Write(c)
  <2>1. send'[c].buf = <<>> /\ writer'[c].pc # "write" /\ writer[c].pc = "write"
    <3>1. \/ writer' = [writer EXCEPT ![c] = [Waiting EXCEPT !.pc = "ended"]]
          \/ writer' = [writer EXCEPT ![c] = Waiting]
      BY <1>4 DEF Write, EndWrite
    <3>2. writer'[c] = [Waiting EXCEPT !.pc = "ended"] \/ writer'[c] = Waiting
      BY <1>1, <3>1, Zenon
    <3>3. writer'[c].pc # "write"
      BY <1>2, <3>2
    <3>4. send'[c].buf = <<>>
      BY <1>1, <1>4 DEF Write
    <3> QED BY <1>4, <3>3, <3>4 DEF Write
  <2>2. got'[c] = got[c] \/ got'[c] = got[c] \o <<writer[c].msg>> \o send[c].buf
    BY <1>1, <1>4 DEF Write
  <2>3. InPump(c)' = {} /\ InPump(c) = {writer[c].msg} /\ Elems(send[c].buf)' = {} /\ Sorted(send[c].buf)'
    BY <2>1 DEF InPump, Elems, Sorted
  <2>4. Elems(got[c])' = Elems(got'[c]) /\ Sorted(got[c])' = Sorted(got'[c])
    BY DEF Elems, Sorted
  <2>5. Sorted(got'[c]) /\ Elems(got'[c]) \subseteq Has(c)
    <3>1. CASE got'[c] = got[c]
      BY <3>1 DEF Line, Has
    <3>2. CASE got'[c] = got[c] \o <<writer[c].msg>> \o send[c].buf
      <4>1. <<writer[c].msg>> \in Seq(Message) /\ Sorted(<<writer[c].msg>>)
            /\ Elems(<<writer[c].msg>>) = {writer[c].msg}
        BY <1>1, <2>1, SingletonSorted
      <4> DEFINE s == got[c] \o <<writer[c].msg>>
      <4>2. s \in Seq(Message) /\ Sorted(s) /\ Elems(s) \subseteq Elems(got[c]) \cup {writer[c].msg}
        <5>1. s \in Seq(Message)
          BY <1>1, <4>1
        <5>2. Sorted(got[c]) /\ Ahead(Elems(got[c]), Elems(<<writer[c].msg>>))
          BY <2>3, <4>1 DEF Line
        <5> QED BY <1>1, <4>1, <5>1, <5>2, ConcatSorted
      <4>3. Ahead(Elems(s), Elems(send[c].buf)) /\ Sorted(send[c].buf)
        BY <2>3, <4>2 DEF Line, Ahead
      <4>4. Sorted(s \o send[c].buf) /\ Elems(s \o send[c].buf) \subseteq Elems(s) \cup Elems(send[c].buf)
        BY <1>1, <4>2, <4>3, ConcatSorted
      <4> QED BY <2>3, <3>2, <4>2, <4>4 DEF Has
    <3> QED BY <2>2, <3>1, <3>2
  <2> QED BY <2>3, <2>4, <2>5 DEF Line, Has, Ahead
<1>5. CASE StopWriting(c)
  <2>1. UNCHANGED <<send, got>> /\ writer'[c].pc = "ended" /\ writer[c].pc = "wait"
    BY <1>1, <1>2, <1>5 DEF StopWriting, EndWrite
  <2>2. InPump(c)' = {} /\ Elems(got[c])' = Elems(got[c]) /\ Elems(send[c].buf)' = Elems(send[c].buf)
        /\ Sorted(got[c])' = Sorted(got[c]) /\ Sorted(send[c].buf)' = Sorted(send[c].buf)
    BY <2>1 DEF InPump, Elems, Sorted
  <2> QED BY <2>2 DEF Line, Has, Ahead
<1> QED BY <1>3, <1>4, <1>5 DEF WriteStep

\* Nobody gets anything new.
LinesShrink == \A c \in Client : Line(c)' /\ Has(c)' \subseteq Has(c)

\* Nothing new is on its way.
SourcesKept ==
  /\ UNCHANGED <<published, called, broadcast>>
  /\ topic' = topic \/ (topic'.on = FALSE /\ topic'.todo = {})
  /\ \/ hub' = hub
     \/ hub'.pc \notin {"deliver", "drop"}
     \/ hub.pc \in {"deliver", "drop"} /\ hub'.msg = hub.msg /\ hub'.who = hub.who

LEMMA OrderKept ==
  ASSUME IInv, OInv, LinesShrink, SourcesKept
  PROVE  OInv'
<1>1. Sorted(broadcast)' = Sorted(broadcast) /\ Elems(broadcast)' = Elems(broadcast)
  BY DEF Sorted, Elems, SourcesKept
<1>2. TopicsFollow'
  BY DEF OInv, TopicsFollow, LinesShrink, SourcesKept
<1>3. CallbacksFollow'
  BY <1>1 DEF OInv, CallbacksFollow, Serving, LinesShrink, SourcesKept
<1> QED BY <1>2, <1>3 DEF OInv, LinesShrink

LEMMA PumpOrder ==
  ASSUME IInv, OInv, NEW c \in Client,
         ServeWS(c) \/ Disconnect(c) \/ ReadFails(c) \/ ReadRefused(c) \/ WriteStep(c)
  PROVE  OInv'
<1>1. UNCHANGED <<hub, topic, broadcast, published, called>>
  BY DEF ServeWS, Disconnect, ReadFails, ReadRefused, ReadFrame, PumpFrame, sourceVars,
         WriteStep, TakeMessage, Write, StopWriting, WriteFrame
<1>0. SourcesKept
  BY <1>1 DEF SourcesKept
<1>2. CASE ServeWS(c) \/ Disconnect(c) \/ ReadFails(c) \/ ReadRefused(c)
  <2>1. UNCHANGED <<got, send, writer>>
    BY <1>2 DEF ServeWS, Disconnect, ReadFails, ReadRefused, ReadFrame
  <2>2. LinesShrink
    BY <2>1, LineUnchanged DEF OInv, LinesShrink
  <2> QED BY <1>0, <2>2, OrderKept
<1>3. CASE WriteStep(c)
  <2>1. \A x \in Client \ {c} : got'[x] = got[x] /\ send'[x] = send[x] /\ writer'[x] = writer[x]
    BY <1>3 DEF WriteStep, TakeMessage, Write, StopWriting, EndWrite, IInv, TypeOK
  <2>2. Line(c)' /\ Has(c)' \subseteq Has(c)
    BY <1>3, LineMoves DEF OInv
  <2>3. \A x \in Client \ {c} : Line(x)' /\ Has(x)' \subseteq Has(x)
    BY <2>1, LineUnchanged DEF OInv
  <2>4. LinesShrink
    BY <2>2, <2>3 DEF LinesShrink
  <2> QED BY <1>0, <2>4, OrderKept
<1> QED BY <1>2, <1>3

\* The steps of the loop that deliver nothing.
LEMMA LoopOrder ==
  ASSUME IInv, OInv,
         \/ \E c \in Client : TakeRegister(c) \/ TakeUnregister(c)
         \/ Register \/ Unregister \/ Drop \/ EndBroadcast
  PROVE  OInv'
<1>1. UNCHANGED <<topic, broadcast, published, called, got>>
  BY DEF TakeRegister, TakeUnregister, Register, Unregister, Drop, EndBroadcast, HubFrame, sourceVars
<1>2. \/ hub'.pc \notin {"deliver", "drop"}
      \/ hub.pc \in {"deliver", "drop"} /\ hub'.msg = hub.msg /\ hub'.who = hub.who
  <2>1. CASE Drop
    BY <2>1 DEF Drop, IInv, TypeOK
  <2>2. CASE \E c \in Client : TakeRegister(c) \/ TakeUnregister(c)
    BY <2>2 DEF TakeRegister, TakeUnregister, Looping
  <2>3. CASE Register \/ Unregister \/ EndBroadcast
    BY <2>3 DEF Register, Unregister, EndBroadcast, Looping
  <2> QED BY <2>1, <2>2, <2>3
<1>0. SourcesKept
  BY <1>1, <1>2 DEF SourcesKept
<1>3. \A x \in Client : send'[x].buf = send[x].buf
  <2>1. CASE Unregister \/ Drop
    <3>1. PICK c \in Client : Remove(c)
      BY <2>1 DEF Unregister, Drop, IInv, LoopInMap, TypeOK
    <3>2. send' = [send EXCEPT ![c].open = FALSE] \/ send' = send
      BY <3>1 DEF Remove, Close
    <3>3. send \in [Client -> Channel] /\ send[c] \in Channel
      BY DEF IInv, TypeOK
    <3>4. [send[c] EXCEPT !.open = FALSE].buf = send[c].buf
      BY <3>3 DEF Channel
    <3> QED BY <3>2, <3>3, <3>4
  <2>2. CASE ~(Unregister \/ Drop)
    BY <2>2 DEF TakeRegister, TakeUnregister, Register, EndBroadcast
  <2> QED BY <2>1, <2>2
<1>4. CASE \E c \in Client : TakeRegister(c)
  <2> PICK c \in Client : TakeRegister(c)
    BY <1>4
  <2>1. writer'[c] = Waiting /\ \A x \in Client \ {c} : writer'[x] = writer[x]
    BY DEF TakeRegister, IInv, TypeOK
  <2>2. InPump(c)' = {} /\ Elems(got[c])' = Elems(got[c]) /\ Elems(send[c].buf)' = Elems(send[c].buf)
        /\ Sorted(got[c])' = Sorted(got[c]) /\ Sorted(send[c].buf)' = Sorted(send[c].buf)
    BY <1>1, <1>3, <2>1 DEF InPump, Elems, Sorted, Waiting
  <2>3. Line(c)' /\ Has(c)' \subseteq Has(c)
    BY <2>2 DEF OInv, Line, Has, Ahead
  <2>4. \A x \in Client \ {c} : Line(x)' /\ Has(x)' \subseteq Has(x)
    BY <1>1, <1>3, <2>1, LineUnchanged DEF OInv
  <2>5. LinesShrink
    BY <2>3, <2>4 DEF LinesShrink
  <2> QED BY <1>0, <2>5, OrderKept
<1>5. CASE ~\E c \in Client : TakeRegister(c)
  <2>1. writer' = writer
    BY <1>5 DEF TakeUnregister, Register, Unregister, Drop, EndBroadcast, HubFrame
  <2>2. LinesShrink
    BY <1>1, <1>3, <2>1, LineUnchanged DEF OInv, LinesShrink
  <2> QED BY <1>0, <2>2, OrderKept
<1> QED BY <1>4, <1>5

\* All lines unchanged.
LEMMA LinesUnchanged ==
  ASSUME OInv, UNCHANGED <<got, send, writer>>
  PROVE  LinesShrink /\ \A c \in Client : Has(c)' = Has(c)
BY LineUnchanged DEF OInv, LinesShrink

\* The steps that take up a message or end with it.
LEMMA SourceOrder ==
  ASSUME IInv, OInv, TakeBroadcast \/ BeginTopic \/ EndTopic \/ BroadcastMessage
  PROVE  OInv'
<1>1. UNCHANGED <<got, send, writer>>
  BY DEF TakeBroadcast, HubFrame, BeginTopic, EndTopic, BroadcastMessage, BridgeFrame, pumpVars
<1>2. LinesShrink /\ \A c \in Client : Line(c)' /\ Has(c)' = Has(c)
  BY <1>1, LinesUnchanged DEF LinesShrink
<1>3. broadcast \in Seq(Message) /\ published \in Nat /\ called \in Nat
  BY HubAssumption DEF IInv, TypeOK
<1>4. CASE TakeBroadcast
  <2>1. /\ Sorted(Tail(broadcast)) /\ Elems(Tail(broadcast)) \subseteq Elems(broadcast)
        /\ Head(broadcast) \in Elems(broadcast) /\ Ahead({Head(broadcast)}, Elems(Tail(broadcast)))
    BY <1>3, <1>4, TailSorted DEF TakeBroadcast, OInv, CallbacksFollow
  <2>2. /\ Sorted(broadcast)' = Sorted(Tail(broadcast)) /\ Elems(broadcast)' = Elems(Tail(broadcast))
        /\ UNCHANGED <<topic, published, called>> /\ hub'.msg = Head(broadcast)
    BY <1>4 DEF TakeBroadcast, HubFrame, sourceVars, Sorted, Elems
  <2>3. TopicsFollow'
    BY <1>2, <2>2 DEF OInv, TopicsFollow
  <2>4. \A n \in Elems(Tail(broadcast)) : n[1] = "callback" /\ Head(broadcast)[2] < n[2]
    BY <2>1 DEF Ahead, Older, OInv, CallbacksFollow
  <2>5. CallbacksFollow'
    BY <1>2, <2>1, <2>2, <2>4 DEF OInv, CallbacksFollow, Serving
  <2> QED BY <1>2, <2>3, <2>5 DEF OInv
<1>5. CASE BeginTopic
  <2>1. /\ UNCHANGED <<hub, broadcast, called>> /\ published' = published + 1
        /\ topic'.msg = <<"topic", published'>>
    BY <1>5 DEF BeginTopic, BridgeFrame
  <2>2. Sorted(broadcast)' = Sorted(broadcast) /\ Elems(broadcast)' = Elems(broadcast)
    BY <2>1 DEF Sorted, Elems
  <2>3. CallbacksFollow'
    BY <1>2, <2>1, <2>2 DEF OInv, CallbacksFollow, Serving
  <2>4. \A c \in Client : Has(c) \subseteq Message
    BY HasTyped
  <2>5. \A m \in Message : m[2] \in Nat
    BY DEF Message
  <2>6. ASSUME NEW c \in Client, NEW m \in Has(c), m[1] = "topic"
        PROVE  m[2] <= published' /\ m[2] < published'
    <3>1. m[2] <= published /\ m[2] \in Nat
      BY <2>4, <2>5, <2>6 DEF OInv, TopicsFollow
    <3> QED BY <1>3, <2>1, <3>1
  <2>7. TopicsFollow'
    BY <1>2, <2>1, <2>6 DEF TopicsFollow
  <2> QED BY <1>2, <2>3, <2>7 DEF OInv
<1>6. CASE EndTopic
  <2>1. SourcesKept
    BY <1>6 DEF EndTopic, BridgeFrame, sourceVars, SourcesKept, Quiet
  <2> QED BY <1>2, <2>1, OrderKept
<1>7. CASE BroadcastMessage
  <2>1. UNCHANGED <<hub, topic, published>> /\ called' = called + 1
    BY <1>7 DEF BroadcastMessage, BridgeFrame
  <2>2. TopicsFollow'
    BY <1>2, <2>1 DEF OInv, TopicsFollow
  <2> DEFINE new == <<"callback", called + 1>>
  <2>3. new \in Message /\ new[1] = "callback" /\ new[2] = called'
    BY <1>3, <2>1 DEF Message
  <2>4. \A m \in Message : m[2] \in Nat
    BY DEF Message
  <2>5. Elems(broadcast) \subseteq Message
    BY <1>3 DEF Elems
  <2>6. \A n \in Elems(broadcast) : n[1] = "callback" /\ n[2] <= called /\ n[2] < called' /\ n[2] <= called'
    BY <1>3, <2>1, <2>4, <2>5 DEF OInv, CallbacksFollow
  <2>7. Ahead(Elems(broadcast), {new})
    BY <2>3, <2>6 DEF Ahead, Older
  <2> HIDE DEF new
  <2>8. /\ Sorted(broadcast') /\ Elems(broadcast') \subseteq Elems(broadcast) \cup {new}
    <3>1. broadcast' = Append(broadcast, new) \/ broadcast' = broadcast
      BY <1>7 DEF BroadcastMessage, new
    <3>2. Sorted(broadcast)
      BY DEF OInv, CallbacksFollow
    <3>3. CASE broadcast' = Append(broadcast, new)
      BY <1>3, <2>3, <2>7, <3>2, <3>3, AppendSorted
    <3> QED BY <3>1, <3>2, <3>3
  <2>9. Sorted(broadcast)' = Sorted(broadcast') /\ Elems(broadcast)' = Elems(broadcast')
    BY DEF Sorted, Elems
  <2>10. \A c \in Client : Has(c) \subseteq Message
    BY HasTyped
  <2>11. ASSUME NEW c \in Client, NEW m \in Has(c), m[1] = "callback"
         PROVE  m[2] <= called' /\ m[2] < called'
    <3>1. m[2] <= called /\ m[2] \in Nat
      BY <2>4, <2>10, <2>11 DEF OInv, CallbacksFollow
    <3> QED BY <1>3, <2>1, <3>1
  <2>12. Serving => hub.msg[2] <= called' /\ hub.msg[2] < called'
    <3>1. Serving => hub.msg \in Message /\ hub.msg[2] <= called
      BY DEF OInv, CallbacksFollow, Serving, IInv, InHand
    <3> QED BY <1>3, <2>1, <2>4, <3>1
  <2>13. CallbacksFollow'
    BY <1>2, <2>1, <2>3, <2>6, <2>8, <2>9, <2>11, <2>12 DEF OInv, CallbacksFollow, Serving
  <2> QED BY <1>2, <2>2, <2>13 DEF OInv
<1> QED BY <1>4, <1>5, <1>6, <1>7

\* The steps that put a message into the channel of a client.
LEMMA DeliverOrder ==
  ASSUME IInv, OInv, NEW c \in Client, Deliver(c)
  PROVE  OInv'
<1>1. /\ UNCHANGED <<topic, broadcast, got, writer, published, called>>
      /\ hub.pc = "deliver" /\ c \in hub.who
      /\ hub'.pc \in {"deliver", "drop"} /\ hub'.who = hub.who \ {c} /\ hub'.msg = hub.msg
  BY DEF Deliver, HubFrame, sourceVars, IInv, TypeOK
<1>2. Sorted(broadcast)' = Sorted(broadcast) /\ Elems(broadcast)' = Elems(broadcast)
  BY <1>1 DEF Sorted, Elems
<1>3. /\ Serving /\ hub.msg \in Message /\ hub.msg[1] = "callback" /\ hub.msg[2] <= called
      /\ \A n \in Elems(broadcast) : hub.msg[2] < n[2]
  BY <1>1 DEF IInv, InHand, OInv, CallbacksFollow, Serving
<1>4. /\ \A x \in Client : Line(x)'
      /\ \A x \in Client \ {c} : Has(x)' \subseteq Has(x)
      /\ Has(c)' \subseteq Has(c) \cup {hub.msg}
  <2>1. CASE send' = send
    BY <1>1, <2>1, LineUnchanged DEF OInv
  <2>2. CASE send' = [send EXCEPT ![c].buf = Append(@, hub.msg)]
    <3>1. Ahead(Has(c), {hub.msg})
      BY <1>1, <1>3 DEF Ahead, Older, OInv, CallbacksFollow
    <3>2. /\ Line(c)' /\ Has(c)' \subseteq Has(c) \cup {hub.msg}
          /\ \A x \in Client \ {c} : send'[x].buf = send[x].buf
      BY <1>1, <1>3, <2>2, <3>1, LineExtended DEF OInv
    <3>3. \A x \in Client \ {c} : Line(x)' /\ Has(x)' = Has(x)
      BY <1>1, <3>2, LineUnchanged DEF OInv
    <3> QED BY <3>2, <3>3
  <2> QED BY <2>1, <2>2 DEF Deliver, Send
<1>5. TopicsFollow'
  BY <1>1, <1>3, <1>4 DEF OInv, TopicsFollow
<1>6. CallbacksFollow'
  BY <1>1, <1>2, <1>3, <1>4 DEF OInv, CallbacksFollow, Serving
<1> QED BY <1>4, <1>5, <1>6 DEF OInv

LEMMA DeliverTopicOrder ==
  ASSUME IInv, OInv, NEW c \in Client, DeliverTopic(c)
  PROVE  OInv'
<1>1. /\ UNCHANGED <<hub, broadcast, got, writer, published, called>>
      /\ c \in topic.todo /\ topic.on
      /\ topic'.on = topic.on /\ topic'.todo = topic.todo \ {c} /\ topic'.msg = topic.msg
  BY DEF DeliverTopic, BridgeFrame, pumpVars, sourceVars, IInv, TypeOK, TopicInMap
<1>2. Sorted(broadcast)' = Sorted(broadcast) /\ Elems(broadcast)' = Elems(broadcast)
  BY <1>1 DEF Sorted, Elems
<1>3. /\ topic.msg \in Message /\ topic.msg[1] = "topic" /\ topic.msg[2] = published
      /\ topic.msg = <<"topic", published>>
  BY <1>1 DEF IInv, InHand, OInv, TopicsFollow
<1>4. /\ \A x \in Client : Line(x)'
      /\ \A x \in Client \ {c} : Has(x)' \subseteq Has(x)
      /\ Has(c)' \subseteq Has(c) \cup {topic.msg}
  <2>1. CASE send' = send
    BY <1>1, <2>1, LineUnchanged DEF OInv
  <2>2. CASE send' = [send EXCEPT ![c].buf = Append(@, topic.msg)]
    <3>1. Ahead(Has(c), {topic.msg})
      BY <1>1, <1>3 DEF Ahead, Older, OInv, TopicsFollow
    <3>2. /\ Line(c)' /\ Has(c)' \subseteq Has(c) \cup {topic.msg}
          /\ \A x \in Client \ {c} : send'[x].buf = send[x].buf
      BY <1>1, <1>3, <2>2, <3>1, LineExtended DEF OInv
    <3>3. \A x \in Client \ {c} : Line(x)' /\ Has(x)' = Has(x)
      BY <1>1, <3>2, LineUnchanged DEF OInv
    <3> QED BY <3>2, <3>3
  <2> QED BY <2>1, <2>2 DEF DeliverTopic, Send
<1>5. published \in Nat
  BY DEF IInv, TypeOK
<1>6. TopicsFollow'
  BY <1>1, <1>3, <1>4, <1>5 DEF OInv, TopicsFollow
<1>7. CallbacksFollow'
  BY <1>1, <1>2, <1>3, <1>4 DEF OInv, CallbacksFollow, Serving
<1> QED BY <1>4, <1>6, <1>7 DEF OInv

LEMMA NextOrder == IInv /\ OInv /\ [Next]_vars => OInv'
<1> SUFFICES ASSUME IInv, OInv, [Next]_vars PROVE OInv'
  OBVIOUS
<1>1. CASE Next
  <2>1. CASE HubStep
    BY <2>1, LoopOrder, DeliverOrder, SourceOrder DEF HubStep
  <2>2. CASE BeginTopic \/ BroadcastMessage \/ BridgeStep
    BY <2>2, SourceOrder, DeliverTopicOrder DEF BridgeStep
  <2>3. CASE \E c \in Client : \/ ServeWS(c) \/ Disconnect(c)
                             \/ ReadFails(c) \/ ReadRefused(c) \/ WriteStep(c)
    BY <2>3, PumpOrder
  <2> QED BY <1>1, <2>1, <2>2, <2>3 DEF Next
<1>2. CASE UNCHANGED vars
  <2>1. LinesShrink
    BY <1>2, LinesUnchanged DEF vars, pumpVars
  <2>2. SourcesKept
    BY <1>2 DEF vars, sourceVars, SourcesKept
  <2> QED BY <2>1, <2>2, OrderKept
<1> QED BY <1>1, <1>2

\* Every browser receives the messages of one source in the order they were made and
\* none of them twice, whichever of them are lost, through the channel of the loop,
\* that of the client, and the frames of the write pump.
THEOREM OrderedDelivery == Spec => []InOrder
<1>1. Init => IInv /\ OInv
  BY InitInv, InitOrder
<1>2. IInv /\ OInv /\ [Next]_vars => IInv' /\ OInv'
  BY NextInv, NextOrder
<1>3. OInv => InOrder
  BY DEF OInv, Line, Sorted, Older, InOrder
<1>4. Spec => [](IInv /\ OInv)
  BY <1>1, <1>2, PTL DEF Spec
<1> QED BY <1>3, <1>4, PTL

=============================================================================
