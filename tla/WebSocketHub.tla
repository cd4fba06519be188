---------------------------- MODULE WebSocketHub ----------------------------
(***************************************************************************)
(* The hub that feeds browsers.  A loop registers and unregisters clients  *)
(* and sends what is on queue:web_callback to all of them; a second        *)
(* goroutine sends what is published on the Redis channels to those that   *)
(* subscribed.  Each client has a bounded channel and two goroutines: the  *)
(* read pump takes its commands, the write pump empties the channel into   *)
(* the connection.  Client maps and channels are guarded by one RWMutex.   *)
(***************************************************************************)
EXTENDS Integers, Sequences, FiniteSets

CONSTANTS
  Client,       \* connections of browsers
  SendCap,      \* sendBufferSize: capacity of the channel of a client, 256
  BroadcastCap, \* capacity of the broadcast channel, 256
  MaxTopic,     \* bound on the messages published on the Redis channels
  MaxCallback   \* bound on the messages taken from queue:web_callback

ASSUME HubAssumption ==
  /\ SendCap \in Nat \ {0} /\ BroadcastCap \in Nat \ {0}
  /\ MaxTopic \in Nat /\ MaxCallback \in Nat

VARIABLES
  clients,    \* hub.clients
  send,       \* the channels of the clients
  broadcast,  \* hub.broadcast
  hub,        \* where the loop is
  topic,      \* where the goroutine of the Redis channels is
  reader,     \* where the read pumps are, from the upgrade of the connection on
  writer,     \* where the write pumps are
  up,         \* the connections that are neither broken nor closed
  published,  \* how many messages have been published on the Redis channels
  called,     \* how many messages have been taken from queue:web_callback
  got,        \* what the browser of a client has received
  panicked    \* has anyone sent to a closed channel, or closed one?

sourceVars == <<published, called>>
pumpVars   == <<reader, writer, up, got>>
vars == <<clients, send, broadcast, hub, topic, pumpVars, sourceVars, panicked>>

-----------------------------------------------------------------------------

\* Messages are numbered by their source.
Message == {"topic", "callback"} \X Nat

\* who are the clients left to serve, slow the one to drop.
Looping == [pc |-> "select", who |-> {}, slow |-> {}, msg |-> <<>>]

Quiet == [on |-> FALSE, todo |-> {}, msg |-> <<>>]

\* msg is the message the pump has taken.
Waiting == [pc |-> "wait", msg |-> <<>>]

Init ==
  /\ clients = {}
  /\ send = [c \in Client |-> [buf |-> <<>>, open |-> TRUE]]
  /\ broadcast = <<>>
  /\ hub = Looping
  /\ topic = Quiet
  /\ reader = [c \in Client |-> "new"]
  /\ writer = [c \in Client |-> [Waiting EXCEPT !.pc = "new"]]
  /\ up = Client
  /\ published = 0 /\ called = 0
  /\ got = [c \in Client |-> <<>>]
  /\ panicked = FALSE

\* mu.RLock waits for a writer that holds the lock or waits for it; only the
\* loop locks for writing.
MayReadLock == hub.pc \notin {"register", "unregister", "drop"}

\* mu.Lock waits for the readers.
MayLock == ~topic.on

Full(c) == Len(send[c].buf) >= SendCap

Send(c, m) ==
  /\ send' = [send EXCEPT ![c].buf = Append(@, m)]
  /\ panicked' = (panicked \/ ~send[c].open)

Close(c) ==
  /\ send' = [send EXCEPT ![c].open = FALSE]
  /\ panicked' = (panicked \/ ~send[c].open)

-----------------------------------------------------------------------------
(* Hub.Run *)

HubFrame == UNCHANGED <<topic, writer, got, sourceVars>>

\* ServeWS starts the pumps as soon as the loop has taken the client.
TakeRegister(c) ==
  /\ hub.pc = "select" /\ reader[c] = "register"
  /\ hub' = [Looping EXCEPT !.pc = "register", !.who = {c}]
  /\ reader' = [reader EXCEPT ![c] = "read"]
  /\ writer' = [writer EXCEPT ![c] = Waiting]
  /\ UNCHANGED <<clients, send, broadcast, topic, up, got, sourceVars, panicked>>

Register ==
  /\ hub.pc = "register" /\ MayLock
  /\ clients' = clients \cup hub.who
  /\ hub' = Looping
  /\ HubFrame /\ UNCHANGED <<send, broadcast, reader, up, panicked>>

\* The read pump closes the connection once the loop has taken the client.
TakeUnregister(c) ==
  /\ hub.pc = "select" /\ reader[c] = "unregister"
  /\ hub' = [Looping EXCEPT !.pc = "unregister", !.who = {c}]
  /\ reader' = [reader EXCEPT ![c] = "ended"]
  /\ up' = up \ {c}
  /\ HubFrame /\ UNCHANGED <<clients, send, broadcast, panicked>>

\* A client that is in the map is deleted, and its channel closed.
Remove(c) ==
  IF c \in clients THEN clients' = clients \ {c} /\ Close(c)
                   ELSE UNCHANGED <<clients, send, panicked>>

Unregister ==
  /\ hub.pc = "unregister" /\ MayLock
  /\ \A c \in hub.who : Remove(c)
  /\ hub' = Looping
  /\ HubFrame /\ UNCHANGED <<broadcast, reader, up>>

TakeBroadcast ==
  /\ hub.pc = "select" /\ broadcast # <<>>
  /\ hub' = [pc |-> "deliver", who |-> clients, slow |-> {}, msg |-> Head(broadcast)]
  /\ broadcast' = Tail(broadcast)
  /\ HubFrame /\ UNCHANGED <<clients, send, reader, up, panicked>>

\* Mutant of Deliver: a client without room is served all the same.
DeliverOverfull(c) ==
  /\ hub.pc = "deliver" /\ c \in hub.who
  /\ hub' = [hub EXCEPT !.who = @ \ {c}]
  /\ Send(c, hub.msg)
  /\ HubFrame /\ UNCHANGED <<clients, broadcast, reader, up>>

\* To one client after the other; who has no room for the message is dropped,
\* for which the loop changes its read lock into a write lock.
Deliver(c) ==
  /\ hub.pc = "deliver" /\ c \in hub.who
  /\ IF Full(c)
     THEN /\ hub' = [hub EXCEPT !.pc = "drop", !.who = @ \ {c}, !.slow = {c}]
          /\ UNCHANGED <<send, panicked>>
     ELSE /\ hub' = [hub EXCEPT !.who = @ \ {c}]
          /\ Send(c, hub.msg)
  /\ HubFrame /\ UNCHANGED <<clients, broadcast, reader, up>>

\* Mutant of Drop: the loop over the clients begins again.
DropAndRestart ==
  /\ hub.pc = "drop" /\ MayLock
  /\ \A c \in hub.slow : Remove(c)
  /\ hub' = [hub EXCEPT !.pc = "deliver", !.who = clients \ hub.slow, !.slow = {}]
  /\ HubFrame /\ UNCHANGED <<broadcast, reader, up>>

Drop ==
  /\ hub.pc = "drop" /\ MayLock
  /\ \A c \in hub.slow : Remove(c)
  /\ hub' = [hub EXCEPT !.pc = "deliver", !.slow = {}]
  /\ HubFrame /\ UNCHANGED <<broadcast, reader, up>>

EndBroadcast ==
  /\ hub.pc = "deliver" /\ hub.who = {}
  /\ hub' = Looping
  /\ HubFrame /\ UNCHANGED <<clients, send, broadcast, reader, up, panicked>>

HubStep ==
  \/ \E c \in Client : TakeRegister(c) \/ TakeUnregister(c) \/ Deliver(c)
  \/ Register \/ Unregister \/ TakeBroadcast \/ Drop \/ EndBroadcast

-----------------------------------------------------------------------------
(* Bridge *)

BridgeFrame == UNCHANGED <<clients, hub, pumpVars>>

\* Mutant of BeginTopic: without the lock.
BeginTopicUnlocked ==
  /\ topic.todo = {}
  /\ published < MaxTopic
  /\ published' = published + 1
  /\ topic' = [on |-> FALSE, todo |-> clients, msg |-> <<"topic", published + 1>>]
  /\ BridgeFrame /\ UNCHANGED <<send, broadcast, called, panicked>>

\* subscribePubSub, BroadcastToTopic: a message published on a Redis channel;
\* the read lock is held until all clients are served.
BeginTopic ==
  /\ ~topic.on /\ MayReadLock
  /\ published < MaxTopic
  /\ published' = published + 1
  /\ topic' = [on |-> TRUE, todo |-> clients, msg |-> <<"topic", published + 1>>]
  /\ BridgeFrame /\ UNCHANGED <<send, broadcast, called, panicked>>

\* A client that has not subscribed, which is left open, or has no room misses the
\* message.
DeliverTopic(c) ==
  /\ c \in topic.todo
  /\ topic' = [topic EXCEPT !.todo = @ \ {c}]
  /\ \/ ~Full(c) /\ Send(c, topic.msg)
     \/ UNCHANGED <<send, panicked>>
  /\ BridgeFrame /\ UNCHANGED <<broadcast, sourceVars>>

EndTopic ==
  /\ topic.on /\ topic.todo = {}
  /\ topic' = Quiet
  /\ BridgeFrame /\ UNCHANGED <<send, broadcast, sourceVars, panicked>>

\* consumeWebCallbackQueue, BroadcastMessage: a message from queue:web_callback
\* that finds no room is dropped; BRPOP may lose one as well.
BroadcastMessage ==
  /\ called < MaxCallback
  /\ called' = called + 1
  /\ \/ /\ Len(broadcast) < BroadcastCap
        /\ broadcast' = Append(broadcast, <<"callback", called + 1>>)
     \/ UNCHANGED broadcast
  /\ BridgeFrame /\ UNCHANGED <<send, topic, published, panicked>>

BridgeStep == EndTopic \/ \E c \in Client : DeliverTopic(c)

-----------------------------------------------------------------------------
(* Connections and their pumps *)

PumpFrame == UNCHANGED <<clients, broadcast, hub, topic, sourceVars, panicked>>

ReadFrame == PumpFrame /\ UNCHANGED <<send, writer, got>>

\* ServeWS upgrades the connection, and waits for the loop.
ServeWS(c) ==
  /\ reader[c] = "new"
  /\ reader' = [reader EXCEPT ![c] = "register"]
  /\ ReadFrame /\ UNCHANGED up

\* The network or the browser goes.
Disconnect(c) ==
  /\ reader[c] # "new" /\ c \in up
  /\ up' = up \ {c}
  /\ ReadFrame /\ UNCHANGED reader

\* Mutant of ReadFails: the loop is not told.
ReadFailsQuietly(c) ==
  /\ reader[c] = "read" /\ c \notin up
  /\ reader' = [reader EXCEPT ![c] = "ended"]
  /\ up' = up \ {c}
  /\ ReadFrame

\* ReadMessage fails on a connection that is gone, after pongWait at the latest; the
\* pump waits for the loop to take the client.
ReadFails(c) ==
  /\ reader[c] = "read" /\ c \notin up
  /\ reader' = [reader EXCEPT ![c] = "unregister"]
  /\ ReadFrame /\ UNCHANGED up

\* It also fails on a message that is too long or breaks the protocol, or when no
\* pong came in time, on a connection that still takes what is written.
ReadRefused(c) ==
  /\ reader[c] = "read" /\ c \in up
  /\ reader' = [reader EXCEPT ![c] = "unregister"]
  /\ ReadFrame /\ UNCHANGED up

WriteFrame == PumpFrame /\ UNCHANGED reader

EndWrite(c) ==
  /\ writer' = [writer EXCEPT ![c] = [Waiting EXCEPT !.pc = "ended"]]
  /\ up' = up \ {c}

\* The pump takes a message, and ends when the connection gives no writer for it.
TakeMessage(c) ==
  /\ writer[c].pc = "wait" /\ send[c].buf # <<>>
  /\ send' = [send EXCEPT ![c].buf = Tail(@)]
  /\ IF c \in up
     THEN /\ writer' = [writer EXCEPT ![c] = [pc |-> "write", msg |-> Head(send[c].buf)]]
          /\ UNCHANGED up
     ELSE EndWrite(c)
  /\ WriteFrame /\ UNCHANGED got

\* What has come meanwhile goes into the same frame.
Write(c) ==
  /\ writer[c].pc = "write"
  /\ send' = [send EXCEPT ![c].buf = <<>>]
  /\ IF c \in up
     THEN /\ got' = [got EXCEPT ![c] = @ \o <<writer[c].msg>> \o send[c].buf]
          /\ writer' = [writer EXCEPT ![c] = Waiting]
          /\ UNCHANGED up
     ELSE EndWrite(c) /\ UNCHANGED got
  /\ WriteFrame

\* The channel is closed and empty, or a ping fails.
StopWriting(c) ==
  /\ writer[c].pc = "wait"
  /\ (send[c].buf = <<>> /\ ~send[c].open) \/ c \notin up
  /\ EndWrite(c)
  /\ WriteFrame /\ UNCHANGED <<send, got>>

WriteStep(c) == TakeMessage(c) \/ Write(c) \/ StopWriting(c)

Next ==
  \/ HubStep
  \/ BeginTopic \/ BroadcastMessage \/ BridgeStep
  \/ \E c \in Client : ServeWS(c) \/ Disconnect(c)
                      \/ ReadFails(c) \/ ReadRefused(c) \/ WriteStep(c)

Spec == Init /\ [][Next]_vars

\* The goroutines run until they end.  Which of the senders that wait for it the
\* loop takes is left open: they are finitely many.
Fairness ==
  /\ WF_vars(HubStep) /\ WF_vars(BridgeStep)
  /\ \A c \in Client : WF_vars(ReadFails(c)) /\ WF_vars(WriteStep(c))

FairSpec == Spec /\ Fairness

-----------------------------------------------------------------------------
(* Properties *)

Channel == [buf : Seq(Message), open : BOOLEAN]

TypeOK ==
  /\ clients \subseteq Client
  /\ send \in [Client -> Channel]
  /\ \A c \in Client : Len(send[c].buf) <= SendCap
  /\ broadcast \in Seq(Message) /\ Len(broadcast) <= BroadcastCap
  /\ hub \in [pc : {"select", "register", "unregister", "deliver", "drop"},
              who : SUBSET Client, slow : SUBSET Client, msg : Message \cup {<<>>}]
  /\ topic \in [on : BOOLEAN, todo : SUBSET Client, msg : Message \cup {<<>>}]
  /\ reader \in [Client -> {"new", "register", "read", "unregister", "ended"}]
  /\ writer \in [Client -> [pc : {"new", "wait", "write", "ended"},
                            msg : Message \cup {<<>>}]]
  /\ up \subseteq Client
  /\ published \in 0..MaxTopic /\ called \in 0..MaxCallback
  /\ got \in [Client -> Seq(Message)]
  /\ panicked \in BOOLEAN

\* Nobody sends to a channel that has been closed or closes one twice, which
\* would take down the server or end the feed of everyone: neither a client that
\* is dropped for being slow and unregisters afterwards, nor one that is dropped
\* while a topic is being served.
NoPanic == ~panicked

\* A browser receives the messages of one source in the order they were made, and
\* none twice, whatever is lost.
InOrder ==
  \A c \in Client : \A i, j \in DOMAIN got[c] :
    i < j /\ got[c][i][1] = got[c][j][1] => got[c][i][2] < got[c][j][2]

Gone(c) ==
  /\ reader[c] # "new"
  /\ reader[c] = "unregister" \/ c \notin up \/ ~send[c].open

Left(c) == c \notin clients /\ reader[c] = "ended" /\ writer[c].pc = "ended"

\* Time and again all clients whose connection has gone, that could not be read
\* from, or that were dropped, are out of the map and both their goroutines have
\* ended: nobody waits for the other for ever.
GoneClientsLeave == []<>(\A c \in Client : Gone(c) => Left(c))

=============================================================================
