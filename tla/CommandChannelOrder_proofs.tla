--------------------- MODULE CommandChannelOrder_proofs ---------------------
(***************************************************************************)
(* The command channel implements a lossy FIFO, and keeps its entries in   *)
(* the order of their LPUSHes, for every set of devices, commands and      *)
(* handlers, and for every number of faults.                               *)
(***************************************************************************)
EXTENDS CommandChannel_proofs, SequenceTheorems

-----------------------------------------------------------------------------
(* Sequences and what is left of them.                                      *)

\* Nothing dropped is a way of dropping.
LEMMA SubsequenceOfItself ==
  ASSUME NEW S, NEW s \in Seq(S)
  PROVE  Fifo!IsSubsequence(s, s)
<1> DEFINE f == [i \in DOMAIN s |-> i]
<1>1. f \in [DOMAIN s -> DOMAIN s]
  OBVIOUS
<1>2. /\ \A i, j \in DOMAIN s : i < j => f[i] < f[j]
      /\ \A i \in DOMAIN s : s[i] = s[f[i]]
  OBVIOUS
<1> QED BY <1>1, <1>2 DEF Fifo!IsSubsequence

\* The elements of one part of a sequence can be dropped.
LEMMA SubsequenceOfConcat ==
  ASSUME NEW S, NEW s \in Seq(S), NEW t \in Seq(S)
  PROVE  Fifo!IsSubsequence(s, s \o t) /\ Fifo!IsSubsequence(t, s \o t)
<1>1. /\ DOMAIN s = 1..Len(s) /\ DOMAIN t = 1..Len(t)
      /\ DOMAIN (s \o t) = 1..(Len(s) + Len(t))
      /\ Len(s) \in Nat /\ Len(t) \in Nat
      /\ \A i \in 1..Len(s) : (s \o t)[i] = s[i]
      /\ \A i \in 1..Len(t) : (s \o t)[Len(s) + i] = t[i]
  OBVIOUS
<1>2. Fifo!IsSubsequence(s, s \o t)
  <2> DEFINE f == [i \in DOMAIN s |-> i]
  <2>1. f \in [DOMAIN s -> DOMAIN (s \o t)]
    BY <1>1
  <2>2. /\ \A i, j \in DOMAIN s : i < j => f[i] < f[j]
        /\ \A i \in DOMAIN s : s[i] = (s \o t)[f[i]]
    BY <1>1
  <2> QED BY <2>1, <2>2 DEF Fifo!IsSubsequence
<1>3. Fifo!IsSubsequence(t, s \o t)
  <2> DEFINE f == [i \in DOMAIN t |-> Len(s) + i]
  <2>1. f \in [DOMAIN t -> DOMAIN (s \o t)]
    BY <1>1
  <2>2. /\ \A i, j \in DOMAIN t : i < j => f[i] < f[j]
        /\ \A i \in DOMAIN t : t[i] = (s \o t)[f[i]]
    BY <1>1
  <2> QED BY <2>1, <2>2 DEF Fifo!IsSubsequence
<1> QED BY <1>2, <1>3

\* What precedes a sequence is kept when elements of that sequence are dropped.
LEMMA ConcatSubsequence ==
  ASSUME NEW S, NEW u \in Seq(S), NEW s \in Seq(S), NEW t \in Seq(S),
         Fifo!IsSubsequence(s, t)
  PROVE  Fifo!IsSubsequence(u \o s, u \o t)
<1>1. /\ DOMAIN s = 1..Len(s) /\ DOMAIN t = 1..Len(t)
      /\ DOMAIN (u \o s) = 1..(Len(u) + Len(s))
      /\ DOMAIN (u \o t) = 1..(Len(u) + Len(t))
      /\ Len(s) \in Nat /\ Len(t) \in Nat /\ Len(u) \in Nat
      /\ \A i \in 1..(Len(u) + Len(s)) :
           (u \o s)[i] = IF i <= Len(u) THEN u[i] ELSE s[i - Len(u)]
      /\ \A i \in 1..(Len(u) + Len(t)) :
           (u \o t)[i] = IF i <= Len(u) THEN u[i] ELSE t[i - Len(u)]
  BY ConcatProperties
<1>2. PICK g \in [DOMAIN s -> DOMAIN t] :
        /\ \A i, j \in DOMAIN s : i < j => g[i] < g[j]
        /\ \A i \in DOMAIN s : s[i] = t[g[i]]
  BY DEF Fifo!IsSubsequence
<1> DEFINE f == [i \in DOMAIN (u \o s) |-> IF i <= Len(u) THEN i ELSE Len(u) + g[i - Len(u)]]
<1>3. \A i \in DOMAIN (u \o s) : ~(i <= Len(u)) => i - Len(u) \in DOMAIN s
  BY <1>1
<1>4. \A i \in DOMAIN s : g[i] \in 1..Len(t)
  BY <1>1, <1>2
<1>5. f \in [DOMAIN (u \o s) -> DOMAIN (u \o t)]
  BY <1>1, <1>3, <1>4
<1>6. ASSUME NEW i \in DOMAIN (u \o s), NEW j \in DOMAIN (u \o s), i < j
      PROVE  f[i] < f[j]
  <2>1. CASE j <= Len(u)
    BY <1>1, <1>6, <2>1
  <2>2. CASE i <= Len(u) /\ ~(j <= Len(u))
    BY <1>1, <1>3, <1>4, <1>6, <2>2
  <2>3. CASE ~(i <= Len(u)) /\ ~(j <= Len(u))
    <3>1. /\ i - Len(u) \in DOMAIN s /\ j - Len(u) \in DOMAIN s /\ i - Len(u) < j - Len(u)
      BY <1>1, <1>3, <1>6, <2>3
    <3>2. g[i - Len(u)] < g[j - Len(u)]
      BY <1>2, <3>1
    <3> QED BY <1>1, <1>4, <2>3, <3>1, <3>2
  <2> QED BY <1>1, <1>6, <2>1, <2>2, <2>3
<1>7. ASSUME NEW i \in DOMAIN (u \o s)
      PROVE  (u \o s)[i] = (u \o t)[f[i]]
  <2>1. CASE i <= Len(u)
    BY <1>1, <2>1
  <2>2. CASE ~(i <= Len(u))
    <3>1. i - Len(u) \in DOMAIN s
      BY <1>3, <2>2
    <3>2. f[i] = Len(u) + g[i - Len(u)] /\ g[i - Len(u)] \in 1..Len(t)
      BY <1>4, <2>2, <3>1
    <3>3. (u \o t)[f[i]] = t[g[i - Len(u)]]
      BY <1>1, <3>2
    <3>4. (u \o s)[i] = s[i - Len(u)]
      BY <1>1, <2>2
    <3> QED BY <1>2, <3>1, <3>3, <3>4
  <2> QED BY <2>1, <2>2
<1> HIDE DEF f
<1> QED BY <1>5, <1>6, <1>7 DEF Fifo!IsSubsequence

\* Where a sequence of entries is cut does not matter.
LEMMA EntriesConcat ==
  ASSUME NEW s \in Seq(Entry), NEW t \in Seq(Entry), NEW u \in Seq(Entry)
  PROVE  (s \o t) \o u = s \o (t \o u)
BY ConcatAssociative

\* Appending to the end of two sequences is appending to the second.
LEMMA EntriesAppend ==
  ASSUME NEW s \in Seq(Entry), NEW t \in Seq(Entry), NEW e \in Entry
  PROVE  s \o Append(t, e) = Append(s \o t, e)
OBVIOUS

-----------------------------------------------------------------------------
(* Entries in the order of their numbers.                                   *)

\* Numbers grow along s and none exceeds k.
Numbered(s, k) ==
  /\ \A i, j \in DOMAIN s : i < j => s[i].n < s[j].n
  /\ \A i \in DOMAIN s : s[i].n <= k

\* Dropping entries keeps the numbers of the others in order.
LEMMA NumberedSubsequence ==
  ASSUME NEW s, NEW t, NEW k, Numbered(t, k), Fifo!IsSubsequence(s, t)
  PROVE  Numbered(s, k)
<1>1. PICK f \in [DOMAIN s -> DOMAIN t] :
        /\ \A i, j \in DOMAIN s : i < j => f[i] < f[j]
        /\ \A i \in DOMAIN s : s[i] = t[f[i]]
  BY DEF Fifo!IsSubsequence
<1> QED BY <1>1 DEF Numbered

\* An entry with the next number goes to the end.
LEMMA NumberedAppend ==
  ASSUME NEW s \in Seq(Entry), NEW k \in Nat, NEW e \in Entry,
         Numbered(s, k), e.n = k + 1
  PROVE  Numbered(Append(s, e), k + 1)
<1>1. /\ DOMAIN Append(s, e) = 1..(Len(s) + 1) /\ Len(s) \in Nat /\ DOMAIN s = 1..Len(s)
      /\ Append(s, e)[Len(s) + 1] = e
      /\ \A i \in 1..Len(s) : Append(s, e)[i] = s[i]
  BY AppendProperties
<1>2. \A i \in DOMAIN s : s[i] \in Entry /\ s[i].n \in Nat
  <2>1. \A i \in DOMAIN s : s[i] \in Entry
    BY <1>1, ElementOfSeq
  <2> QED BY <2>1 DEF Entry
<1>3. ASSUME NEW i \in DOMAIN Append(s, e), NEW j \in DOMAIN Append(s, e), i < j
      PROVE  Append(s, e)[i].n < Append(s, e)[j].n
  <2>1. CASE j <= Len(s)
    BY <1>1, <1>3, <2>1 DEF Numbered
  <2>2. CASE j = Len(s) + 1
    <3>1. i \in DOMAIN s /\ Append(s, e)[i] = s[i]
      BY <1>1, <1>3, <2>2
    <3>2. s[i].n <= k
      BY <3>1 DEF Numbered
    <3> QED BY <1>1, <1>2, <2>2, <3>1, <3>2
  <2> QED BY <1>1, <2>1, <2>2
<1>4. ASSUME NEW i \in DOMAIN Append(s, e)
      PROVE  Append(s, e)[i].n <= k + 1
  <2>1. CASE i \in DOMAIN s
    BY <1>1, <1>2, <2>1 DEF Numbered
  <2>2. CASE i = Len(s) + 1
    BY <1>1, <2>2
  <2> QED BY <1>1, <2>1, <2>2
<1> QED BY <1>3, <1>4 DEF Numbered

-----------------------------------------------------------------------------
(* The inductive invariant: the request a device waits for is a request of   *)
(* that device (Connected), and only a poll that has popped its entry        *)
(* carries one (Carried), so what is in flight goes to the device whose list *)
(* it was popped from.                                                       *)

Connected ==
  \A d \in Device : conn[d] # None => req[conn[d]].dev = d /\ req[conn[d]].pc # "idle"

Carried ==
  \A x \in Handler :
    /\ req[x].reply # None => req[x].pc = "reply" /\ ~req[x].inform
    /\ req[x].pc = "poll" => ~req[x].inform

CInv == IInv /\ Connected /\ Carried

\* Nobody is connected at the start.
LEMMA CarriedInit == Init => CInv
<1>1. Init => Connected /\ Carried
  BY DEF Init, Connected, Carried, IdleRequest
<1> QED BY <1>1, InitInv DEF CInv

\* What a handler does to its own request before it answers.
LEMMA ServeKeeps ==
  ASSUME CInv, NEW x \in Handler,
         \/ Lookup(x) \/ LockParameters(x) \/ SaveParameterValues(x)
         \/ UnlockParameters(x) \/ Record(x) \/ GetMessage(x)
  PROVE  /\ UNCHANGED <<conn, delivered, pushes>>
         /\ \A y \in Handler \ {x} : req'[y] = req[y]
         /\ req'[x].dev = req[x].dev
         /\ req[x].pc # "idle" /\ req'[x].pc # "idle"
         /\ req'[x].pc = "poll" => ~req'[x].inform
         /\ req[x].reply = None
         /\ req'[x].reply # None => /\ GetMessage(x) /\ req'[x].pc = "reply" /\ ~req'[x].inform
                                    /\ queue[req[x].dev] # <<>>
                                    /\ req'[x].reply = Head(queue[req[x].dev])
                                    /\ queue' = [queue EXCEPT ![req[x].dev] = Tail(@)]
<1>1. req \in [Handler -> Request] /\ req[x] \in Request
  BY DEF CInv, IInv, TypeOK
<1>2. CASE Lookup(x)
  <2>0. PICK found \in BOOLEAN, pc \in {"lock", "record"},
             v \in {req[x].verdict, row[req[x].cmd]} :
          req' = [req EXCEPT ![x].found = found, ![x].verdict = v, ![x].pc = pc]
    BY <1>2 DEF Lookup
  <2>1. /\ req[x].pc = "result" /\ req'[x].pc \in {"lock", "record"}
        /\ req'[x].dev = req[x].dev /\ req'[x].reply = req[x].reply
        /\ \A y \in Handler \ {x} : req'[y] = req[y]
    BY <1>1, <1>2, <2>0 DEF Lookup, Request
  <2>2. req[x].reply = None
    BY <2>1 DEF CInv, Carried
  <2>3. UNCHANGED <<conn, delivered, pushes>>
    BY <1>2 DEF Lookup, deviceVars, producerVars
  <2> QED BY <2>1, <2>2, <2>3
<1>3. CASE LockParameters(x)
  BY <1>1, <1>3 DEF LockParameters, CInv, Carried, deviceVars, producerVars, Request
<1>4. CASE SaveParameterValues(x)
  BY <1>1, <1>4 DEF SaveParameterValues, CInv, Carried, deviceVars, producerVars, Request
<1>5. CASE UnlockParameters(x)
  BY <1>1, <1>5 DEF UnlockParameters, CInv, Carried, deviceVars, producerVars, Request
<1>6. CASE Record(x)
  <2>1. req' = [req EXCEPT ![x] = [IdleRequest EXCEPT !.pc = "poll", !.dev = req[x].dev]]
    BY <1>6 DEF Record
  <2>2. /\ req'[x] = [IdleRequest EXCEPT !.pc = "poll", !.dev = req[x].dev]
        /\ \A y \in Handler \ {x} : req'[y] = req[y]
    BY <1>1, <2>1
  <2>3. /\ req'[x].pc = "poll" /\ req'[x].dev = req[x].dev
        /\ req'[x].inform = FALSE /\ req'[x].reply = None
    BY <2>2 DEF IdleRequest
  <2> QED BY <1>6, <2>2, <2>3 DEF Record, CInv, Carried, deviceVars
<1>7. CASE GetMessage(x)
  BY <1>1, <1>7 DEF GetMessage, CInv, Carried, deviceVars, producerVars, Request
<1> QED BY <1>2, <1>3, <1>4, <1>5, <1>6, <1>7

\* A device that posts a request was waiting for no other, and the handler
\* that takes it was serving none.
LEMMA AskKeeps ==
  ASSUME CInv, NEW d \in Device, NEW x \in Handler, Ask(d, x)
  PROVE  /\ UNCHANGED <<queue, delivered, pushes>>
         /\ conn[d] = None /\ conn' = [conn EXCEPT ![d] = x]
         /\ req[x].pc = "idle" /\ \A y \in Handler \ {x} : req'[y] = req[y]
         /\ req'[x].dev = d /\ req'[x].pc # "idle" /\ req'[x].reply = None
         /\ req'[x].pc = "poll" => ~req'[x].inform
<1>1. req \in [Handler -> Request]
  BY DEF CInv, IInv, TypeOK
<1>2. PICK r : /\ Post(d, x, r)
               /\ r.dev = d /\ r.pc # "idle" /\ r.reply = None
               /\ r.pc = "poll" => ~r.inform
  <2>1. CASE Inform(d, x)
    <3>1. PICK pc \in {"reply", "lock"} :
            Post(d, x, [IdleRequest EXCEPT !.pc = pc, !.dev = d, !.inform = TRUE])
      BY <2>1 DEF Inform
    <3> DEFINE r == [IdleRequest EXCEPT !.pc = pc, !.dev = d, !.inform = TRUE]
    <3>2. r.dev = d /\ r.pc \in {"reply", "lock"} /\ r.reply = None
      BY DEF IdleRequest
    <3>3. Post(d, x, r)
      BY <3>1
    <3> HIDE DEF r
    <3> QED BY <3>2, <3>3
  <2>2. CASE Poll(d, x)
    <3> DEFINE r == [IdleRequest EXCEPT !.pc = "poll", !.dev = d]
    <3>1. Post(d, x, r)
      BY <2>2 DEF Poll
    <3>2. r.dev = d /\ r.pc = "poll" /\ r.reply = None /\ r.inform = FALSE
      BY DEF IdleRequest
    <3> HIDE DEF r
    <3> QED BY <3>1, <3>2
  <2>3. CASE Respond(d, x)
    <3>1. PICK v \in Verdicts(exec[d]) :
            Post(d, x, [IdleRequest EXCEPT !.pc = "result", !.dev = d,
                                           !.cmd = exec[d], !.verdict = v])
      BY <2>3 DEF Respond
    <3> DEFINE r == [IdleRequest EXCEPT !.pc = "result", !.dev = d,
                                        !.cmd = exec[d], !.verdict = v]
    <3>2. r.dev = d /\ r.pc = "result" /\ r.reply = None
      BY DEF IdleRequest
    <3>3. Post(d, x, r)
      BY <3>1
    <3> HIDE DEF r
    <3> QED BY <3>2, <3>3
  <2> QED BY <2>1, <2>2, <2>3 DEF Ask
<1>3. req'[x] = r /\ \A y \in Handler \ {x} : req'[y] = req[y]
  BY <1>1, <1>2 DEF Post
<1> QED BY <1>2, <1>3 DEF Post, producerVars

\* An answer makes its handler idle and lets go of the device that waits for it.
LEMMA ReplyKeeps ==
  ASSUME CInv, NEW x \in Handler, Reply(x)
  PROVE  /\ UNCHANGED <<queue, pushes>>
         /\ req'[x] = IdleRequest /\ \A y \in Handler \ {x} : req'[y] = req[y]
         /\ req[x].pc = "reply" /\ req[x].dev \in Device
         /\ conn[req[x].dev] = x => conn' = [conn EXCEPT ![req[x].dev] = None]
         /\ conn[req[x].dev] # x => conn' = conn
<1>1. req \in [Handler -> Request] /\ req[x].dev \in Device
  BY DEF CInv, IInv, TypeOK, Busy, Reply
<1> QED BY <1>1 DEF Reply, deviceVars, producerVars

\* Every step keeps the invariant.
LEMMA CarriedStep == CInv /\ [Next]_vars => CInv'
<1> SUFFICES ASSUME CInv, [Next]_vars PROVE CInv'
  OBVIOUS
<1> USE ChannelAssumption DEF ChannelAssumption
<1>0. /\ IInv' /\ conn \in [Device -> Handler \cup {None}]
      /\ conn' \in [Device -> Handler \cup {None}]
  <2>1. IInv'
    BY NextInv DEF CInv
  <2> QED BY <2>1 DEF CInv, IInv, TypeOK
<1>1. ASSUME NEW c \in Cmd, Produce(c) PROVE Connected' /\ Carried'
  <2>1. UNCHANGED <<req, conn>>
    BY <1>1 DEF Produce, SenderTrack, ServiceTrack, ScheduledTrack, PutMessage, PutResend, PutFails, deviceVars
  <2> QED BY <2>1 DEF CInv, Connected, Carried
<1>2. ASSUME NEW d \in Device, NEW x \in Handler, Ask(d, x) PROVE Connected' /\ Carried'
  <2>1. Connected'
    BY <1>0, <1>2, AskKeeps DEF CInv, Connected
  <2>2. Carried'
    BY <1>2, AskKeeps DEF CInv, Carried
  <2> QED BY <2>1, <2>2
<1>3. ASSUME NEW x \in Handler,
             \/ Lookup(x) \/ LockParameters(x) \/ SaveParameterValues(x)
             \/ UnlockParameters(x) \/ Record(x) \/ GetMessage(x)
      PROVE  Connected' /\ Carried'
  <2>1. Connected'
    BY <1>0, <1>3, ServeKeeps DEF CInv, Connected
  <2>2. Carried'
    BY <1>3, ServeKeeps DEF CInv, Carried
  <2> QED BY <2>1, <2>2
<1>4. ASSUME NEW x \in Handler, Reply(x) PROVE Connected' /\ Carried'
  <2>1. Connected'
    <3> SUFFICES ASSUME NEW k \in Device, conn'[k] # None
                 PROVE  req'[conn'[k]].dev = k /\ req'[conn'[k]].pc # "idle"
      BY DEF Connected
    <3>1. conn'[k] = conn[k] /\ conn[k] # x
      BY <1>0, <1>4, ReplyKeeps DEF CInv, Connected
    <3>2. conn[k] \in Handler \ {x}
      BY <1>0, <3>1
    <3> QED BY <1>4, <3>1, <3>2, ReplyKeeps DEF CInv, Connected
  <2>2. Carried'
    BY <1>4, ReplyKeeps DEF CInv, Carried, IdleRequest
  <2> QED BY <2>1, <2>2
<1>5. ASSUME NEW d \in Device, GiveUp(d) \/ Cut(d) \/ QueueExpires(d) \/ LockExpires(d)
      PROVE  Connected' /\ Carried'
  <2>1. req' = req /\ \A k \in Device : conn'[k] = conn[k] \/ conn'[k] = None
    BY <1>0, <1>5 DEF GiveUp, Cut, QueueExpires, LockExpires, deviceVars
  <2> QED BY <2>1 DEF CInv, Connected, Carried
<1>6. ASSUME Crash PROVE Connected' /\ Carried'
  <2>1. req' = [y \in Handler |-> IdleRequest] /\ \A k \in Device : conn'[k] = None
    BY <1>6 DEF Crash
  <2> QED BY <2>1 DEF Connected, Carried, IdleRequest
<1>7. ASSUME UNCHANGED vars PROVE Connected' /\ Carried'
  BY <1>7 DEF vars, CInv, Connected, Carried
<1>8. Connected' /\ Carried'
  BY <1>1, <1>2, <1>3, <1>4, <1>5, <1>6, <1>7 DEF Next, Serve
<1> QED BY <1>0, <1>8 DEF CInv

-----------------------------------------------------------------------------
(* What a step of the system does to the line of entries between the Redis   *)
(* list and the device.                                                      *)

Chan(d) == InFlight(d) \o queue[d]

\* The line of d is as it was.
Kept(d) == Chan(d)' = Chan(d) /\ delivered'[d] = delivered[d]

\* An LPUSH puts an entry with the next number at its end.
Pushed(d) ==
  \E e \in Entry :
    /\ e.n = pushes[d] + 1 /\ pushes'[d] = pushes[d] + 1
    /\ Chan(d)' = Append(Chan(d), e)
    /\ delivered'[d] = delivered[d]

\* Its first entry is handed to the device.
Taken(d) ==
  /\ Chan(d) # <<>>
  /\ Chan(d)' = Tail(Chan(d))
  /\ delivered'[d] = Append(delivered[d], Head(Chan(d)))

\* Some of its entries are dropped, maybe none.
Dropped(d) == Fifo!IsSubsequence(Chan(d)', Chan(d)) /\ delivered'[d] = delivered[d]

\* The parts of a line are sequences of entries.
LEMMA ChanType ==
  ASSUME TypeOK
  PROVE  \A d \in Device : /\ Chan(d) \in Seq(Entry)
                           /\ InFlight(d) \in Seq(Entry)
                           /\ queue[d] \in Seq(Entry)
                           /\ delivered[d] \in Seq(Entry)
<1> SUFFICES ASSUME NEW d \in Device
             PROVE  Chan(d) \in Seq(Entry) /\ InFlight(d) \in Seq(Entry)
  BY DEF TypeOK
<1>1. conn[d] # None => req[conn[d]].reply \in Entry \cup {None}
  BY DEF TypeOK, Request
<1>2. InFlight(d) \in Seq(Entry)
  BY <1>1 DEF InFlight
<1>3. queue[d] \in Seq(Entry)
  BY DEF TypeOK
<1> QED BY <1>2, <1>3 DEF Chan

\* A line that is as it was has dropped nothing.
LEMMA KeptIsDropped ==
  ASSUME TypeOK, NEW d \in Device, Kept(d)
  PROVE  Dropped(d)
BY ChanType, SubsequenceOfItself DEF Kept, Dropped

\* The line of d depends on the list of d and on the request d waits for.
LEMMA SameChan ==
  ASSUME NEW d \in Device, conn'[d] = conn[d], queue'[d] = queue[d],
         conn[d] # None => req'[conn[d]].reply = req[conn[d]].reply,
         delivered'[d] = delivered[d]
  PROVE  Kept(d)
BY DEF Kept, Chan, InFlight

\* Producers only push.
LEMMA ProduceLine ==
  ASSUME CInv, NEW c \in Cmd, Produce(c)
  PROVE  \/ \A d \in Device : Kept(d) /\ pushes'[d] = pushes[d]
         \/ \E d \in Device : /\ Pushed(d)
                              /\ \A k \in Device \ {d} : Kept(k) /\ pushes'[k] = pushes[k]
<1>1. UNCHANGED <<req, conn, delivered>>
  BY DEF Produce, SenderTrack, ServiceTrack, ScheduledTrack, PutMessage, PutResend, PutFails, deviceVars
<1>2. CASE Enqueue(c)
  <2>1. PICK d \in Device : d = DeviceOf[c]
    BY ChannelAssumption DEF ChannelAssumption
  <2>2. PICK e : e = [cmd |-> c, n |-> pushes[d] + 1]
    OBVIOUS
  <2>3. /\ pushes \in [Device -> Nat] /\ queue \in [Device -> Seq(Entry)]
        /\ InFlight(d) \in Seq(Entry)
    BY ChanType DEF CInv, IInv, TypeOK
  <2>4. e \in Entry /\ e.n = pushes[d] + 1
    BY <2>2, <2>3, EntryType
  <2>5. pushes' = [pushes EXCEPT ![d] = @ + 1] /\ queue' = [queue EXCEPT ![d] = Append(@, e)]
    BY <1>2, <2>1, <2>2 DEF Enqueue
  <2>6. \A k \in Device \ {d} : Kept(k) /\ pushes'[k] = pushes[k]
    BY <1>1, <2>3, <2>5, SameChan
  <2>7. InFlight(d)' = InFlight(d)
    BY <1>1 DEF InFlight
  <2>8. InFlight(d) \o Append(queue[d], e) = Append(InFlight(d) \o queue[d], e)
    BY <2>3, <2>4
  <2>9. Chan(d)' = Append(Chan(d), e)
    BY <2>3, <2>5, <2>7, <2>8 DEF Chan
  <2>10. Pushed(d)
    BY <1>1, <2>3, <2>4, <2>5, <2>9 DEF Pushed
  <2> QED BY <2>6, <2>10
<1>3. CASE UNCHANGED <<queue, pushes>>
  BY <1>1, <1>3, SameChan
<1> QED BY <1>2, <1>3 DEF Produce, SenderTrack, ServiceTrack, ScheduledTrack,
                         PutMessage, PutResend, PutFails

\* A post puts nothing on the line: the new request carries no entry.
LEMMA AskLine ==
  ASSUME CInv, NEW d \in Device, NEW x \in Handler, Ask(d, x)
  PROVE  \A k \in Device : Kept(k) /\ pushes'[k] = pushes[k]
<1>1. /\ UNCHANGED <<queue, delivered, pushes>>
      /\ conn[d] = None /\ conn' = [conn EXCEPT ![d] = x]
      /\ req[x].pc = "idle" /\ \A y \in Handler \ {x} : req'[y] = req[y]
      /\ req'[x].reply = None
  BY AskKeeps
<1>2. conn \in [Device -> Handler \cup {None}]
  BY DEF CInv, IInv, TypeOK
<1>3. ASSUME NEW k \in Device PROVE Kept(k)
  <2>1. CASE k = d
    <3>1. InFlight(k) = <<>>
      BY <1>1, <2>1 DEF InFlight
    <3>2. conn'[k] = x
      BY <1>1, <1>2, <2>1
    <3>3. InFlight(k)' = <<>>
      BY <1>1, <3>2 DEF InFlight
    <3> QED BY <1>1, <3>1, <3>3 DEF Kept, Chan
  <2>2. CASE k # d
    <3>1. conn'[k] = conn[k] /\ conn[k] # x
      BY <1>1, <1>2, <2>2, ChannelAssumption DEF ChannelAssumption, CInv, Connected
    <3>2. conn[k] # None => conn[k] \in Handler \ {x}
      BY <1>2, <3>1
    <3> QED BY <1>1, <3>1, <3>2, SameChan
  <2> QED BY <2>1, <2>2
<1> QED BY <1>1, <1>3

\* Serving a request before its answer: a pop moves the first entry of the list
\* to the answer of the device that waits, or drops it when none waits.
LEMMA ServeLine ==
  ASSUME CInv, NEW x \in Handler,
         \/ Lookup(x) \/ LockParameters(x) \/ SaveParameterValues(x)
         \/ UnlockParameters(x) \/ Record(x) \/ GetMessage(x)
  PROVE  \A k \in Device : Dropped(k) /\ pushes'[k] = pushes[k]
<1>1. TypeOK /\ req[x].reply = None
  BY ServeKeeps DEF CInv, IInv
<1>2. /\ UNCHANGED <<conn, delivered, pushes>>
      /\ \A y \in Handler \ {x} : req'[y] = req[y]
  BY ServeKeeps
<1>3. conn \in [Device -> Handler \cup {None}] /\ queue \in [Device -> Seq(Entry)]
  BY <1>1 DEF TypeOK
<1>4. CASE req'[x].reply = None /\ UNCHANGED queue
  <2>1. \A k \in Device : conn[k] # None => req'[conn[k]].reply = req[conn[k]].reply
    BY <1>1, <1>2, <1>3, <1>4
  <2>2. \A k \in Device : Kept(k)
    BY <1>2, <1>4, <2>1, SameChan
  <2> QED BY <1>1, <1>2, <2>2, KeptIsDropped
<1>5. ASSUME NEW d \in Device, req[x].dev = d, queue[d] # <<>>,
             queue' = [queue EXCEPT ![d] = Tail(@)],
             \/ req'[x].reply = None
             \/ req'[x].reply # None /\ req'[x].reply = Head(queue[d])
      PROVE  \A k \in Device : Dropped(k) /\ pushes'[k] = pushes[k]
  <2>1. ASSUME NEW k \in Device \ {d} PROVE Dropped(k)
    <3>1. conn[k] # None => conn[k] \in Handler \ {x}
      BY <1>3, <1>5 DEF CInv, Connected
    <3>2. Kept(k)
      BY <1>2, <1>3, <1>5, <3>1, SameChan
    <3> QED BY <1>1, <3>2, KeptIsDropped
  <2>2. /\ queue'[d] = Tail(queue[d]) /\ Tail(queue[d]) \in Seq(Entry)
        /\ Head(queue[d]) \in Entry /\ queue[d] = <<Head(queue[d])>> \o Tail(queue[d])
    BY <1>3, <1>5
  <2>3. CASE conn[d] = x /\ req'[x].reply # None
    <3>1. InFlight(d) = <<>> /\ x # None
      BY <1>1, <2>3, ChannelAssumption DEF InFlight, ChannelAssumption
    <3>2. InFlight(d)' = <<Head(queue[d])>>
      BY <1>2, <1>5, <2>3, <3>1 DEF InFlight
    <3>3. Chan(d)' = Chan(d)
      <4>1. Chan(d)' = queue[d]
        BY <2>2, <3>2 DEF Chan
      <4>2. Chan(d) = queue[d]
        BY <1>3, <3>1 DEF Chan
      <4> QED BY <4>1, <4>2
    <3> QED BY <1>1, <1>2, <2>1, <3>3, KeptIsDropped DEF Kept
  <2>4. CASE ~(conn[d] = x /\ req'[x].reply # None)
    <3>1. InFlight(d)' = InFlight(d)
      <4>1. CASE conn[d] = x
        BY <1>1, <1>2, <2>4, <4>1 DEF InFlight
      <4>2. CASE conn[d] # x
        BY <1>2, <1>3, <4>2 DEF InFlight
      <4> QED BY <4>1, <4>2
    <3>2. Fifo!IsSubsequence(Tail(queue[d]), queue[d])
      <4>1. <<Head(queue[d])>> \in Seq(Entry)
        BY <2>2
      <4> QED BY <2>2, <4>1, SubsequenceOfConcat
    <3>3. Fifo!IsSubsequence(InFlight(d) \o Tail(queue[d]), InFlight(d) \o queue[d])
      BY <1>1, <1>3, <2>2, <3>2, ChanType, ConcatSubsequence
    <3> QED BY <1>2, <2>1, <2>2, <3>1, <3>3 DEF Chan, Dropped
  <2> QED BY <2>3, <2>4
<1>6. CASE GetMessage(x)
  <2>1. PICK d \in Device : req[x].dev = d
    BY <1>6 DEF GetMessage, CInv, IInv, Busy
  <2>2. req \in [Handler -> Request]
    BY <1>1 DEF TypeOK
  <2>3. \/ UNCHANGED queue /\ req'[x].reply = None
        \/ /\ queue[d] # <<>> /\ queue' = [queue EXCEPT ![d] = Tail(@)]
           /\ req'[x].reply = None \/ req'[x].reply = Head(queue[d])
    BY <1>1, <1>6, <2>1, <2>2 DEF GetMessage, Request
  <2> QED BY <1>4, <1>5, <2>1, <2>3
<1>7. CASE ~GetMessage(x)
  <2>1. req'[x].reply = None
    BY <1>7, ServeKeeps
  <2>2. UNCHANGED queue
    BY <1>7 DEF Lookup, LockParameters, SaveParameterValues, UnlockParameters, Record
  <2> QED BY <1>4, <2>1, <2>2
<1> QED BY <1>6, <1>7

\* An answer hands its entry to the device that waits for it, and drops it if
\* that device waits for another answer or for none.
LEMMA ReplyLine ==
  ASSUME CInv, NEW x \in Handler, Reply(x)
  PROVE  /\ pushes' = pushes
         /\ \/ \A k \in Device : Dropped(k)
            \/ \E d \in Device : Taken(d) /\ \A k \in Device \ {d} : Kept(k)
<1>1. /\ UNCHANGED <<queue, pushes>>
      /\ req'[x] = IdleRequest /\ \A y \in Handler \ {x} : req'[y] = req[y]
      /\ conn[req[x].dev] = x => conn' = [conn EXCEPT ![req[x].dev] = None]
      /\ conn[req[x].dev] # x => conn' = conn
  BY ReplyKeeps
<1>2. PICK d \in Device, e \in Entry \cup {None} : req[x].dev = d /\ req[x].reply = e
  BY ReplyKeeps DEF CInv, IInv, TypeOK, Request
<1>3. /\ conn \in [Device -> Handler \cup {None}]
      /\ queue \in [Device -> Seq(Entry)] /\ delivered \in [Device -> Seq(Entry)]
      /\ TypeOK /\ x # None
  BY ChannelAssumption DEF ChannelAssumption, CInv, IInv, TypeOK
<1>4. \A k \in Device : k # d \/ conn[d] # x => conn[k] # x
  BY <1>2, <1>3 DEF CInv, Connected
<1>5. \A k \in Device : k # d \/ conn[d] # x =>
        /\ conn'[k] = conn[k]
        /\ conn[k] # None => req'[conn[k]].reply = req[conn[k]].reply
  BY <1>1, <1>2, <1>3, <1>4
<1>6. CASE conn[d] = x /\ e # None
  <2>1. delivered' = [delivered EXCEPT ![d] = Append(@, e)]
    BY <1>2, <1>6 DEF Reply, CInv, Carried
  <2>2. InFlight(d) = <<e>> /\ InFlight(d)' = <<>>
    BY <1>1, <1>2, <1>3, <1>6 DEF InFlight
  <2>3. Chan(d) = <<e>> \o queue[d] /\ Chan(d)' = queue[d] /\ e \in Entry
    BY <1>1, <1>3, <1>6, <2>2 DEF Chan
  <2>4. <<e>> \o queue[d] # <<>> /\ Head(<<e>> \o queue[d]) = e /\ Tail(<<e>> \o queue[d]) = queue[d]
    BY <1>3, <2>3
  <2>5. Taken(d)
    BY <1>3, <2>1, <2>3, <2>4 DEF Taken
  <2>6. \A k \in Device \ {d} : delivered'[k] = delivered[k]
    BY <1>3, <2>1
  <2>7. \A k \in Device \ {d} : Kept(k)
    BY <1>1, <1>5, <2>6, SameChan
  <2> QED BY <1>1, <2>5, <2>7
<1>7. CASE ~(conn[d] = x /\ e # None)
  <2>1. UNCHANGED delivered
    BY <1>2, <1>7 DEF Reply, deviceVars
  <2>2. \A k \in Device \ {d} : Kept(k)
    BY <1>1, <1>5, <2>1, SameChan
  <2>3. Kept(d)
    <3>1. CASE conn[d] # x
      BY <1>1, <1>5, <2>1, <3>1, SameChan
    <3>2. CASE conn[d] = x
      <4>1. InFlight(d) = <<>> /\ InFlight(d)' = <<>>
        BY <1>1, <1>2, <1>3, <1>7, <3>2 DEF InFlight
      <4> QED BY <1>1, <2>1, <4>1 DEF Kept, Chan
    <3> QED BY <3>1, <3>2
  <2> QED BY <1>1, <1>3, <2>2, <2>3, KeptIsDropped
<1> QED BY <1>6, <1>7

\* Crashes, cut sessions and expiring keys only drop entries.
LEMMA OtherLine ==
  ASSUME CInv,
         \/ Crash
         \/ \E d \in Device : GiveUp(d) \/ Cut(d) \/ QueueExpires(d) \/ LockExpires(d)
         \/ UNCHANGED vars
  PROVE  \A k \in Device : Dropped(k) /\ pushes'[k] = pushes[k]
<1>1. UNCHANGED <<delivered, pushes>>
  BY DEF Crash, GiveUp, Cut, QueueExpires, LockExpires, producerVars, deviceVars, vars
<1>2. TypeOK /\ queue \in [Device -> Seq(Entry)]
  BY DEF CInv, IInv, TypeOK
<1>3. ASSUME NEW k \in Device
      PROVE  /\ InFlight(k)' = InFlight(k) \/ InFlight(k)' = <<>>
             /\ queue'[k] = queue[k] \/ (queue'[k] = <<>> /\ InFlight(k)' = InFlight(k))
  <2>1. CASE Crash
    BY <2>1 DEF Crash, InFlight
  <2>2. CASE \E d \in Device : GiveUp(d) \/ LockExpires(d)
    BY <2>2 DEF GiveUp, LockExpires, deviceVars, InFlight
  <2>3. ASSUME NEW d \in Device, Cut(d)
        PROVE  /\ InFlight(k)' = InFlight(k) \/ InFlight(k)' = <<>>
               /\ queue'[k] = queue[k]
    <3>1. req' = req /\ queue' = queue /\ (conn'[k] = conn[k] \/ conn'[k] = None)
      BY <2>3 DEF Cut, CInv, IInv, TypeOK
    <3> QED BY <3>1 DEF InFlight
  <2>4. ASSUME NEW d \in Device, QueueExpires(d)
        PROVE  InFlight(k)' = InFlight(k) /\ (queue'[k] = queue[k] \/ queue'[k] = <<>>)
    BY <1>2, <2>4 DEF QueueExpires, deviceVars, InFlight
  <2>5. CASE UNCHANGED vars
    BY <2>5 DEF vars, InFlight
  <2> QED BY <2>1, <2>2, <2>3, <2>4, <2>5
<1>4. ASSUME NEW k \in Device PROVE Dropped(k)
  <2>1. InFlight(k) \in Seq(Entry) /\ queue[k] \in Seq(Entry) /\ <<>> \in Seq(Entry)
    BY <1>2, ChanType
  <2>2. CASE InFlight(k)' = InFlight(k) /\ queue'[k] = queue[k]
    BY <1>1, <1>2, <2>2, KeptIsDropped DEF Chan, Kept
  <2>3. CASE InFlight(k)' = <<>> /\ queue'[k] = queue[k]
    <3>1. Chan(k)' = queue[k]
      BY <2>1, <2>3 DEF Chan
    <3> QED BY <1>1, <2>1, <3>1, SubsequenceOfConcat DEF Chan, Dropped
  <2>4. CASE InFlight(k)' = InFlight(k) /\ queue'[k] = <<>>
    <3>1. Chan(k)' = InFlight(k)
      BY <2>1, <2>4 DEF Chan
    <3> QED BY <1>1, <2>1, <3>1, SubsequenceOfConcat DEF Chan, Dropped
  <2> QED BY <1>3, <2>2, <2>3, <2>4
<1> QED BY <1>1, <1>4

\* A step pushes one entry, or hands over one, or drops some.
LEMMA LineStep ==
  ASSUME CInv, [Next]_vars
  PROVE  \/ \A k \in Device : Dropped(k) /\ pushes'[k] = pushes[k]
         \/ \E d \in Device :
              /\ \/ Pushed(d)
                 \/ Taken(d) /\ pushes'[d] = pushes[d]
              /\ \A k \in Device \ {d} : Kept(k) /\ pushes'[k] = pushes[k]
<1>0. TypeOK
  BY DEF CInv, IInv
<1> DEFINE Goal == \/ \A k \in Device : Dropped(k) /\ pushes'[k] = pushes[k]
                   \/ \E d \in Device :
                        /\ \/ Pushed(d)
                           \/ Taken(d) /\ pushes'[d] = pushes[d]
                        /\ \A k \in Device \ {d} : Kept(k) /\ pushes'[k] = pushes[k]
<1>1. ASSUME NEW c \in Cmd, Produce(c) PROVE Goal
  BY <1>0, <1>1, ProduceLine, KeptIsDropped
<1>2. ASSUME NEW d \in Device, NEW x \in Handler, Ask(d, x) PROVE Goal
  BY <1>0, <1>2, AskLine, KeptIsDropped
<1>3. ASSUME NEW x \in Handler, Reply(x) PROVE Goal
  BY <1>3, ReplyLine
<1>4. ASSUME NEW x \in Handler,
             \/ Lookup(x) \/ LockParameters(x) \/ SaveParameterValues(x)
             \/ UnlockParameters(x) \/ Record(x) \/ GetMessage(x)
      PROVE  Goal
  BY <1>4, ServeLine
<1>5. ASSUME \/ Crash
             \/ \E d \in Device : GiveUp(d) \/ Cut(d) \/ QueueExpires(d) \/ LockExpires(d)
             \/ UNCHANGED vars
      PROVE  Goal
  BY <1>5, OtherLine
<1> HIDE DEF Goal
<1>6. Goal
  BY <1>1, <1>2, <1>3, <1>4, <1>5 DEF Next, Serve
<1> QED BY <1>6 DEF Goal

-----------------------------------------------------------------------------
(* Entries stay in the order of their pushes.                               *)

\* What a device received, what is on its way to it and what waits in its list
\* carry growing numbers, and the last LPUSH has the greatest.
Ordered == \A d \in Device : Numbered(delivered[d] \o Chan(d), pushes[d])

\* Nothing has been pushed at the start.
LEMMA OrderedInit == Init => Ordered
<1> SUFFICES ASSUME Init, NEW d \in Device PROVE Numbered(delivered[d] \o Chan(d), pushes[d])
  BY DEF Ordered
<1>1. delivered[d] = <<>> /\ Chan(d) = <<>>
  BY DEF Init, Chan, InFlight
<1>2. delivered[d] \o Chan(d) = <<>>
  BY <1>1
<1> QED BY <1>2 DEF Numbered

\* Pushing, handing over and dropping entries all keep their order.
LEMMA OrderedStep == CInv /\ Ordered /\ [Next]_vars => Ordered'
<1> SUFFICES ASSUME CInv, Ordered, [Next]_vars, NEW d \in Device
             PROVE  Numbered(delivered'[d] \o Chan(d)', pushes'[d])
  BY DEF Ordered
<1>1. Numbered(delivered[d] \o Chan(d), pushes[d]) /\ pushes[d] \in Nat
  BY DEF Ordered, CInv, IInv, TypeOK
<1>2. /\ Chan(d) \in Seq(Entry) /\ delivered[d] \in Seq(Entry)
      /\ Chan(d)' \in Seq(Entry)
  <2>1. TypeOK /\ TypeOK'
    BY CarriedStep DEF CInv, IInv
  <2>2. conn'[d] # None => req'[conn'[d]].reply \in Entry \cup {None}
    BY <2>1 DEF TypeOK, Request
  <2>3. InFlight(d)' \in Seq(Entry) /\ queue'[d] \in Seq(Entry)
    BY <2>1, <2>2 DEF InFlight, TypeOK
  <2> QED BY <2>1, <2>3, ChanType DEF Chan
<1>3. CASE Dropped(d) /\ pushes'[d] = pushes[d]
  <2>1. Fifo!IsSubsequence(delivered[d] \o Chan(d)', delivered[d] \o Chan(d))
    BY <1>2, <1>3, ConcatSubsequence DEF Dropped
  <2> QED BY <1>1, <1>3, <2>1, NumberedSubsequence DEF Dropped
<1>4. CASE Kept(d) /\ pushes'[d] = pushes[d]
  BY <1>1, <1>4 DEF Kept
<1>5. CASE Pushed(d)
  <2>1. PICK e \in Entry :
          /\ e.n = pushes[d] + 1 /\ pushes'[d] = pushes[d] + 1
          /\ Chan(d)' = Append(Chan(d), e)
          /\ delivered'[d] = delivered[d]
    BY <1>5 DEF Pushed
  <2>2. delivered[d] \o Append(Chan(d), e) = Append(delivered[d] \o Chan(d), e)
    BY <1>2, <2>1, EntriesAppend
  <2>3. delivered[d] \o Chan(d) \in Seq(Entry)
    BY <1>2
  <2>4. Numbered(Append(delivered[d] \o Chan(d), e), pushes[d] + 1)
    BY <1>1, <2>1, <2>3, NumberedAppend
  <2> QED BY <2>1, <2>2, <2>4
<1>6. CASE Taken(d) /\ pushes'[d] = pushes[d]
  <2>1. Append(delivered[d], Head(Chan(d))) \o Tail(Chan(d)) = delivered[d] \o Chan(d)
    BY <1>2, <1>6 DEF Taken
  <2> QED BY <1>1, <1>6, <2>1 DEF Taken
<1> QED BY <1>3, <1>4, <1>5, <1>6, LineStep

\* The connection between devices and the requests they wait for, and the order
\* of the entries on every line, hold whatever is cut, lost or sent again.
THEOREM OrderInvariance == Spec => [](CInv /\ Ordered)
<1>1. Init => CInv /\ Ordered
  BY CarriedInit, OrderedInit
<1>2. (CInv /\ Ordered) /\ [Next]_vars => (CInv /\ Ordered)'
  BY CarriedStep, OrderedStep
<1> QED BY <1>1, <1>2, PTL DEF Spec

\* A device gets commands in the order in which they were pushed on its list,
\* none twice: LPUSH and RPOP of message_manager.go, with an answer that only
\* reaches the device that waits for it.
THEOREM OrderIsKept == Spec => []InOrder
<1>1. CInv /\ Ordered => InOrder
  <2> SUFFICES ASSUME CInv, Ordered, NEW d \in Device
               PROVE  LET all == delivered[d] \o InFlight(d) \o queue[d] IN
                      \A i, j \in DOMAIN all : i < j => all[i].n < all[j].n
    BY DEF InOrder
  <2>1. /\ delivered[d] \in Seq(Entry) /\ InFlight(d) \in Seq(Entry) /\ queue[d] \in Seq(Entry)
    BY ChanType DEF CInv, IInv
  <2>2. delivered[d] \o InFlight(d) \o queue[d] = delivered[d] \o Chan(d)
    BY <2>1, EntriesConcat DEF Chan
  <2> QED BY <2>2 DEF Ordered, Numbered
<1> QED BY <1>1, OrderInvariance, PTL

-----------------------------------------------------------------------------
(* The refinement.                                                          *)

\* The line of every device, as the abstract channel sees it.
Lines == [d \in Device |-> Chan(d)]

\* Nothing is on its way at the start.
LEMMA RefinesInit == Init => Fifo!Init
<1> SUFFICES ASSUME Init PROVE Fifo!Init
  OBVIOUS
<1>1. \A d \in Device : Chan(d) = <<>>
  <2>1. \A d \in Device : InFlight(d) = <<>> /\ queue[d] = <<>>
    BY DEF Init, InFlight
  <2>2. <<>> \o <<>> = <<>>
    OBVIOUS
  <2> QED BY <2>1, <2>2 DEF Chan
<1>2. delivered = [d \in Device |-> <<>>]
  BY DEF Init
<1> QED BY <1>1, <1>2 DEF Fifo!Init, Chan

\* Every step of the system is a step of the lossy FIFO or none.
LEMMA RefinesStep ==
  CInv /\ [Next]_vars => [Fifo!Next]_<<[d \in Device |-> InFlight(d) \o queue[d]], delivered>>
<1> SUFFICES ASSUME CInv, [Next]_vars PROVE Fifo!Next
  OBVIOUS
<1>1. /\ \A k \in Device : Chan(k) \in Seq(Entry) /\ delivered[k] \in Seq(Entry)
      /\ delivered \in [Device -> Seq(Entry)] /\ delivered' \in [Device -> Seq(Entry)]
  <2>1. TypeOK /\ TypeOK'
    BY CarriedStep DEF CInv, IInv
  <2> QED BY <2>1, ChanType DEF TypeOK
<1>2. CASE \A k \in Device : Dropped(k)
  <2>1. delivered' = delivered
    BY <1>1, <1>2 DEF Dropped
  <2>2. Fifo!Lose
    BY <1>2, <2>1 DEF Fifo!Lose, Dropped, Chan
  <2> QED BY <2>2 DEF Fifo!Next
<1>3. ASSUME NEW d \in Device, Pushed(d), \A k \in Device \ {d} : Kept(k)
      PROVE  Fifo!Put(d)
  <2>1. PICK e \in Entry : Chan(d)' = Append(Chan(d), e) /\ delivered'[d] = delivered[d]
    BY <1>3 DEF Pushed
  <2>2. delivered' = delivered
    BY <1>1, <1>3, <2>1 DEF Kept
  <2>3. Lines' = [Lines EXCEPT ![d] = Append(Chan(d), e)]
    BY <1>3, <2>1 DEF Lines, Kept
  <2>4. Lines'[d] = Append(Chan(d), e) /\ Lines[d] = Chan(d)
    BY <2>3 DEF Lines
  <2>5. Len(Lines'[d]) = Len(Lines[d]) + 1 /\ Lines'[d][Len(Lines[d]) + 1] = e
    BY <1>1, <2>4
  <2> QED BY <2>2, <2>3, <2>4, <2>5 DEF Fifo!Put, Lines, Chan
<1>4. ASSUME NEW d \in Device, Taken(d), \A k \in Device \ {d} : Kept(k)
      PROVE  Fifo!Take(d)
  <2>1. delivered' = [delivered EXCEPT ![d] = Append(@, Head(Chan(d)))]
    BY <1>1, <1>4 DEF Kept, Taken
  <2>2. Lines' = [Lines EXCEPT ![d] = Tail(@)]
    BY <1>4 DEF Lines, Kept, Taken
  <2> QED BY <1>4, <2>1, <2>2 DEF Fifo!Take, Lines, Chan, Taken
<1> QED BY <1>2, <1>3, <1>4, LineStep DEF Fifo!Next

\* The command channel is a lossy FIFO: whatever handlers, cut sessions, lost
\* acknowledgements, expiring keys and crashes do, a device receives entries of
\* its list in the order of their LPUSHes, and none twice.
THEOREM ChannelIsLossyFifo == Spec => ImplementsLossyFifo
<1>1. Spec => []CInv
  BY OrderInvariance, PTL
<1> QED BY <1>1, RefinesInit, RefinesStep, PTL DEF Spec, ImplementsLossyFifo, Fifo!Spec

=============================================================================
