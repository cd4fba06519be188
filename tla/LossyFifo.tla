------------------------------ MODULE LossyFifo ------------------------------
(***************************************************************************)
(* What a device may rely on of the command channel: entries reach it in   *)
(* the order they were put, each entry at most once, and any entry may be  *)
(* lost on the way.                                                        *)
(***************************************************************************)
EXTENDS Naturals, Sequences

CONSTANTS Device, Entry

VARIABLES
  chan,   \* entries on the way to each device, oldest first
  got     \* entries each device received, in order

Init ==
  /\ chan = [d \in Device |-> <<>>]
  /\ got = [d \in Device |-> <<>>]

\* The entry put is read off the new channel, so that TLC need not enumerate
\* the entries there are.
Put(d) ==
  LET k == Len(chan[d]) + 1 IN
  /\ Len(chan'[d]) = k
  /\ chan'[d][k] \in Entry
  /\ chan' = [chan EXCEPT ![d] = Append(@, chan'[d][k])]
  /\ UNCHANGED got

Take(d) ==
  /\ chan[d] # <<>>
  /\ chan' = [chan EXCEPT ![d] = Tail(@)]
  /\ got' = [got EXCEPT ![d] = Append(@, Head(chan[d]))]

\* s is what is left of t when some of its elements are dropped.
IsSubsequence(s, t) ==
  \E f \in [DOMAIN s -> DOMAIN t] :
    /\ \A i, j \in DOMAIN s : i < j => f[i] < f[j]
    /\ \A i \in DOMAIN s : s[i] = t[f[i]]

Lose ==
  /\ chan' = [d \in Device |-> chan'[d]]
  /\ \A d \in Device : IsSubsequence(chan'[d], chan[d])
  /\ UNCHANGED got

Next == Lose \/ \E d \in Device : Put(d) \/ Take(d)

Spec == Init /\ [][Next]_<<chan, got>>

=============================================================================
