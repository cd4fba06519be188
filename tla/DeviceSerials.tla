---------------------------- MODULE DeviceSerials ----------------------------
(***************************************************************************)
(* How many live rows one serial number can have.  Nothing in the database *)
(* keeps two: whoever makes a row has looked before whether there is one,  *)
(* or has not looked at all.  This module runs DeviceRegistry with a       *)
(* history of the looks that could not be relied on.                       *)
(***************************************************************************)
EXTENDS DeviceRegistry

VARIABLE
  unsure  \* for each serial number, how often a row was made, or decided on, in doubt

serialVars == <<vars, unsure>>

-----------------------------------------------------------------------------

\* Somebody has looked for serial number s and may still write a row of it.
InProgress(s) ==
  \/ \E t \in Task : task[t].sn = s
  \/ edit # None /\ edit.row.sn = s
  \/ \E m \in Importer : import[m].pc = "rows" /\ s \in DOMAIN import[m].todo

Taken(s) == LiveOf(s) # {} \/ InProgress(s)

\* This step decides to make a live row of serial number s though there is one, or
\* though somebody else may yet write one: an Inform or an import that looks and
\* finds none, an import whose query failed, a POST or a PUT that does not look.
Doubt(s) ==
  /\ Taken(s)
  /\ \/ \E t \in Task : Inform(t, s) /\ LiveOf(s) = {}
     \/ \E m \in Importer :
          /\ ImportRead(m)
          /\ s \in DOMAIN import[m].todo /\ import[m].todo[s] = "add"
          /\ import'[m].seen[s] = None
     \/ OperatorCreate(s)
     \/ \E i \in Id, body \in Row :
          OperatorPut(i, body) /\ body.sn = s /\ ~body.deleted /\ i \notin LiveOf(s)

\* Nobody is about to write a row of s, and it has one at most.
Settled(s) == ~InProgress(s) /\ Cardinality(LiveOf(s)) <= 1

\* The count starts again whenever a serial number is settled.  There are at
\* most MaxRow rows, so that it need not go on from MaxRow - 1.
CountDoubts ==
  unsure' = [s \in Sn |->
    IF Settled(s)' THEN 0
    ELSE IF unsure[s] + 1 < MaxRow /\ Doubt(s) THEN unsure[s] + 1
    ELSE unsure[s]]

SerialInit == Init /\ unsure = [s \in Sn |-> 0]
SerialNext == Next /\ CountDoubts
SerialSpec == SerialInit /\ [][SerialNext]_serialVars

-----------------------------------------------------------------------------
(* Properties *)

\* A serial number has one live row, and one more at most for every row that was
\* made, or decided on, in doubt since it last had one: an Inform that no other
\* request of the device overlaps never adds a second, and neither the save of a
\* stale row nor an import that modifies one brings back more than were in doubt.
UniqueSerial == \A s \in Sn : Cardinality(LiveOf(s)) <= 1 + unsure[s]

=============================================================================
