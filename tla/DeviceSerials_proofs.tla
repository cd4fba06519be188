------------------------- MODULE DeviceSerials_proofs -------------------------
(***************************************************************************)
(* How many live rows a serial number can have, for every set of devices,  *)
(* handlers and imports, for all that operators may do and for any faults. *)
(***************************************************************************)
EXTENDS DeviceSerials, DeviceRegistry_proofs

-----------------------------------------------------------------------------
(* The inductive invariant *)

\* The rows of serial number s that are live, or that a save may make so.
Claimed(s) ==
  LiveOf(s) \cup
  {i \in Id :
     \/ \E t \in Task : task[t].pc = "save" /\ task[t].got.row.sn = s /\ task[t].got.id = i
     \/ edit # None /\ edit.row.sn = s /\ edit.id = i
     \/ \E m \in Importer :
          /\ import[m].pc = "rows" /\ s \in DOMAIN import[m].todo
          /\ import[m].seen[s] # None /\ import[m].seen[s].id = i}

\* The handlers and the imports that may insert one.
Makers(s) == {t \in Task : task[t].pc \in {"limit", "create"} /\ task[t].sn = s}
Adders(s) ==
  {m \in Importer :
     /\ import[m].pc = "rows" /\ s \in DOMAIN import[m].todo
     /\ import[m].todo[s] = "add" /\ import[m].seen[s] = None}

Total(s) == Cardinality(Claimed(s)) + Cardinality(Makers(s)) + Cardinality(Adders(s))

\* Whoever has a copy is at work on the serial number of the copy.
CopiesNamed ==
  /\ \A t \in Task : task[t].pc = "save" => task[t].got.row.sn = task[t].sn
  /\ \A m \in Importer, s \in Sn :
       import[m].seen[s] # None => import[m].pc = "rows" /\ import[m].seen[s].row.sn = s

Doubted == \A s \in Sn : unsure[s] + 1 < MaxRow => Total(s) <= 1 + unsure[s]

SerialInv == unsure \in [Sn -> 0..MaxRow] /\ CopiesNamed /\ Doubted

-----------------------------------------------------------------------------
(* Counting *)

LEMMA SerialFinite ==
  ASSUME RowsPart, NEW s \in Sn
  PROVE  /\ Claimed(s) \subseteq Id /\ IsFiniteSet(Claimed(s)) /\ Cardinality(Claimed(s)) \in Nat
         /\ IsFiniteSet(Makers(s)) /\ Cardinality(Makers(s)) \in Nat
         /\ IsFiniteSet(Adders(s)) /\ Cardinality(Adders(s)) \in Nat
<1>0. 1 \in Int /\ MaxRow \in Int /\ IsFiniteSet(Task) /\ IsFiniteSet(Importer)
  BY RegistryAssumption
<1>1. IsFiniteSet(Id) /\ IsFiniteSet(Task) /\ IsFiniteSet(Importer)
  BY <1>0, FS_Interval DEF Id
<1>2. Claimed(s) \subseteq Id
  BY RowFacts DEF Claimed, LiveOf, Live
<1>3. Makers(s) \subseteq Task /\ Adders(s) \subseteq Importer
  BY DEF Makers, Adders
<1> QED BY <1>1, <1>2, <1>3, FS_Subset, FS_CardinalityType

Counted ==
  \A s \in Sn : /\ Cardinality(Claimed(s)) \in Nat
               /\ Cardinality(Makers(s)) \in Nat
               /\ Cardinality(Adders(s)) \in Nat

LEMMA AllFinite == RowsPart => Counted
BY SerialFinite DEF Counted

\* Nobody at work on s: only its live rows count.
OnlyWorkers ==
  \A s \in Sn : ~InProgress(s) => Claimed(s) = LiveOf(s) /\ Makers(s) = {} /\ Adders(s) = {}

LEMMA NobodyAtWork == CopiesNamed => OnlyWorkers
<1> SUFFICES ASSUME CopiesNamed, NEW s \in Sn, ~InProgress(s)
             PROVE  Claimed(s) = LiveOf(s) /\ Makers(s) = {} /\ Adders(s) = {}
  BY DEF OnlyWorkers
<1> QED BY DEF CopiesNamed, InProgress, Claimed, Makers, Adders

\* One more element, and one less.
LEMMA SetGrows ==
  ASSUME NEW S, NEW T, NEW x, IsFiniteSet(S), T \subseteq S \cup {x}
  PROVE  Cardinality(T) <= Cardinality(S) + 1 /\ Cardinality(T) \in Nat
<1>1. IsFiniteSet(S \cup {x}) /\ Cardinality(S \cup {x}) \in Nat /\ Cardinality(S) \in Nat
      /\ Cardinality(S \cup {x}) <= Cardinality(S) + 1
  BY FS_AddElement, FS_CardinalityType
<1>2. Cardinality(T) <= Cardinality(S \cup {x}) /\ IsFiniteSet(T)
  BY <1>1, FS_Subset
<1> QED BY <1>1, <1>2, FS_CardinalityType

LEMMA SetStays ==
  ASSUME NEW S, NEW T, IsFiniteSet(S), T \subseteq S
  PROVE  Cardinality(T) <= Cardinality(S) /\ Cardinality(T) \in Nat /\ Cardinality(S) \in Nat
BY FS_Subset, FS_CardinalityType

LEMMA SetShrinks ==
  ASSUME NEW S, NEW T, NEW x \in S, IsFiniteSet(S), T \subseteq S \ {x}
  PROVE  Cardinality(T) <= Cardinality(S) - 1 /\ Cardinality(T) \in Nat
<1>1. IsFiniteSet(S \ {x}) /\ Cardinality(S \ {x}) = Cardinality(S) - 1
  BY FS_RemoveElement
<1> QED BY <1>1, FS_Subset, FS_CardinalityType

-----------------------------------------------------------------------------
(* What a step does to the count of s *)

Keeps(s) ==
  Claimed(s)' \subseteq Claimed(s) /\ Makers(s)' \subseteq Makers(s) /\ Adders(s)' \subseteq Adders(s)

\* A handler or an import that was counted has made its row.
Makes(s) ==
  \E i : /\ Claimed(s)' \subseteq Claimed(s) \cup {i}
         /\ \/ \E t \in Makers(s) : Makers(s)' \subseteq Makers(s) \ {t}
                                    /\ Adders(s)' \subseteq Adders(s)
            \/ \E m \in Adders(s) : Adders(s)' \subseteq Adders(s) \ {m}
                                    /\ Makers(s)' \subseteq Makers(s)

\* Somebody new is counted.
Enters(s) ==
  \E i : \/ Claimed(s)' \subseteq Claimed(s) \cup {i}
            /\ Makers(s)' \subseteq Makers(s) /\ Adders(s)' \subseteq Adders(s)
         \/ Makers(s)' \subseteq Makers(s) \cup {i}
            /\ Claimed(s)' \subseteq Claimed(s) /\ Adders(s)' \subseteq Adders(s)
         \/ Adders(s)' \subseteq Adders(s) \cup {i}
            /\ Claimed(s)' \subseteq Claimed(s) /\ Makers(s)' \subseteq Makers(s)

Accountable(s) ==
  \/ Keeps(s)
  \/ Makes(s)
  \/ Enters(s) /\ (Taken(s) => Doubt(s))

LEMMA TotalOfStep ==
  ASSUME RowsPart, RowsPart', NEW s \in Sn
  PROVE  /\ Keeps(s) \/ Makes(s) => Total(s)' <= Total(s)
         /\ Enters(s) => Total(s)' <= Total(s) + 1
         /\ Total(s) \in Nat /\ Total(s)' \in Nat
<1>1. /\ IsFiniteSet(Claimed(s)) /\ Cardinality(Claimed(s)) \in Nat
      /\ IsFiniteSet(Makers(s)) /\ Cardinality(Makers(s)) \in Nat
      /\ IsFiniteSet(Adders(s)) /\ Cardinality(Adders(s)) \in Nat
  BY SerialFinite
<1>2. /\ Cardinality(Claimed(s)') \in Nat /\ Cardinality(Makers(s)') \in Nat
      /\ Cardinality(Adders(s)') \in Nat
  <2>1. Counted'
    BY AllFinite, PTL
  <2> QED BY <2>1 DEF Counted
<1> DEFINE c == Cardinality(Claimed(s))
           k == Cardinality(Makers(s))
           a == Cardinality(Adders(s))
           d == Cardinality(Claimed(s)')
           l == Cardinality(Makers(s)')
           b == Cardinality(Adders(s)')
<1>3. Total(s) = c + k + a /\ Total(s)' = d + l + b
  BY DEF Total
<1>4. Claimed(s)' \subseteq Claimed(s) => d <= c
  BY <1>1, SetStays
<1>5. Makers(s)' \subseteq Makers(s) => l <= k
  BY <1>1, SetStays
<1>6. Adders(s)' \subseteq Adders(s) => b <= a
  BY <1>1, SetStays
<1>7. \A i : Claimed(s)' \subseteq Claimed(s) \cup {i} => d <= c + 1
  BY <1>1, SetGrows
<1>8. \A i : Makers(s)' \subseteq Makers(s) \cup {i} => l <= k + 1
  BY <1>1, SetGrows
<1>9. \A i : Adders(s)' \subseteq Adders(s) \cup {i} => b <= a + 1
  BY <1>1, SetGrows
<1>10. \A t \in Makers(s) : Makers(s)' \subseteq Makers(s) \ {t} => l <= k - 1
  BY <1>1, SetShrinks
<1>11. \A m \in Adders(s) : Adders(s)' \subseteq Adders(s) \ {m} => b <= a - 1
  BY <1>1, SetShrinks
<1>12. c \in Nat /\ k \in Nat /\ a \in Nat /\ d \in Nat /\ l \in Nat /\ b \in Nat
  BY <1>1, <1>2
<1> HIDE DEF c, k, a, d, l, b
<1>13. Keeps(s) => d <= c /\ l <= k /\ b <= a
  BY <1>4, <1>5, <1>6 DEF Keeps
<1>14. Makes(s) => d <= c + 1 /\ ((l <= k - 1 /\ b <= a) \/ (l <= k /\ b <= a - 1))
  BY <1>5, <1>6, <1>7, <1>10, <1>11 DEF Makes
<1>15. Enters(s) => \/ d <= c + 1 /\ l <= k /\ b <= a
                    \/ d <= c /\ l <= k + 1 /\ b <= a
                    \/ d <= c /\ l <= k /\ b <= a + 1
  BY <1>4, <1>5, <1>6, <1>7, <1>8, <1>9 DEF Enters
<1> QED BY <1>3, <1>12, <1>13, <1>14, <1>15

-----------------------------------------------------------------------------
(* Writes of the table *)

LEMMA LastIsLive ==
  ASSUME RowsPart, NEW s \in Sn, LiveOf(s) # {}
  PROVE  Last(s) \in LiveOf(s)
<1>1. LiveOf(s) \in SUBSET (1..Len(rows)) /\ Len(rows) \in Nat
  BY RowFacts DEF LiveOf, Live
<1>2. \E i \in LiveOf(s) : \A j \in LiveOf(s) : j <= i
  BY <1>1, GreatestExists
<1> QED BY <1>2 DEF Last

\* One row i is written or inserted.
LEMMA LiveWritten ==
  ASSUME RowsPart, NEW s, NEW i, NEW r,
         \/ rows' = [rows EXCEPT ![i] = r]
         \/ i = Len(rows) + 1 /\ rows' = Append(rows, r)
  PROVE  /\ LiveOf(s)' \subseteq LiveOf(s) \cup {i}
         /\ r.sn # s \/ r.deleted => LiveOf(s)' \subseteq LiveOf(s)
<1>1. DOMAIN rows = 1..Len(rows) /\ Len(rows) \in Nat /\ rows \in Seq(Row)
  BY RowFacts DEF RowsPart
<1>2. /\ DOMAIN rows' \subseteq DOMAIN rows \cup {i}
      /\ \A j \in DOMAIN rows' : rows'[j] = IF j = i THEN r ELSE rows[j]
  <2>1. CASE rows' = [rows EXCEPT ![i] = r]
    BY <2>1
  <2>2. CASE i = Len(rows) + 1 /\ rows' = Append(rows, r)
    <3>1. DOMAIN rows' = 1..(Len(rows) + 1)
      BY <1>1, <2>2
    <3>2. \A j \in 1..(Len(rows) + 1) : rows'[j] = IF j = i THEN r ELSE rows[j]
      BY <1>1, <2>2
    <3> QED BY <1>1, <2>2, <3>1, <3>2
  <2> QED BY <2>1, <2>2
<1> QED BY <1>2 DEF LiveOf, Live

\* A row is deleted.
LEMMA LiveDeleted ==
  ASSUME RowsPart, NEW s, NEW i \in DOMAIN rows, rows' = [rows EXCEPT ![i].deleted = TRUE]
  PROVE  LiveOf(s)' \subseteq LiveOf(s)
<1> DEFINE r == [rows[i] EXCEPT !.deleted = TRUE]
<1>1. rows[i] \in Row
  BY RowFacts
<1>2. r.deleted /\ rows' = [rows EXCEPT ![i] = r]
  BY <1>1 DEF Row
<1> HIDE DEF r
<1> QED BY <1>2, LiveWritten

LEMMA LiveQuiet ==
  ASSUME RowsQuiet, NEW s
  PROVE  LiveOf(s)' = LiveOf(s)
BY DEF RowsQuiet, LiveOf, Live

-----------------------------------------------------------------------------
(* Steps that let nobody new in *)

\* The imports go on with what they had of s, or end.
ImportsNarrow(s) ==
  \A m \in Importer :
    import'[m].pc = "rows" /\ s \in DOMAIN import'[m].todo =>
      /\ import[m].pc = "rows" /\ s \in DOMAIN import[m].todo
      /\ import'[m].todo[s] = import[m].todo[s]
      /\ import'[m].seen[s] = import[m].seen[s]

LEMMA Narrows ==
  ASSUME NEW s \in Sn, NEW X,
         \A u \in Task : Stays(u) \/ Leaves(u) \/ Passes(u),
         edit' \in {edit, None}, ImportsNarrow(s),
         LiveOf(s)' \subseteq Claimed(s) \cup X
  PROVE  /\ Claimed(s)' \subseteq Claimed(s) \cup X
         /\ Makers(s)' \subseteq Makers(s)
         /\ Adders(s)' \subseteq Adders(s)
<1>1. \A u \in Task : task'[u].pc = "save" => task'[u] = task[u]
  BY DEF Stays, Leaves, Passes, Working
<1>2. \A u \in Task : task'[u].pc \in {"limit", "create"} =>
        task[u].pc \in {"limit", "create"} /\ task'[u].sn = task[u].sn
  BY DEF Stays, Leaves, Passes, Working
<1>3. Makers(s)' \subseteq Makers(s)
  BY <1>2 DEF Makers
<1>4. Adders(s)' \subseteq Adders(s)
  BY DEF Adders, ImportsNarrow
<1>5. ASSUME NEW i \in Claimed(s)'
      PROVE  i \in Claimed(s) \cup X
  <2>1. CASE i \in LiveOf(s)'
    BY <2>1
  <2>2. CASE i \in Id /\ \E u \in Task :
               task'[u].pc = "save" /\ task'[u].got.row.sn = s /\ task'[u].got.id = i
    BY <1>1, <2>2 DEF Claimed
  <2>3. CASE i \in Id /\ edit' # None /\ edit'.row.sn = s /\ edit'.id = i
    BY <2>3 DEF Claimed
  <2>4. CASE i \in Id /\ \E m \in Importer :
               /\ import'[m].pc = "rows" /\ s \in DOMAIN import'[m].todo
               /\ import'[m].seen[s] # None /\ import'[m].seen[s].id = i
    BY <2>4 DEF Claimed, ImportsNarrow
  <2> QED BY <1>5, <2>1, <2>2, <2>3, <2>4 DEF Claimed
<1> QED BY <1>3, <1>4, <1>5

LEMMA KeepsNarrowly ==
  ASSUME NEW s \in Sn,
         \A u \in Task : Stays(u) \/ Leaves(u) \/ Passes(u),
         edit' \in {edit, None}, ImportsNarrow(s), LiveOf(s)' \subseteq Claimed(s)
  PROVE  Keeps(s)
<1>1. LiveOf(s)' \subseteq Claimed(s) \cup {}
  OBVIOUS
<1>2. Claimed(s)' \subseteq Claimed(s) \cup {}
      /\ Makers(s)' \subseteq Makers(s) /\ Adders(s)' \subseteq Adders(s)
  BY <1>1, Narrows
<1> QED BY <1>2 DEF Keeps

LEMMA LiveIsClaimed == ASSUME NEW s PROVE LiveOf(s) \subseteq Claimed(s)
BY DEF Claimed

-----------------------------------------------------------------------------
(* Handlers *)

LEMMA HandlerAccounts ==
  ASSUME IInv, CopiesNamed, NEW t \in Task, Step(t), NEW s \in Sn
  PROVE  Accountable(s)
<1>1. (Leaves(t) \/ Passes(t)) /\ \A u \in Task \ {t} : Stays(u)
  BY TasksOfStep DEF Next, DeviceNext
<1>2. edit' \in {edit, None} /\ ImportsNarrow(s) /\ (SavesRow(t) \/ MakesRow(t) \/ RowsQuiet)
  BY RowsOfHandler DEF ImportsNarrow
<1>3. \A u \in Task : Stays(u) \/ Leaves(u) \/ Passes(u)
  BY <1>1
<1>4. CASE RowsQuiet
  BY <1>2, <1>3, <1>4, LiveQuiet, LiveIsClaimed, KeepsNarrowly DEF Accountable
<1>5. CASE SavesRow(t)
  <2> DEFINE c == task[t].got
  <2>1. task[t].pc = "save" /\ c.id \in Id /\ rows' = [rows EXCEPT ![c.id] = c.row]
    BY <1>5, SavedRows, RowFacts DEF SavesRow, Save, IInv
  <2>2. c.row.sn = s => c.id \in Claimed(s)
    BY <2>1 DEF Claimed
  <2> HIDE DEF c
  <2>3. LiveOf(s)' \subseteq Claimed(s)
    <3>1. RowsPart
      BY DEF IInv
    <3>2. /\ LiveOf(s)' \subseteq LiveOf(s) \cup {c.id}
          /\ c.row.sn # s => LiveOf(s)' \subseteq LiveOf(s)
      BY <2>1, <3>1, LiveWritten
    <3> QED BY <2>2, <3>2, LiveIsClaimed
  <2> QED BY <1>2, <1>3, <2>3, KeepsNarrowly DEF Accountable
<1>6. CASE MakesRow(t)
  <2> DEFINE i == Len(rows) + 1
             r == NewRow(task[t].sn)
  <2>1. task[t].pc = "create" /\ r.sn = task[t].sn /\ rows' = Append(rows, r)
    BY <1>6 DEF MakesRow, CreateDevice, Create, NewRow
  <2> HIDE DEF r
  <2>2. /\ LiveOf(s)' \subseteq LiveOf(s) \cup {i}
        /\ r.sn # s => LiveOf(s)' \subseteq LiveOf(s)
    BY <2>1, LiveWritten DEF IInv
  <2> HIDE DEF i
  <2>3. CASE task[t].sn # s
    BY <1>2, <1>3, <2>1, <2>2, <2>3, LiveIsClaimed, KeepsNarrowly DEF Accountable
  <2>4. CASE task[t].sn = s
    <3>1. /\ Claimed(s)' \subseteq Claimed(s) \cup {i}
          /\ Makers(s)' \subseteq Makers(s) /\ Adders(s)' \subseteq Adders(s)
      BY <1>2, <1>3, <2>2, LiveIsClaimed, Narrows
    <3>2. t \in Makers(s) /\ t \notin Makers(s)'
      <4>1. Leaves(t)
        BY <1>6, TasksOfStep DEF Next, DeviceNext
      <4> QED BY <2>1, <2>4, <4>1 DEF Makers, Leaves, Working
    <3>3. Makes(s)
      BY <3>1, <3>2 DEF Makes
    <3> QED BY <3>3 DEF Accountable
  <2> QED BY <2>3, <2>4
<1> QED BY <1>2, <1>4, <1>5, <1>6

LEMMA InformAccounts ==
  ASSUME IInv, CopiesNamed, NEW t \in Task, NEW r \in Sn, Inform(t, r), NEW s \in Sn
  PROVE  Accountable(s)
<1>1. UNCHANGED <<rows, edit, import>> /\ task[t].pc = "idle" /\ task \in [Task -> TaskState]
  BY DEF Inform, importVars, IInv, TaskPart
<1>2. LiveOf(s)' = LiveOf(s)
  BY <1>1 DEF LiveOf, Live
<1>3. CASE LiveOf(r) = {} /\ task' = [task EXCEPT ![t] = [pc |-> "limit", sn |-> r, got |-> None]]
  <2> DEFINE n == [pc |-> "limit", sn |-> r, got |-> None]
  <2>1. n.pc = "limit" /\ n.sn = r
    OBVIOUS
  <2>2. \A u \in Task : task'[u] = IF u = t THEN n ELSE task[u]
    BY <1>1, <1>3
  <2> HIDE DEF n
  <2>3. Claimed(s)' \subseteq Claimed(s) /\ Adders(s)' \subseteq Adders(s)
    BY <1>1, <1>2, <2>1, <2>2 DEF Claimed, Adders
  <2>4. CASE r # s
    <3>1. Makers(s)' \subseteq Makers(s)
      BY <2>1, <2>2, <2>4 DEF Makers
    <3> QED BY <2>3, <3>1 DEF Keeps, Accountable
  <2>5. CASE r = s
    <3>1. Makers(s)' \subseteq Makers(s) \cup {t}
      BY <2>2 DEF Makers
    <3>2. Enters(s)
      BY <2>3, <3>1 DEF Enters
    <3>3. Taken(s) => Doubt(s)
      BY <1>3, <2>5 DEF Doubt
    <3> QED BY <3>2, <3>3 DEF Accountable
  <2> QED BY <2>4, <2>5
<1>4. CASE LiveOf(r) # {}
           /\ task' = [task EXCEPT ![t] = [pc |-> "save", sn |-> r, got |-> CopyOf(First(r))]]
  <2> DEFINE n == [pc |-> "save", sn |-> r, got |-> CopyOf(First(r))]
  <2>1. First(r) \in LiveOf(r)
    BY <1>4, FirstIsLive DEF IInv
  <2>2. n.pc = "save" /\ n.got.id = First(r) /\ n.got.row.sn = r
    BY <2>1 DEF CopyOf, LiveOf
  <2>3. \A u \in Task : task'[u] = IF u = t THEN n ELSE task[u]
    BY <1>1, <1>4
  <2> HIDE DEF n
  <2>4. n.got.row.sn = s => n.got.id \in Claimed(s)
    BY <2>1, <2>2, LiveIsClaimed
  <2>5. Claimed(s)' \subseteq Claimed(s)
    BY <1>1, <1>2, <2>3, <2>4 DEF Claimed
  <2>6. Makers(s)' \subseteq Makers(s) /\ Adders(s)' \subseteq Adders(s)
    BY <1>1, <2>2, <2>3 DEF Makers, Adders
  <2> QED BY <2>5, <2>6 DEF Keeps, Accountable
<1> QED BY <1>3, <1>4 DEF Inform

-----------------------------------------------------------------------------
(* Operators *)

LEMMA OperatorAccounts ==
  ASSUME IInv, CopiesNamed, NEW s \in Sn,
         \/ \E r \in Sn : OperatorCreate(r)
         \/ \E i \in Id : OperatorRead(i) \/ OperatorDelete(i)
         \/ OperatorSave
         \/ \E i \in Id, body \in Row : OperatorPut(i, body)
  PROVE  Accountable(s)
<1>1. UNCHANGED <<task, import>> /\ RowsPart
  BY DEF OperatorCreate, OperatorRead, OperatorDelete, OperatorSave, OperatorPut, importVars, IInv
<1>2. (\A u \in Task : Stays(u) \/ Leaves(u) \/ Passes(u)) /\ ImportsNarrow(s)
  BY <1>1 DEF Stays, ImportsNarrow
<1>3. ASSUME UNCHANGED edit, NEW i, LiveOf(s)' \subseteq LiveOf(s) \cup {i}, Taken(s) => Doubt(s)
      PROVE  Accountable(s)
  <2>1. /\ Claimed(s)' \subseteq Claimed(s) \cup {i}
        /\ Makers(s)' \subseteq Makers(s) /\ Adders(s)' \subseteq Adders(s)
    BY <1>2, <1>3, LiveIsClaimed, Narrows
  <2> QED BY <1>3, <2>1 DEF Enters, Accountable
<1>4. ASSUME edit' \in {edit, None}, LiveOf(s)' \subseteq Claimed(s)
      PROVE  Accountable(s)
  BY <1>2, <1>4, KeepsNarrowly DEF Accountable
<1>5. ASSUME NEW r \in Sn, OperatorCreate(r)
      PROVE  Accountable(s)
  <2>1. UNCHANGED edit /\ rows' = Append(rows, NewRow(r)) /\ NewRow(r).sn = r
    BY <1>5 DEF OperatorCreate, Create, NewRow
  <2> DEFINE i == Len(rows) + 1
  <2>2. /\ LiveOf(s)' \subseteq LiveOf(s) \cup {i}
        /\ NewRow(r).sn # s => LiveOf(s)' \subseteq LiveOf(s)
    BY <1>1, <2>1, LiveWritten
  <2> HIDE DEF i
  <2>3. r = s => (Taken(s) => Doubt(s))
    BY <1>5 DEF Doubt
  <2> QED BY <1>3, <1>4, <2>1, <2>2, <2>3, LiveIsClaimed
<1>6. ASSUME NEW i \in Id, OperatorRead(i)
      PROVE  Accountable(s)
  <2>1. i \in Live /\ edit' = [id |-> i, row |-> rows[i]] /\ UNCHANGED rows
    BY <1>6 DEF OperatorRead, CopyOf
  <2>2. edit'.id = i /\ edit'.row = rows[i]
    BY <2>1
  <2>3. edit'.row.sn = s => edit'.id \in LiveOf(s)
    BY <2>1, <2>2 DEF LiveOf
  <2>4. LiveOf(s)' = LiveOf(s)
    BY <2>1 DEF LiveOf, Live
  <2>5. Claimed(s)' \subseteq Claimed(s)
    BY <1>1, <2>3, <2>4 DEF Claimed
  <2>6. Makers(s)' = Makers(s) /\ Adders(s)' = Adders(s)
    BY <1>1 DEF Makers, Adders
  <2> QED BY <2>5, <2>6 DEF Keeps, Accountable
<1>7. ASSUME NEW i \in Id, OperatorDelete(i)
      PROVE  Accountable(s)
  <2>1. i \in DOMAIN rows /\ UNCHANGED edit /\ rows' = [rows EXCEPT ![i].deleted = TRUE]
    BY <1>7 DEF OperatorDelete, Live
  <2> QED BY <1>1, <1>4, <2>1, LiveDeleted, LiveIsClaimed
<1>8. CASE OperatorSave
  <2>1. edit' = None /\ edit # None /\ Held(edit)
    BY <1>8 DEF OperatorSave, IInv, EditPart, EditInHand
  <2>2. edit.id \in Id
    BY <2>1 DEF Held, Copy
  <2>3. CASE Save(edit)
    <3>1. edit.row.sn = s => edit.id \in Claimed(s)
      BY <2>1, <2>2 DEF Claimed
    <3>2. /\ LiveOf(s)' \subseteq LiveOf(s) \cup {edit.id}
          /\ edit.row.sn # s => LiveOf(s)' \subseteq LiveOf(s)
      BY <1>1, <2>3, LiveWritten DEF Save
    <3> QED BY <1>4, <2>1, <3>1, <3>2, LiveIsClaimed
  <2>4. CASE UNCHANGED rows
    <3>1. LiveOf(s)' = LiveOf(s)
      BY <2>4 DEF LiveOf, Live
    <3> QED BY <1>4, <2>1, <3>1, LiveIsClaimed
  <2> QED BY <1>8, <2>3, <2>4 DEF OperatorSave
<1>9. ASSUME NEW i \in Id, NEW body \in Row, OperatorPut(i, body)
      PROVE  Accountable(s)
  <2>1. UNCHANGED edit
    BY <1>9 DEF OperatorPut
  <2>2. /\ LiveOf(s)' \subseteq LiveOf(s) \cup {i}
        /\ body.sn # s \/ body.deleted => LiveOf(s)' \subseteq LiveOf(s)
    BY <1>1, <1>9, LiveWritten DEF OperatorPut
  <2>3. CASE LiveOf(s)' \subseteq LiveOf(s)
    BY <1>4, <2>1, <2>3, LiveIsClaimed
  <2>4. CASE ~(LiveOf(s)' \subseteq LiveOf(s))
    <3>1. body.sn = s /\ ~body.deleted /\ i \notin LiveOf(s)
      BY <2>2, <2>4
    <3>2. Taken(s) => Doubt(s)
      BY <1>9, <3>1 DEF Doubt
    <3> QED BY <1>3, <2>1, <2>2, <3>2
  <2> QED BY <2>3, <2>4
<1> QED BY <1>5, <1>6, <1>7, <1>8, <1>9

-----------------------------------------------------------------------------
(* Imports *)

LEMMA ImportAccounts ==
  ASSUME IInv, CopiesNamed, NEW m \in Importer, ImportStep(m), NEW s \in Sn
  PROVE  Accountable(s)
<1>1. UNCHANGED <<task, edit>> /\ RowsPart
      /\ import \in [Importer -> ImportState] /\ import[m] \in ImportState
  BY DEF ImportStep, ImportLock, ImportRead, ImportEnd, ImportRow, IInv, ImportPart
<1>2. \A u \in Task : Stays(u) \/ Leaves(u) \/ Passes(u)
  BY <1>1 DEF Stays
<1>3. ASSUME LiveOf(s)' \subseteq Claimed(s), ImportsNarrow(s)
      PROVE  Accountable(s)
  BY <1>1, <1>2, <1>3, KeepsNarrowly DEF Accountable
<1>4. ASSUME NEW n, import' = [import EXCEPT ![m] = n]
      PROVE  \A k \in Importer : import'[k] = IF k = m THEN n ELSE import[k]
  BY <1>1, <1>4
<1>5. UNCHANGED rows => LiveOf(s)' \subseteq Claimed(s)
  <2>1. UNCHANGED rows => LiveOf(s)' = LiveOf(s)
    BY DEF LiveOf, Live
  <2> QED BY <2>1, LiveIsClaimed
<1>6. CASE ImportLock(m)
  <2>1. PICK todo : import' = [import EXCEPT ![m].pc = "read", ![m].todo = todo]
    BY <1>6 DEF ImportLock
  <2> DEFINE n == [import[m] EXCEPT !.pc = "read", !.todo = todo]
  <2>2. import' = [import EXCEPT ![m] = n] /\ n.pc = "read"
    BY <1>1, <2>1 DEF ImportState
  <2> HIDE DEF n
  <2>3. ImportsNarrow(s)
    BY <1>4, <2>2 DEF ImportsNarrow
  <2> QED BY <1>3, <1>5, <1>6, <2>3 DEF ImportLock
<1>7. CASE ImportEnd(m)
  <2>1. IdleImport.pc = "idle" /\ import' = [import EXCEPT ![m] = IdleImport]
    BY <1>7 DEF ImportEnd, IdleImport
  <2>2. ImportsNarrow(s)
    BY <1>4, <2>1 DEF ImportsNarrow
  <2> QED BY <1>3, <1>5, <1>7, <2>2 DEF ImportEnd
<1>8. CASE ImportRead(m)
  <2> DEFINE f == [r \in Sn |-> IF r \in DOMAIN import[m].todo /\ LiveOf(r) # {}
                                THEN CopyOf(Last(r)) ELSE None]
  <2>1. PICK g : /\ g = f \/ g = import[m].seen
                 /\ import' = [import EXCEPT ![m] = [import[m] EXCEPT !.pc = "rows", !.seen = g]]
    <3>1. CASE import' = [import EXCEPT ![m].pc = "rows", ![m].seen = f]
      <4>1. import' = [import EXCEPT ![m] = [import[m] EXCEPT !.pc = "rows", !.seen = f]]
        BY <3>1
      <4> HIDE DEF f
      <4> QED BY <4>1
    <3>2. CASE import' = [import EXCEPT ![m].pc = "rows"]
      <4>1. [import[m] EXCEPT !.pc = "rows"] = [import[m] EXCEPT !.pc = "rows", !.seen = import[m].seen]
        BY <1>1 DEF ImportState
      <4>2. import' = [import EXCEPT ![m] = [import[m] EXCEPT !.pc = "rows"]]
        BY <3>2
      <4> HIDE DEF f
      <4> QED BY <4>1, <4>2
    <3> QED BY <1>8, <3>1, <3>2 DEF ImportRead
  <2> DEFINE n == [import[m] EXCEPT !.pc = "rows", !.seen = g]
  <2>2. n.todo = import[m].todo /\ n.seen = g /\ import' = [import EXCEPT ![m] = n]
    BY <1>1, <2>1 DEF ImportState
  <2> HIDE DEF n
  <2>3. UNCHANGED rows /\ import[m].pc = "read" /\ LiveOf(s)' = LiveOf(s)
    BY <1>8 DEF ImportRead, LiveOf, Live
  <2>4. g[s] # None => g[s].id \in LiveOf(s)
    <3>1. g[s] # None => g[s] = CopyOf(Last(s)) /\ LiveOf(s) # {}
      <4>1. import[m].seen[s] = None
        BY <2>3 DEF CopiesNamed
      <4> QED BY <2>1, <4>1
    <3> QED BY <1>1, <3>1, LastIsLive DEF CopyOf
  <2> HIDE DEF f
  <2>5. \A k \in Importer : import'[k] = IF k = m THEN n ELSE import[k]
    BY <1>4, <2>2
  <2>6. Claimed(s)' \subseteq Claimed(s)
    BY <1>1, <2>2, <2>3, <2>4, <2>5 DEF Claimed
  <2>7. Makers(s)' = Makers(s)
    BY <1>1 DEF Makers
  <2>8. CASE s \in DOMAIN import[m].todo /\ import[m].todo[s] = "add" /\ g[s] = None
    <3>1. Adders(s)' \subseteq Adders(s) \cup {m}
      BY <2>5 DEF Adders
    <3>2. Enters(s)
      BY <2>6, <2>7, <3>1 DEF Enters
    <3>3. import'[m].seen[s] = None
      BY <2>2, <2>5, <2>8
    <3>4. Taken(s) => Doubt(s)
      BY <1>8, <2>8, <3>3 DEF Doubt
    <3> QED BY <3>2, <3>4 DEF Accountable
  <2>9. CASE ~(s \in DOMAIN import[m].todo /\ import[m].todo[s] = "add" /\ g[s] = None)
    <3>1. Adders(s)' \subseteq Adders(s)
      BY <2>2, <2>5, <2>9 DEF Adders
    <3> QED BY <2>6, <2>7, <3>1 DEF Keeps, Accountable
  <2> QED BY <2>8, <2>9
<1>9. ASSUME NEW r \in Sn, ImportRow(m, r)
      PROVE  Accountable(s)
  <2> DEFINE n == [import[m] EXCEPT !.todo = Remaining(import[m].todo, r)]
             c == import[m].seen[r]
             i == Len(rows) + 1
  <2>1. /\ n.pc = import[m].pc /\ n.seen = import[m].seen
        /\ n.todo = Remaining(import[m].todo, r)
        /\ import' = [import EXCEPT ![m] = n]
    BY <1>1, <1>9 DEF ImportRow, ImportState
  <2>2. /\ DOMAIN n.todo = DOMAIN import[m].todo \ {r}
        /\ \A q \in DOMAIN n.todo : n.todo[q] = import[m].todo[q]
    BY <2>1 DEF Remaining
  <2> HIDE DEF n
  <2>3. \A k \in Importer : import'[k] = IF k = m THEN n ELSE import[k]
    BY <1>4, <2>1
  <2>4. ImportsNarrow(s)
    BY <2>1, <2>2, <2>3 DEF ImportsNarrow
  <2>5. /\ import[m].pc = "rows" /\ r \in DOMAIN import[m].todo
        /\ \/ Create(r) /\ import[m].todo[r] = "add" /\ c = None
           \/ Save(c) /\ c # None
           \/ rows' = [rows EXCEPT ![c.id].deleted = TRUE] /\ c # None
           \/ UNCHANGED rows
    BY <1>9 DEF ImportRow
  <2>6. c # None => c.id \in Id /\ c.id \in DOMAIN rows /\ c.row.sn = r
    <3>1. c # None => Held(c)
      BY DEF IInv, ImportPart, ImportInHand
    <3> QED BY <3>1 DEF Held, Copy, CopiesNamed
  <2>7. c # None => c.id \in Claimed(r)
    BY <2>5, <2>6 DEF Claimed
  <2> HIDE DEF c
  <2>8. CASE UNCHANGED rows
    BY <1>3, <1>5, <2>4, <2>8
  <2>9. CASE rows' = [rows EXCEPT ![c.id].deleted = TRUE] /\ c # None
    BY <1>1, <1>3, <2>4, <2>6, <2>9, LiveDeleted, LiveIsClaimed
  <2>10. CASE Save(c) /\ c # None
    <3>1. /\ LiveOf(s)' \subseteq LiveOf(s) \cup {c.id}
          /\ c.row.sn # s => LiveOf(s)' \subseteq LiveOf(s)
      BY <1>1, <2>10, LiveWritten DEF Save
    <3> QED BY <1>3, <2>4, <2>6, <2>7, <2>10, <3>1, LiveIsClaimed
  <2>11. CASE Create(r) /\ import[m].todo[r] = "add" /\ c = None
    <3>1. rows' = Append(rows, NewRow(r)) /\ NewRow(r).sn = r
      BY <2>11 DEF Create, NewRow
    <3>2. /\ LiveOf(s)' \subseteq LiveOf(s) \cup {i}
          /\ NewRow(r).sn # s => LiveOf(s)' \subseteq LiveOf(s)
      BY <1>1, <3>1, LiveWritten
    <3> HIDE DEF i
    <3>3. CASE r # s
      BY <1>3, <2>4, <3>1, <3>2, <3>3, LiveIsClaimed
    <3>4. CASE r = s
      <4>1. /\ Claimed(s)' \subseteq Claimed(s) \cup {i}
            /\ Makers(s)' \subseteq Makers(s) /\ Adders(s)' \subseteq Adders(s)
        BY <1>1, <1>2, <2>4, <3>2, LiveIsClaimed, Narrows
      <4>2. m \in Adders(s)
        BY <2>5, <2>11, <3>4 DEF Adders, c
      <4>3. m \notin Adders(s)'
        BY <2>2, <2>3, <3>4 DEF Adders
      <4>4. Makes(s)
        BY <4>1, <4>2, <4>3 DEF Makes
      <4> QED BY <4>4 DEF Accountable
    <3> QED BY <3>3, <3>4
  <2> QED BY <2>5, <2>8, <2>9, <2>10, <2>11
<1> QED BY <1>6, <1>7, <1>8, <1>9 DEF ImportStep

-----------------------------------------------------------------------------
(* Every step *)

LEMMA StepAccounts ==
  ASSUME IInv, CopiesNamed, [Next]_vars, NEW s \in Sn
  PROVE  Accountable(s)
<1>1. CASE UNCHANGED <<rows, task, edit, import>>
  <2>1. (\A u \in Task : Stays(u)) /\ ImportsNarrow(s) /\ edit' = edit /\ LiveOf(s)' = LiveOf(s)
    BY <1>1 DEF Stays, ImportsNarrow, LiveOf, Live
  <2> QED BY <2>1, LiveIsClaimed, KeepsNarrowly DEF Accountable
<1>2. CASE Crash
  <2>1. \A u \in Task : Leaves(u)
    BY <1>2 DEF Crash, IdleTask, Leaves, Working
  <2>2. ImportsNarrow(s) /\ edit' = edit /\ LiveOf(s)' = LiveOf(s)
    BY <1>2 DEF Crash, IdleImport, ImportsNarrow, LiveOf, Live
  <2> QED BY <2>1, <2>2, LiveIsClaimed, KeepsNarrowly DEF Accountable
<1>3. CASE \/ \E i \in Id : OrphanLockExpires(i) \/ HeldLockExpires(i)
           \/ ImportLockExpires \/ UNCHANGED vars
  BY <1>1, <1>3 DEF OrphanLockExpires, HeldLockExpires, ImportLockExpires, importVars, vars
<1>4. CASE \E t \in Task : Step(t)
  BY <1>4, HandlerAccounts
<1>5. CASE \E t \in Task, r \in Sn : Inform(t, r)
  BY <1>5, InformAccounts
<1>6. CASE \/ \E r \in Sn : OperatorCreate(r)
           \/ \E i \in Id : OperatorRead(i) \/ OperatorDelete(i)
           \/ OperatorSave
           \/ \E i \in Id, body \in Row : OperatorPut(i, body)
  BY <1>6, OperatorAccounts
<1>7. CASE \E m \in Importer : ImportStep(m)
  BY <1>7, ImportAccounts
<1> QED BY <1>2, <1>3, <1>4, <1>5, <1>6, <1>7 DEF Next, DeviceNext

\* Copies keep their serial numbers, and are named for those that are read.
LEMMA NamedStep ==
  ASSUME IInv, CopiesNamed, [Next]_vars
  PROVE  CopiesNamed'
<1>1. \A u \in Task : task'[u].pc = "save" => task'[u].got.row.sn = task'[u].sn
  <2>1. CASE \A u \in Task : Stays(u) \/ Leaves(u)
    BY <2>1 DEF Stays, Leaves, Working, CopiesNamed
  <2>2. ASSUME NEW t \in Task, Passes(t), \A u \in Task \ {t} : Stays(u)
        PROVE  \A u \in Task : task'[u].pc = "save" => task'[u].got.row.sn = task'[u].sn
    BY <2>2 DEF Stays, Passes, CopiesNamed
  <2>3. ASSUME NEW t \in Task, Begins(t), \A u \in Task \ {t} : Stays(u)
        PROVE  \A u \in Task : task'[u].pc = "save" => task'[u].got.row.sn = task'[u].sn
    <3>1. ASSUME task'[t].pc = "save"
          PROVE  task'[t].got.row.sn = task'[t].sn
      <4>1. PICK s \in Sn : task'[t].sn = s /\ LiveOf(s) # {} /\ task'[t].got = CopyOf(First(s))
        BY <2>3, <3>1 DEF Begins
      <4>2. First(s) \in LiveOf(s)
        BY <4>1, FirstIsLive DEF IInv
      <4> QED BY <4>1, <4>2 DEF CopyOf, LiveOf
    <3> QED BY <2>3, <3>1 DEF Stays, CopiesNamed
  <2> QED BY <2>1, <2>2, <2>3, TasksOfStep
<1>2. ASSUME NEW k \in Importer, NEW s \in Sn, import'[k].seen[s] # None
      PROVE  import'[k].pc = "rows" /\ import'[k].seen[s].row.sn = s
  <2>0. import \in [Importer -> ImportState]
    BY DEF IInv, ImportPart
  <2>1. CASE UNCHANGED import
    BY <1>2, <2>1 DEF CopiesNamed
  <2>2. CASE Crash
    BY <1>2, <2>2 DEF Crash, IdleImport
  <2>3. ASSUME NEW m \in Importer, ImportLock(m)
        PROVE  import'[k].pc = "rows" /\ import'[k].seen[s].row.sn = s
    <3>1. import'[k].seen = import[k].seen /\ (k # m => import'[k] = import[k])
          /\ import[m].pc = "idle"
      BY <2>0, <2>3 DEF ImportLock, ImportState
    <3> QED BY <1>2, <3>1 DEF CopiesNamed
  <2>4. ASSUME NEW m \in Importer, ImportEnd(m)
        PROVE  import'[k].pc = "rows" /\ import'[k].seen[s].row.sn = s
    <3>1. import'[k] = IF k = m THEN IdleImport ELSE import[k]
      BY <2>0, <2>4 DEF ImportEnd
    <3>2. IdleImport.seen[s] = None
      BY DEF IdleImport
    <3> QED BY <1>2, <3>1, <3>2 DEF CopiesNamed
  <2>5. ASSUME NEW m \in Importer, NEW r \in Sn, ImportRow(m, r)
        PROVE  import'[k].pc = "rows" /\ import'[k].seen[s].row.sn = s
    <3>1. import'[k].seen = import[k].seen /\ import'[k].pc = import[k].pc
      BY <2>0, <2>5 DEF ImportRow, ImportState
    <3> QED BY <1>2, <3>1 DEF CopiesNamed
  <2>6. ASSUME NEW m \in Importer, ImportRead(m)
        PROVE  import'[k].pc = "rows" /\ import'[k].seen[s].row.sn = s
    <3>1. CASE k # m
      <4>1. import'[k] = import[k]
        BY <2>0, <2>6, <3>1 DEF ImportRead
      <4> QED BY <1>2, <4>1 DEF CopiesNamed
    <3>2. CASE k = m
      <4>1. import'[m].pc = "rows" /\ import[m].pc = "read"
        BY <2>0, <2>6 DEF ImportRead, ImportState
      <4>2. \/ import'[m].seen[s] = import[m].seen[s]
            \/ import'[m].seen[s] = CopyOf(Last(s)) /\ LiveOf(s) # {}
            \/ import'[m].seen[s] = None
        BY <2>0, <2>6 DEF ImportRead, ImportState
      <4>3. LiveOf(s) # {} => Last(s) \in LiveOf(s)
        BY LastIsLive DEF IInv
      <4>4. LiveOf(s) # {} => CopyOf(Last(s)).row.sn = s
        BY <4>3 DEF CopyOf, LiveOf
      <4> QED BY <1>2, <3>2, <4>1, <4>2, <4>4 DEF CopiesNamed
    <3> QED BY <3>1, <3>2
  <2>7. CASE \E m \in Importer : ImportStep(m)
    BY <2>3, <2>4, <2>5, <2>6, <2>7 DEF ImportStep
  <2> QED BY <2>1, <2>2, <2>7
      DEF Next, DeviceNext, Step, SaveDevice, CheckDeviceLimit, CreateDevice, LockInit, MarkInitialized,
          PushInit, UnlockInit, Inform, OrphanLockExpires, HeldLockExpires, OperatorCreate,
          OperatorRead, OperatorDelete, OperatorSave, OperatorPut, ImportLockExpires,
          importVars, vars
<1> QED BY <1>1, <1>2 DEF CopiesNamed

\* Nobody is counted for a serial number that is not taken.
LEMMA NotTaken ==
  ASSUME CopiesNamed, NEW s \in Sn, ~Taken(s)
  PROVE  Total(s) = 0
<1>1. Claimed(s) = {} /\ Makers(s) = {} /\ Adders(s) = {}
  BY NobodyAtWork DEF Taken, OnlyWorkers
<1> QED BY <1>1, FS_EmptySet DEF Total

LEMMA SerialStep ==
  ASSUME IInv, SerialInv, SerialNext
  PROVE  SerialInv'
<1>1. [Next]_vars /\ CountDoubts
  BY DEF SerialNext
<1>2. IInv' /\ CopiesNamed'
  BY <1>1, NextInv, NamedStep DEF SerialInv
<1>3. RowsPart /\ RowsPart' /\ MaxRow \in Nat
  BY <1>2, RegistryAssumption DEF IInv
<1>4. unsure' \in [Sn -> 0..MaxRow]
  BY <1>1, <1>3 DEF CountDoubts, SerialInv
<1>5. ASSUME NEW s \in Sn, unsure'[s] + 1 < MaxRow
      PROVE  Total(s)' <= 1 + unsure'[s]
  <2>1. /\ Keeps(s) \/ Makes(s) => Total(s)' <= Total(s)
        /\ Enters(s) => Total(s)' <= Total(s) + 1
        /\ Total(s) \in Nat /\ Total(s)' \in Nat
    BY <1>3, TotalOfStep
  <2>2. Accountable(s)
    BY <1>1, StepAccounts DEF SerialInv
  <2>3. unsure[s] \in 0..MaxRow /\ (unsure[s] + 1 < MaxRow => Total(s) <= 1 + unsure[s])
    BY DEF SerialInv, Doubted
  <2>4. CASE Settled(s)'
    <3>1. unsure'[s] = 0
      BY <1>1, <2>4 DEF CountDoubts
    <3>2. OnlyWorkers'
      BY <1>2, NobodyAtWork, PTL
    <3>3. Claimed(s)' = LiveOf(s)' /\ Makers(s)' = {} /\ Adders(s)' = {}
      BY <2>4, <3>2 DEF Settled, OnlyWorkers
    <3>4. Cardinality(LiveOf(s)') <= 1
      BY <2>4 DEF Settled
    <3>5. Total(s)' = Cardinality(LiveOf(s)') + 0 + 0
      BY <3>3, FS_EmptySet DEF Total
    <3>6. Cardinality(LiveOf(s)') \in Nat
      <4>1. Counted'
        BY <1>3, AllFinite, PTL
      <4> QED BY <3>3, <4>1 DEF Counted
    <3> QED BY <3>1, <3>4, <3>5, <3>6
  <2>5. CASE ~Settled(s)'
    <3>1. unsure'[s] = IF unsure[s] + 1 < MaxRow /\ Doubt(s) THEN unsure[s] + 1 ELSE unsure[s]
      BY <1>1, <2>5 DEF CountDoubts
    <3>2. CASE ~Taken(s)
      <4>1. Total(s) = 0
        BY <3>2, NotTaken DEF SerialInv
      <4>2. Total(s)' <= 1
        BY <2>1, <2>2, <4>1 DEF Accountable
      <4> QED BY <1>4, <2>1, <4>2
    <3>3. CASE Taken(s) /\ Doubt(s)
      <4>1. unsure[s] + 1 < MaxRow /\ unsure'[s] = unsure[s] + 1
        BY <1>3, <1>5, <2>3, <3>1, <3>3
      <4>2. Total(s)' <= Total(s) + 1
        BY <2>1, <2>2 DEF Accountable
      <4> QED BY <2>1, <2>3, <4>1, <4>2
    <3>4. CASE Taken(s) /\ ~Doubt(s)
      <4>1. unsure'[s] = unsure[s]
        BY <3>1, <3>4
      <4>2. Total(s)' <= Total(s)
        BY <2>1, <2>2, <3>4 DEF Accountable
      <4> QED BY <1>5, <2>1, <2>3, <4>1, <4>2
    <3> QED BY <3>2, <3>3, <3>4
  <2> QED BY <2>4, <2>5
<1> QED BY <1>2, <1>4, <1>5 DEF SerialInv, Doubted

LEMMA SerialSame ==
  ASSUME SerialInv, UNCHANGED serialVars
  PROVE  SerialInv'
BY DEF serialVars, vars, SerialInv, CopiesNamed, Doubted, Total, Claimed, Makers, Adders, LiveOf, Live

\* A serial number has more than one live row only by as many rows as were made, or
\* decided on, in doubt: whatever Informs, imports and operators overlap, delete,
\* save late or fail, and at whichever step the server is restarted.
THEOREM SerialIsUnique == SerialSpec => []UniqueSerial
<1>1. SerialInit => IInv /\ SerialInv
  <2> SUFFICES ASSUME SerialInit PROVE IInv /\ SerialInv
    OBVIOUS
  <2>1. Init /\ unsure = [s \in Sn |-> 0] /\ MaxRow \in Nat
    BY RegistryAssumption DEF SerialInit
  <2>2. IInv
    BY <2>1, InitInv
  <2>3. CopiesNamed
    BY <2>1 DEF Init, IdleTask, IdleImport, CopiesNamed
  <2>4. ASSUME NEW s \in Sn
        PROVE  Total(s) = 0
    <3>1. s # None /\ LiveOf(s) = {}
      BY <2>1, RegistryAssumption DEF Init, LiveOf, Live
    <3>2. ~Taken(s)
      BY <2>1, <3>1 DEF Init, IdleTask, IdleImport, Taken, InProgress
    <3> QED BY <2>3, <3>2, NotTaken
  <2>5. SerialInv
    BY <2>1, <2>3, <2>4 DEF SerialInv, Doubted
  <2> QED BY <2>2, <2>5
<1>2. IInv /\ SerialInv /\ [SerialNext]_serialVars => IInv' /\ SerialInv'
  <2> SUFFICES ASSUME IInv, SerialInv, [SerialNext]_serialVars PROVE IInv' /\ SerialInv'
    OBVIOUS
  <2>1. [Next]_vars
    BY DEF SerialNext, serialVars
  <2>2. IInv'
    BY <2>1, NextInv
  <2> QED BY <2>2, SerialStep, SerialSame
<1>3. IInv /\ SerialInv => UniqueSerial
  <2> SUFFICES ASSUME IInv, SerialInv, NEW s \in Sn
               PROVE  Cardinality(LiveOf(s)) <= 1 + unsure[s]
    BY DEF UniqueSerial
  <2>0. MaxRow \in Nat /\ RowsPart /\ unsure[s] \in 0..MaxRow
    BY RegistryAssumption DEF IInv, SerialInv
  <2>1. LiveOf(s) \subseteq Claimed(s)
    BY LiveIsClaimed
  <2>2. /\ Claimed(s) \subseteq Id /\ IsFiniteSet(Claimed(s)) /\ Cardinality(Claimed(s)) \in Nat
        /\ Cardinality(Makers(s)) \in Nat /\ Cardinality(Adders(s)) \in Nat
    BY <2>0, SerialFinite
  <2>3. Cardinality(LiveOf(s)) <= Cardinality(Claimed(s)) /\ Cardinality(LiveOf(s)) \in Nat
    BY <2>1, <2>2, SetStays
  <2>4. CASE unsure[s] + 1 < MaxRow
    <3>1. Total(s) <= 1 + unsure[s]
      BY <2>4 DEF SerialInv, Doubted
    <3> QED BY <2>0, <2>2, <2>3, <3>1 DEF Total
  <2>5. CASE unsure[s] + 1 >= MaxRow
    <3>1. 1 \in Int /\ MaxRow \in Int
      BY <2>0
    <3>2. IsFiniteSet(Id) /\ Cardinality(Id) = MaxRow
      BY <2>0, <3>1, FS_Interval DEF Id
    <3>3. Cardinality(Claimed(s)) <= MaxRow
      BY <2>2, <3>2, SetStays
    <3> QED BY <2>0, <2>2, <2>3, <2>5, <3>3
  <2> QED BY <2>0, <2>4, <2>5
<1> QED BY <1>1, <1>2, <1>3, PTL DEF SerialSpec

=============================================================================
