------------------------- MODULE SqliteStore_proofs -------------------------
(***************************************************************************)
(* Theorems about SqliteStore for any number of processes, callers, events *)
(* and legacy lines.                                                       *)
(***************************************************************************)
EXTENDS SqliteStore, TLAPS

\* The actions a case split of Next ends in, with the helpers they share.
LEMMA NextCases ==
  ASSUME Next
  PROVE  \/ \E c \in Callers, request \in Calls : Call(c, request)
         \/ \E c \in Callers : \/ CheckInitialized(c) \/ EnterGate(c) \/ Recheck(c)
                               \/ CreateEventsTable(c) \/ CreateMetadataTable(c)
                               \/ CheckColumn(c) \/ AddColumn(c)
                               \/ BeginImport(c) \/ DecideImport(c) \/ ImportLine(c)
                               \/ EndOfLegacy(c) \/ CommitImport(c)
                               \/ MarkInitialized(c) \/ LeaveGate(c)
                               \/ Save(c) \/ Delete(c) \/ Search(c)
                               \/ LockTimeout(c) \/ Cancel(c)
         \/ \E p \in Procs : Restart(p)
  BY DEF Next, Advance, Prepare

-----------------------------------------------------------------------------
(* Types *)

\* The empty table is a table.
LEMMA NoRowsType == NoRows \in Rows
  BY DEF NoRows, Rows

\* So is what an absent transaction stands for.
LEMMA NoTransactionType == NoTransaction \in Transactions
  BY NoRowsType DEF NoTransaction, Transactions

\* A deletion leaves a table.
LEMMA WithoutType ==
  ASSUME NEW table \in Rows, NEW sources
  PROVE  Without(table, sources) \in Rows
  BY DEF Without, Rows

\* A save, and INSERT OR IGNORE of a legacy line, leave a table.
LEMMA InsertType ==
  ASSUME NEW table \in Rows, NEW i \in Ids, NEW v \in Copies
  PROVE  /\ [table EXCEPT ![i] = v] \in Rows
         /\ \A line : line.id = i /\ line.copy = v => InsertOrIgnore(table, line) \in Rows
  BY DEF InsertOrIgnore, Rows

\* A rollback touches nothing but the lock and the transaction.
LEMMA RollbackType ==
  ASSUME TypeOK, NEW c \in Callers, Rollback(c)
  PROVE  /\ writer' \in Callers \union {NoCaller}
         /\ tx' \in Transactions
         /\ UNCHANGED <<schema, metadata, rows, marker>>
  BY NoTransactionType DEF TypeOK, Rollback

\* An exception inside the gate keeps the types.
LEMMA FailInsideType ==
  ASSUME TypeOK, NEW c \in Callers,
         NEW why \in {"failed", "noSuchTable", "duplicateColumn"}, FailInside(c, why)
  PROVE  TypeOK'
  BY RollbackType DEF TypeOK, FailInside, process, Steps, InsideGate, Preparing

\* An exception outside the gate keeps the types.
LEMMA FailOutsideType ==
  ASSUME TypeOK, NEW c \in Callers, FailOutside(c, "failed")
  PROVE  TypeOK'
  BY DEF TypeOK, FailOutside, database, process, Steps, InsideGate, Preparing

\* An event line of the legacy files holds an event.
LEMMA LegacyLineType ==
  ASSUME NEW n \in Nat, n >= 1, n <= Len(Legacy)
  PROVE  /\ Legacy[n].kind \in {"event", "blank", "corrupt"}
         /\ Legacy[n].kind = "event" => Legacy[n].id \in Ids /\ Legacy[n].copy \in Copies
  <1>1. Legacy[n] \in LegacyLines
    BY LegacyAssumption
  <1>2. QED
    BY <1>1 DEF LegacyLines

\* The types hold before the first call.
LEMMA TypeInit == Init => TypeOK
  <1> SUFFICES ASSUME Init PROVE TypeOK
    OBVIOUS
  <1>1. schema \in {"none", "old", "current"}
    BY SchemaAssumption DEF Init
  <1>2. call \in [Callers -> Calls]
    BY DEF Init, Calls
  <1>3. QED
    BY <1>1, <1>2, NoTransactionType DEF Init, TypeOK, Steps

\* Every step keeps the types.
LEMMA TypeStep == TypeOK /\ [Next]_vars => TypeOK'
  <1> SUFFICES ASSUME TypeOK, [Next]_vars
               PROVE  TypeOK'
    OBVIOUS
  <1> USE ProcAssumption DEF Goto, database, process, Steps, InsideGate, Preparing
  <1>1. ASSUME NEW c \in Callers, NEW request \in Calls, Call(c, request)
        PROVE  TypeOK'
    BY <1>1 DEF TypeOK, Call
  <1>2. ASSUME NEW c \in Callers, CheckInitialized(c) \/ EnterGate(c) \/ Recheck(c)
        PROVE  TypeOK'
    BY <1>2 DEF TypeOK, CheckInitialized, EnterGate, Recheck
  <1>3. ASSUME NEW c \in Callers, CreateEventsTable(c) \/ CreateMetadataTable(c) \/ CheckColumn(c)
        PROVE  TypeOK'
    BY <1>3 DEF TypeOK, CreateEventsTable, CreateMetadataTable, CheckColumn
  <1>4. ASSUME NEW c \in Callers, AddColumn(c)
        PROVE  TypeOK'
    <2>1. CASE schema = "old"
      BY <1>4, <2>1 DEF TypeOK, AddColumn
    <2>2. CASE schema /= "old"
      BY <1>4, <2>2, FailInsideType DEF AddColumn
    <2>3. QED
      BY <2>1, <2>2
  <1>5. ASSUME NEW c \in Callers, BeginImport(c)
        PROVE  TypeOK'
    BY <1>5 DEF TypeOK, BeginImport, Transactions
  <1>6. ASSUME NEW c \in Callers, DecideImport(c)
        PROVE  TypeOK'
    <2>1. CASE schema = "none" \/ ~metadata
      BY <1>6, <2>1, FailInsideType DEF DecideImport
    <2>2. CASE ~(schema = "none" \/ ~metadata)
      <3>1. tx \in Transactions /\ tx' = [tx EXCEPT !.marker = TRUE]
        BY <1>6, <2>2 DEF TypeOK, DecideImport
      <3>2. tx' \in Transactions
        BY ONLY <3>1 DEF Transactions
      <3>3. QED
        BY <1>6, <2>2, <3>2 DEF TypeOK, DecideImport
    <2>3. QED
      BY <2>1, <2>2
  <1>7. ASSUME NEW c \in Callers, ImportLine(c)
        PROVE  TypeOK'
    <2> DEFINE line == Legacy[tx.next]
    <2>1. tx.next \in Nat /\ tx.next >= 1 /\ tx.rows \in Rows
      BY DEF TypeOK, Transactions
    <2>2. CASE FailInside(c, "noSuchTable") \/ FailInside(c, "failed")
      BY <2>2, FailInsideType
    <2>3. CASE /\ line.kind = "event"
               /\ tx' = [tx EXCEPT !.rows = InsertOrIgnore(tx.rows, line), !.next = @ + 1]
               /\ UNCHANGED <<schema, metadata, rows, marker, writer, process, pc, call, error>>
      <3>1. line.id \in Ids /\ line.copy \in Copies
        BY <1>7, <2>1, <2>3, LegacyLineType DEF ImportLine
      <3>2. InsertOrIgnore(tx.rows, line) \in Rows
        BY <2>1, <3>1, InsertType
      <3>3. tx' \in Transactions
        <4> DEFINE inserted == InsertOrIgnore(tx.rows, line)
        <4> HIDE DEF line, inserted
        <4>1. tx \in Transactions
          BY DEF TypeOK
        <4>2. inserted \in Rows /\ tx' = [tx EXCEPT !.rows = inserted, !.next = @ + 1]
          BY <2>3, <3>2 DEF inserted
        <4>3. tx' = [rows |-> inserted, marker |-> tx.marker, next |-> tx.next + 1]
          BY <4>1, <4>2 DEF Transactions
        <4>4. QED
          BY <4>1, <4>2, <4>3 DEF Transactions
      <3>4. QED
        BY <2>3, <3>3 DEF TypeOK
    <2>4. CASE /\ tx' = [tx EXCEPT !.next = @ + 1]
               /\ UNCHANGED <<schema, metadata, rows, marker, writer, process, pc, call, error>>
      BY <2>1, <2>4 DEF TypeOK, Transactions
    <2>5. QED
      BY <1>7, <2>1, <2>2, <2>3, <2>4 DEF ImportLine
  <1>8. ASSUME NEW c \in Callers, EndOfLegacy(c) \/ CommitImport(c) \/ MarkInitialized(c) \/ LeaveGate(c)
        PROVE  TypeOK'
    BY <1>8, NoTransactionType
    DEF TypeOK, EndOfLegacy, CommitImport, MarkInitialized, LeaveGate, Transactions
  <1>9. ASSUME NEW c \in Callers, Save(c)
        PROVE  TypeOK'
    <2>1. call[c].id \in Ids /\ call[c].copy \in Copies
      BY <1>9 DEF Save, Execute, TypeOK, Calls
    <2>2. rows' \in Rows
      BY <1>9, <2>1 DEF Save, TypeOK, Rows
    <2>3. QED
      BY <1>9, <2>2 DEF Save, Execute, TypeOK
  <1>10. ASSUME NEW c \in Callers, Delete(c) \/ Search(c)
         PROVE  TypeOK'
    <2>1. rows' \in Rows
      BY <1>10, WithoutType DEF Delete, Search, TypeOK
    <2>2. QED
      BY <1>10, <2>1 DEF Delete, Search, Execute, TypeOK
  <1>11. ASSUME NEW c \in Callers, LockTimeout(c) \/ Cancel(c)
         PROVE  TypeOK'
    BY <1>11, FailInsideType, FailOutsideType DEF LockTimeout, Cancel
  <1>12. ASSUME NEW p \in Procs, Restart(p)
         PROVE  TypeOK'
    BY <1>12, NoTransactionType DEF TypeOK, Restart
  <1>13. CASE UNCHANGED vars
    BY <1>13 DEF vars, TypeOK
  <1>14. QED
    BY <1>1, <1>2, <1>3, <1>4, <1>5, <1>6, <1>7, <1>8, <1>9, <1>10, <1>11, <1>12, <1>13, NextCases

\* Every variable of the repository and of the database keeps its type.
THEOREM TypeCorrect == Spec => []TypeOK
  BY TypeInit, TypeStep, PTL DEF Spec

-----------------------------------------------------------------------------
(* The preparation of the database *)

\* The write lock belongs to the caller inside the import, and only to a
\* process that has something to import.
LockHeld ==
  \A c \in Callers :
    /\ writer = c <=> pc[c] \in InTransaction
    /\ pc[c] \in InTransaction => ProcOf[c] \in Migrating

\* What the steps a caller has behind it have established; no other caller,
\* process, failure or crash undoes it.
StepsDone ==
  \A c \in Callers :
    /\ pc[c] \in (Preparing \union {"mark"}) \ {"events"} => schema /= "none"
    /\ pc[c] \in (Preparing \union {"mark"}) \ {"events", "metadata"} => metadata
    /\ pc[c] \in InTransaction \union {"begin", "mark"} => schema = "current"
    /\ pc[c] \in InTransaction \ {"decide"} => tx.marker
    /\ pc[c] = "mark" => (ProcOf[c] \in Migrating => marker)
    /\ pc[c] \in {"recheck", "mark"} \union Preparing => error[c] = "none"
    /\ pc[c] = "exec" => initialized[ProcOf[c]]
    /\ pc[c] = "release" /\ error[c] = "none" => initialized[ProcOf[c]]
    /\ pc[c] \in {"check", "gate"} => error[c] = "none"

ReadyInv ==
  /\ TypeOK
  /\ GateExclusive
  /\ LockHeld
  /\ StepsDone
  /\ InitializedMeansReady
  /\ NoMissingTable

\* Nobody holds anything and nothing is initialized at first.
LEMMA ReadyInit == Init => ReadyInv
  BY TypeInit, NoCallerAssumption, ProcAssumption
  DEF Init, ReadyInv, GateExclusive, LockHeld, StepsDone, InitializedMeansReady, NoMissingTable,
      InTransaction, InsideGate, Preparing

\* Leaving through the finally block keeps the gate until it is released and
\* gives the write lock back.
LEMMA ReadyFailInside ==
  ASSUME ReadyInv, TypeOK', NEW c \in Callers, pc[c] \in Preparing,
         NEW why \in {"failed", "duplicateColumn"}, FailInside(c, why)
  PROVE  ReadyInv'
  <1> USE ProcAssumption, NoCallerAssumption
      DEF ReadyInv, TypeOK, FailInside, Rollback, process
  <1>1. GateExclusive' /\ InitializedMeansReady' /\ NoMissingTable'
    BY DEF GateExclusive, InitializedMeansReady, NoMissingTable, InsideGate
  <1>2. LockHeld' /\ StepsDone'
    BY DEF LockHeld, StepsDone, InTransaction, Preparing
  <1>3. QED
    BY <1>1, <1>2

\* An exception outside the gate takes nothing back that was established.
LEMMA ReadyFailOutside ==
  ASSUME ReadyInv, TypeOK', NEW c \in Callers, pc[c] \in {"gate", "exec"},
         FailOutside(c, "failed")
  PROVE  ReadyInv'
  BY DEF ReadyInv, TypeOK, FailOutside, process, database, GateExclusive, InitializedMeansReady,
         NoMissingTable, LockHeld, StepsDone, InsideGate, InTransaction, Preparing

\* The import of a line leaves the marker as it was.
LEMMA NextLineKeepsMarker ==
  ASSUME NEW t \in Transactions, NEW table
  PROVE  /\ [t EXCEPT !.rows = table, !.next = @ + 1].marker = t.marker
         /\ [t EXCEPT !.next = @ + 1].marker = t.marker
  BY DEF Transactions

\* Every step keeps what preparation has established.
LEMMA ReadyStep == ReadyInv /\ [Next]_vars => ReadyInv'
  <1> SUFFICES ASSUME ReadyInv, [Next]_vars
               PROVE  ReadyInv'
    OBVIOUS
  <1>0. TypeOK /\ TypeOK'
    BY TypeStep DEF ReadyInv
  <1> USE ProcAssumption, NoCallerAssumption
      DEF Goto, database, process, ReadyInv, TypeOK, GateExclusive, LockHeld, StepsDone,
          InitializedMeansReady, NoMissingTable, InTransaction, InsideGate, Preparing
  <1>1. ASSUME NEW c \in Callers, \E request \in Calls : Call(c, request)
        PROVE  ReadyInv'
    BY <1>0, <1>1 DEF Call
  <1>2. ASSUME NEW c \in Callers, CheckInitialized(c) \/ EnterGate(c) \/ Recheck(c)
        PROVE  ReadyInv'
    BY <1>0, <1>2 DEF CheckInitialized, EnterGate, Recheck
  <1>3. ASSUME NEW c \in Callers, CreateEventsTable(c) \/ CreateMetadataTable(c)
        PROVE  ReadyInv'
    BY <1>0, <1>3 DEF CreateEventsTable, CreateMetadataTable
  <1>4. ASSUME NEW c \in Callers, CheckColumn(c)
        PROVE  ReadyInv'
    BY <1>0, <1>4 DEF CheckColumn
  <1>5. ASSUME NEW c \in Callers, AddColumn(c)
        PROVE  ReadyInv'
    <2>1. CASE schema = "old"
      BY <1>0, <1>5, <2>1 DEF AddColumn
    <2>2. CASE schema = "current"
      BY <1>0, <1>5, <2>2, ReadyFailInside DEF AddColumn
    <2>3. QED
      BY <1>0, <1>5, <2>1, <2>2 DEF AddColumn
  <1>6. ASSUME NEW c \in Callers, BeginImport(c)
        PROVE  ReadyInv'
    BY <1>0, <1>6 DEF BeginImport
  <1>7. ASSUME NEW c \in Callers, DecideImport(c)
        PROVE  ReadyInv'
    <2>1. schema = "current" /\ metadata
      BY <1>0, <1>7 DEF DecideImport
    <2>2. tx'.marker = TRUE
      BY <1>0, <1>7, <2>1 DEF DecideImport, Transactions
    <2>3. QED
      BY <1>0, <1>7, <2>1, <2>2 DEF DecideImport
  <1>8. ASSUME NEW c \in Callers, ImportLine(c)
        PROVE  ReadyInv'
    <2>1. schema = "current" /\ tx.marker
      BY <1>0, <1>8 DEF ImportLine
    <2>2. CASE FailInside(c, "failed")
      BY <1>0, <1>8, <2>2, ReadyFailInside DEF ImportLine
    <2>3. CASE UNCHANGED <<schema, metadata, rows, marker, writer, process, pc, call, error>>
      <3>1. ~FailInside(c, "failed")
        BY <1>0, <1>8, <2>3 DEF ImportLine, FailInside
      <3>2. \/ tx' = [tx EXCEPT !.rows = InsertOrIgnore(tx.rows, Legacy[tx.next]), !.next = @ + 1]
            \/ tx' = [tx EXCEPT !.next = @ + 1]
        BY <1>8, <2>1, <3>1 DEF ImportLine
      <3>3. tx'.marker = tx.marker
        <4>1. tx \in Transactions
          BY <1>0
        <4>2. CASE tx' = [tx EXCEPT !.rows = InsertOrIgnore(tx.rows, Legacy[tx.next]), !.next = @ + 1]
          BY ONLY <4>1, <4>2, NextLineKeepsMarker
        <4>3. CASE tx' = [tx EXCEPT !.next = @ + 1]
          BY ONLY <4>1, <4>3, NextLineKeepsMarker
        <4>4. QED
          BY <3>2, <4>2, <4>3
      <3>4. QED
        BY <1>0, <2>1, <2>3, <3>3
    <2>4. QED
      BY <1>8, <2>1, <2>2, <2>3 DEF ImportLine
  <1>9. ASSUME NEW c \in Callers, EndOfLegacy(c) \/ CommitImport(c)
        PROVE  ReadyInv'
    BY <1>0, <1>9 DEF EndOfLegacy, CommitImport
  <1>10. ASSUME NEW c \in Callers, MarkInitialized(c)
        PROVE  ReadyInv'
    BY <1>0, <1>10 DEF MarkInitialized
  <1>11. ASSUME NEW c \in Callers, LeaveGate(c)
        PROVE  ReadyInv'
    BY <1>0, <1>11 DEF LeaveGate
  <1>12. ASSUME NEW c \in Callers, Save(c) \/ Delete(c) \/ Search(c)
        PROVE  ReadyInv'
    BY <1>0, <1>12 DEF Save, Delete, Search, Execute
  <1>13. ASSUME NEW c \in Callers, LockTimeout(c) \/ Cancel(c)
        PROVE  ReadyInv'
    BY <1>0, <1>13, ReadyFailInside, ReadyFailOutside DEF LockTimeout, Cancel
  <1>14. ASSUME NEW p \in Procs, Restart(p)
        PROVE  ReadyInv'
    BY <1>0, <1>14 DEF Restart
  <1>15. CASE UNCHANGED vars
    BY <1>0, <1>15 DEF vars
  <1>16. QED
    BY <1>1, <1>2, <1>3, <1>4, <1>5, <1>6, <1>7, <1>8, <1>9, <1>10, <1>11, <1>12, <1>13, <1>14, <1>15, NextCases

\* The inductive invariant behind the three theorems that follow.
THEOREM ReadyCorrect == Spec => []ReadyInv
  BY ReadyInit, ReadyStep, PTL DEF Spec

\* No failure, cancellation or crash leaks the initialization gate or lets two
\* callers of one process prepare the database.
THEOREM GateIsExclusive == Spec => []GateExclusive
  BY ReadyCorrect, PTL DEF ReadyInv

\* _initialized implies current tables and, with legacy files, the marker.
THEOREM InitializedIsReady == Spec => []InitializedMeansReady
  BY ReadyCorrect, PTL DEF ReadyInv

\* No statement of any caller names a missing table or column.
THEOREM TablesAreThere == Spec => []NoMissingTable
  BY ReadyCorrect, PTL DEF ReadyInv

-----------------------------------------------------------------------------
(* The import *)

\* The first k lines of the legacy files have been inserted into the table.
\* (That a first line of i exists is carried along: it spares an induction.)
ImportedUpTo(k, table) ==
  \A i \in Ids :
    IF LinesOf(i) \intersect 1..k = {}
    THEN table[i] = Absent
    ELSE /\ FirstLineOf(i) \in LinesOf(i) \intersect 1..k
         /\ table[i] = Legacy[FirstLineOf(i)].copy

\* How the open transaction relates to the committed table, which nobody else
\* can change meanwhile.
ImportInv ==
  \A c \in Callers :
    /\ pc[c] = "decide" =>
         /\ tx.rows = rows
         /\ tx.marker = marker
         /\ tx.next = 1
    /\ pc[c] = "lines" =>
         /\ ~marker
         /\ rows = NoRows
         /\ ImportedUpTo(tx.next - 1, tx.rows)
    /\ pc[c] = "commit" =>
         \/ tx.rows = rows /\ (marker \/ rows /= NoRows)
         \/ ~marker /\ rows = NoRows /\ tx.rows = LegacyRows

StoreInv == ReadyInv /\ ImportInv

\* Before the first line the empty table is what was imported.
LEMMA NothingImported ==
  ImportedUpTo(0, NoRows)
  BY DEF ImportedUpTo, NoRows

\* After the last line it is the table the legacy files stand for.
LEMMA AllImported ==
  ASSUME NEW k \in Nat, k >= Len(Legacy), NEW table \in Rows, ImportedUpTo(k, table)
  PROVE  table = LegacyRows
  <1>1. Len(Legacy) \in Nat
    BY LegacyAssumption
  <1>2. ASSUME NEW i \in Ids
        PROVE  table[i] = LegacyRows[i]
    <2>1. LinesOf(i) \intersect 1..k = LinesOf(i)
      BY <1>1 DEF LinesOf
    <2>2. QED
      BY <2>1 DEF ImportedUpTo, LegacyRows
  <1>3. QED
    BY <1>2 DEF Rows, LegacyRows

\* A line that is the first of its event is the one that is kept.
LEMMA FirstLine ==
  ASSUME NEW i \in Ids, NEW n \in LinesOf(i), LinesOf(i) \intersect 1..(n - 1) = {}
  PROVE  FirstLineOf(i) = n
  <1>1. LinesOf(i) \subseteq Nat
    BY DEF LinesOf
  <1>2. \A m \in LinesOf(i) : n <= m
    BY <1>1 DEF LinesOf
  <1>3. \A m \in LinesOf(i) : (\A l \in LinesOf(i) : m <= l) => m = n
    BY <1>1, <1>2
  <1>4. QED
    BY <1>2, <1>3 DEF FirstLineOf

\* One more line: an event is inserted unless it is there, anything else skipped.
LEMMA LineImported ==
  ASSUME NEW k \in Nat, k >= 1, k <= Len(Legacy),
         NEW table \in Rows, ImportedUpTo(k - 1, table),
         NEW after,
         after = IF Legacy[k].kind = "event" THEN InsertOrIgnore(table, Legacy[k]) ELSE table
  PROVE  ImportedUpTo(k, after)
  <1> SUFFICES ASSUME NEW i \in Ids
               PROVE  IF LinesOf(i) \intersect 1..k = {}
                      THEN after[i] = Absent
                      ELSE /\ FirstLineOf(i) \in LinesOf(i) \intersect 1..k
                           /\ after[i] = Legacy[FirstLineOf(i)].copy
    BY DEF ImportedUpTo
  <1>0. Len(Legacy) \in Nat
    BY LegacyAssumption
  <1>1. k \in LinesOf(i) <=> Legacy[k].kind = "event" /\ Legacy[k].id = i
    BY <1>0 DEF LinesOf
  <1>2. 1..k = 1..(k - 1) \union {k}
    OBVIOUS
  <1>3. \A m \in LinesOf(i) : Legacy[m].copy \in Copies
    <2> SUFFICES ASSUME NEW m \in LinesOf(i) PROVE Legacy[m].copy \in Copies
      OBVIOUS
    <2>1. m \in Nat /\ m >= 1 /\ m <= Len(Legacy) /\ Legacy[m].kind = "event"
      BY <1>0 DEF LinesOf
    <2>2. QED
      BY <2>1, LegacyLineType
  <1>4. IF LinesOf(i) \intersect 1..(k - 1) = {}
        THEN table[i] = Absent
        ELSE /\ FirstLineOf(i) \in LinesOf(i) \intersect 1..(k - 1)
             /\ table[i] = Legacy[FirstLineOf(i)].copy
    BY DEF ImportedUpTo
  <1>5. CASE k \notin LinesOf(i)
    <2>1. after[i] = table[i]
      BY <1>1, <1>5 DEF InsertOrIgnore, Rows
    <2>2. LinesOf(i) \intersect 1..k = LinesOf(i) \intersect 1..(k - 1)
      BY <1>2, <1>5
    <2>3. QED
      BY <1>4, <2>1, <2>2
  <1>6. CASE k \in LinesOf(i) /\ LinesOf(i) \intersect 1..(k - 1) = {}
    <2>1. FirstLineOf(i) = k
      BY <1>6, FirstLine
    <2>2. after[i] = Legacy[k].copy
      BY <1>1, <1>4, <1>6 DEF InsertOrIgnore, Rows
    <2>3. QED
      BY <1>2, <1>6, <2>1, <2>2
  <1>7. CASE k \in LinesOf(i) /\ LinesOf(i) \intersect 1..(k - 1) /= {}
    <2>1. table[i] /= Absent
      BY <1>3, <1>4, <1>7, AbsentAssumption
    <2>2. after[i] = table[i]
      BY <1>1, <1>7, <2>1 DEF InsertOrIgnore
    <2>3. QED
      BY <1>2, <1>4, <1>7, <2>2
  <1>8. QED
    BY <1>5, <1>6, <1>7

\* No import runs at first.
LEMMA ImportInit == Init => ImportInv
  BY DEF Init, ImportInv

\* A step that leaves the table, the marker and the transaction alone, or is
\* taken while nobody holds the write lock, keeps ImportInv for the callers
\* whose program counter it does not move into the transaction.
LEMMA ImportUntouched ==
  ASSUME ReadyInv, ImportInv,
         \A c \in Callers : pc'[c] \in InTransaction => pc'[c] = pc[c],
         \/ UNCHANGED <<rows, marker, tx>>
         \/ \A c \in Callers : pc'[c] \notin InTransaction
  PROVE  ImportInv'
  BY DEF ImportInv, InTransaction

\* A failed import leaves no caller inside one that could go on.
LEMMA ImportFail ==
  ASSUME ReadyInv, ImportInv, NEW c \in Callers, NEW why, FailInside(c, why)
  PROVE  ImportInv'
  <1>1. CASE writer = c
    <2>1. \A d \in Callers : pc'[d] \notin InTransaction
      BY <1>1 DEF FailInside, ReadyInv, TypeOK, LockHeld, InTransaction
    <2>2. QED
      BY <2>1, ImportUntouched
  <1>2. CASE writer /= c
    BY <1>2, ImportUntouched DEF FailInside, Rollback, ReadyInv, TypeOK, InTransaction
  <1>3. QED
    BY <1>1, <1>2

\* Every step keeps the import's progress.
LEMMA ImportStep == StoreInv /\ [Next]_vars => ImportInv'
  <1> SUFFICES ASSUME StoreInv, [Next]_vars
               PROVE  ImportInv'
    OBVIOUS
  <1>0. ReadyInv /\ ImportInv /\ TypeOK /\ ReadyInv' /\ TypeOK'
    BY ReadyStep DEF StoreInv, ReadyInv
  <1>1. ASSUME NEW c \in Callers, NEW request \in Calls, Call(c, request)
        PROVE  ImportInv'
    BY <1>0, <1>1, ImportUntouched DEF Call, Goto, database, TypeOK, InTransaction
  <1>2. ASSUME NEW c \in Callers, CheckInitialized(c) \/ EnterGate(c) \/ Recheck(c)
        PROVE  ImportInv'
    BY <1>0, <1>2, ImportUntouched
    DEF CheckInitialized, EnterGate, Recheck, Goto, database, TypeOK, InTransaction
  <1>3. ASSUME NEW c \in Callers, CreateEventsTable(c) \/ CreateMetadataTable(c) \/ CheckColumn(c)
        PROVE  ImportInv'
    BY <1>0, <1>3, ImportUntouched
    DEF CreateEventsTable, CreateMetadataTable, CheckColumn, Goto, database, TypeOK, InTransaction
  <1>4. ASSUME NEW c \in Callers, AddColumn(c)
        PROVE  ImportInv'
    <2>1. CASE schema = "old"
      BY <1>0, <1>4, <2>1, ImportUntouched DEF AddColumn, TypeOK, InTransaction
    <2>2. CASE schema /= "old"
      BY <1>0, <1>4, <2>2, ImportFail DEF AddColumn
    <2>3. QED
      BY <2>1, <2>2
  <1>5. ASSUME NEW c \in Callers, BeginImport(c)
        PROVE  ImportInv'
    <2>1. CASE ProcOf[c] \notin Migrating
      BY <1>0, <1>5, <2>1, ImportUntouched DEF BeginImport, Goto, database, TypeOK, InTransaction
    <2>2. CASE ProcOf[c] \in Migrating
      <3>1. tx' = [rows |-> rows, marker |-> marker, next |-> 1] /\ UNCHANGED <<rows, marker>>
        BY <1>5, <2>2 DEF BeginImport
      <3>2. \A d \in Callers : pc'[d] \in InTransaction => pc'[d] = "decide"
        BY <1>0, <1>5, <2>2, NoCallerAssumption
        DEF BeginImport, Goto, ReadyInv, TypeOK, LockHeld, InTransaction
      <3>3. QED
        BY <3>1, <3>2 DEF ImportInv, InTransaction
    <2>3. QED
      BY <2>1, <2>2
  <1>6. ASSUME NEW c \in Callers, DecideImport(c)
        PROVE  ImportInv'
    <2>1. schema = "current" /\ metadata
      BY <1>0, <1>6 DEF DecideImport, ReadyInv, StepsDone, Preparing, InTransaction
    <2>2. /\ pc[c] = "decide"
          /\ pc' = [pc EXCEPT ![c] = IF tx.marker \/ tx.rows /= NoRows THEN "commit" ELSE "lines"]
          /\ tx' = [tx EXCEPT !.marker = TRUE]
          /\ UNCHANGED <<rows, marker>>
      BY <1>6, <2>1 DEF DecideImport
    <2>3. tx.rows = rows /\ tx.marker = marker /\ tx.next = 1
      BY <1>0, <2>2 DEF ImportInv
    <2>4. tx'.rows = rows /\ tx'.next = 1
      BY <1>0, <2>2, <2>3 DEF TypeOK, Transactions
    <2>5. \A d \in Callers : pc'[d] \in InTransaction => d = c
      BY <1>0, <2>2 DEF ReadyInv, TypeOK, LockHeld, InTransaction
    <2>6. CASE tx.marker \/ tx.rows /= NoRows
      BY <1>0, <2>2, <2>4, <2>5, <2>6 DEF ImportInv, InTransaction, TypeOK
    <2>7. CASE ~(tx.marker \/ tx.rows /= NoRows)
      <3>1. ImportedUpTo(tx'.next - 1, tx'.rows)
        BY <2>3, <2>4, <2>7, NothingImported
      <3>2. QED
        BY <1>0, <2>2, <2>3, <2>5, <2>7, <3>1 DEF ImportInv, InTransaction, TypeOK, ImportedUpTo
    <2>8. QED
      BY <2>6, <2>7
  <1>7. ASSUME NEW c \in Callers, ImportLine(c)
        PROVE  ImportInv'
    <2> DEFINE line == Legacy[tx.next]
    <2>1. CASE FailInside(c, "noSuchTable") \/ FailInside(c, "failed")
      BY <1>0, <2>1, ImportFail
    <2>2. CASE /\ UNCHANGED <<rows, marker, pc>>
               /\ \/ /\ line.kind = "event"
                     /\ tx' = [tx EXCEPT !.rows = InsertOrIgnore(tx.rows, line), !.next = @ + 1]
                  \/ line.kind = "blank" /\ tx' = [tx EXCEPT !.next = @ + 1]
      <3>1. /\ pc[c] = "lines"
            /\ tx.next <= Len(Legacy)
            /\ tx.next \in Nat /\ tx.next >= 1
            /\ tx.rows \in Rows
            /\ tx'.rows \in Rows
            /\ tx \in Transactions
        BY <1>0, <1>7 DEF ImportLine, TypeOK, Transactions
      <3>2. /\ tx'.next = tx.next + 1
            /\ tx'.rows = IF line.kind = "event" THEN InsertOrIgnore(tx.rows, line) ELSE tx.rows
        <4> HIDE DEF line
        <4>1. QED
          BY <2>2, <3>1 DEF Transactions
      <3>3. ~marker /\ rows = NoRows /\ ImportedUpTo(tx.next - 1, tx.rows)
        BY <1>0, <3>1 DEF ImportInv
      <3>4. ImportedUpTo(tx.next, tx'.rows)
        BY <3>1, <3>2, <3>3, LineImported
      <3>5. ImportedUpTo(tx'.next - 1, tx'.rows)
        BY <3>1, <3>2, <3>4
      <3>6. \A d \in Callers : pc'[d] \in InTransaction => d = c
        BY <1>0, <2>2, <3>1 DEF ReadyInv, LockHeld, InTransaction
      <3>7. QED
        BY <2>2, <3>1, <3>3, <3>5, <3>6 DEF ImportInv, InTransaction, ImportedUpTo
    <2>3. QED
      BY <1>7, <2>1, <2>2 DEF ImportLine
  <1>8. ASSUME NEW c \in Callers, EndOfLegacy(c)
        PROVE  ImportInv'
    <2>1. /\ pc[c] = "lines"
          /\ pc' = [pc EXCEPT ![c] = "commit"]
          /\ UNCHANGED <<rows, marker, tx>>
          /\ tx.next > Len(Legacy)
      BY <1>8 DEF EndOfLegacy, Goto, database
    <2>2. tx.rows = LegacyRows
      <3>1. tx.next - 1 \in Nat /\ tx.rows \in Rows /\ Len(Legacy) \in Nat
        BY <1>0, LegacyAssumption DEF TypeOK, Transactions
      <3>2. ImportedUpTo(tx.next - 1, tx.rows)
        BY <1>0, <2>1 DEF ImportInv
      <3>3. tx.next - 1 >= Len(Legacy)
        BY <1>0, <2>1, <3>1 DEF TypeOK, Transactions
      <3>4. QED
        BY <3>1, <3>2, <3>3, AllImported
    <2>3. \A d \in Callers : pc'[d] \in InTransaction => d = c
      BY <1>0, <2>1 DEF ReadyInv, TypeOK, LockHeld, InTransaction
    <2>4. ~marker /\ rows = NoRows
      BY <1>0, <2>1 DEF ImportInv
    <2>5. QED
      BY <1>0, <2>1, <2>2, <2>3, <2>4 DEF ImportInv, InTransaction, TypeOK
  <1>9. ASSUME NEW c \in Callers, CommitImport(c)
        PROVE  ImportInv'
    <2>1. \A d \in Callers : pc'[d] \notin InTransaction
      BY <1>0, <1>9 DEF CommitImport, Goto, ReadyInv, TypeOK, LockHeld, InTransaction
    <2>2. QED
      BY <1>0, <2>1, ImportUntouched
  <1>10. ASSUME NEW c \in Callers, MarkInitialized(c) \/ LeaveGate(c)
         PROVE  ImportInv'
    BY <1>0, <1>10, ImportUntouched
    DEF MarkInitialized, LeaveGate, Goto, database, TypeOK, InTransaction
  <1>11. ASSUME NEW c \in Callers, Save(c) \/ Delete(c)
         PROVE  ImportInv'
    <2>1. \A d \in Callers : pc'[d] \notin InTransaction
      BY <1>0, <1>11, NoCallerAssumption
      DEF Save, Delete, Execute, Goto, MayWrite, ReadyInv, TypeOK, LockHeld, InTransaction
    <2>2. QED
      BY <1>0, <2>1, ImportUntouched
  <1>12. ASSUME NEW c \in Callers, Search(c)
         PROVE  ImportInv'
    BY <1>0, <1>12, ImportUntouched DEF Search, Execute, Goto, TypeOK, InTransaction
  <1>13. ASSUME NEW c \in Callers, LockTimeout(c) \/ Cancel(c)
         PROVE  ImportInv'
    <2>1. CASE FailInside(c, "failed")
      BY <1>0, <2>1, ImportFail
    <2>2. CASE FailOutside(c, "failed")
      BY <1>0, <2>2, ImportUntouched DEF FailOutside, database, TypeOK, InTransaction
    <2>3. QED
      BY <1>13, <2>1, <2>2 DEF LockTimeout, Cancel
  <1>14. ASSUME NEW p \in Procs, Restart(p)
         PROVE  ImportInv'
    <2>1. CASE writer \in Callers /\ ProcOf[writer] = p
      <3>1. \A d \in Callers : pc'[d] \notin InTransaction
        BY <1>0, <1>14, <2>1 DEF Restart, ReadyInv, TypeOK, LockHeld, InTransaction
      <3>2. QED
        BY <1>0, <3>1, ImportUntouched
    <2>2. CASE ~(writer \in Callers /\ ProcOf[writer] = p)
      BY <1>0, <1>14, <2>2, ImportUntouched DEF Restart, TypeOK, InTransaction
    <2>3. QED
      BY <2>1, <2>2
  <1>15. CASE UNCHANGED vars
    BY <1>0, <1>15, ImportUntouched DEF vars
  <1>16. QED
    BY <1>1, <1>2, <1>3, <1>4, <1>5, <1>6, <1>7, <1>8, <1>9, <1>10, <1>11, <1>12, <1>13,
       <1>14, <1>15, NextCases

\* The committed table and the transaction that may replace it stay related.
THEOREM StoreInvCorrect == Spec => []StoreInv
  <1>1. Init => StoreInv
    BY ReadyInit, ImportInit DEF StoreInv
  <1>2. StoreInv /\ [Next]_vars => StoreInv'
    BY ReadyStep, ImportStep DEF StoreInv
  <1>3. QED
    BY <1>1, <1>2, PTL DEF Spec

-----------------------------------------------------------------------------
(* What the committed table goes through *)

SaveStep ==
  \E c \in Callers :
    /\ pc[c] = "exec"
    /\ call[c].op = "save"
    /\ call[c].id \in Ids
    /\ call[c].copy \in Copies
    /\ rows' = [rows EXCEPT ![call[c].id] = call[c].copy]
    /\ UNCHANGED marker

DeleteStep ==
  \E sources \in {{s} : s \in Sources} \union {Sources} :
    /\ rows' = Without(rows, sources)
    /\ UNCHANGED marker

MigrateStep ==
  /\ ~marker
  /\ marker' = TRUE
  /\ rows' = IF rows = NoRows THEN LegacyRows ELSE rows

\* The committed table and marker change only by a save, a deletion or the commit
\* of an import.
LEMMA TableSteps ==
  ASSUME StoreInv, [Next]_vars
  PROVE  SaveStep \/ DeleteStep \/ MigrateStep \/ UNCHANGED <<rows, marker>>
  <1>0. TypeOK /\ ReadyInv /\ ImportInv
    BY DEF StoreInv, ReadyInv
  <1>1. ASSUME NEW c \in Callers, Save(c)
        PROVE  SaveStep \/ UNCHANGED <<rows, marker>>
    BY <1>0, <1>1 DEF Save, Execute, Goto, SaveStep, TypeOK, Calls
  <1>2. ASSUME NEW c \in Callers, Delete(c)
        PROVE  DeleteStep \/ UNCHANGED <<rows, marker>>
    <2>1. call[c].sources \in {{s} : s \in Sources} \union {Sources}
      BY <1>0, <1>2 DEF Delete, Execute, TypeOK, Calls
    <2>2. QED
      BY <1>2, <2>1 DEF Delete, Execute, DeleteStep
  <1>3. ASSUME NEW c \in Callers, CommitImport(c)
        PROVE  MigrateStep \/ UNCHANGED <<rows, marker>>
    <2>1. pc[c] = "commit" /\ rows' = tx.rows /\ marker' = tx.marker
      BY <1>3 DEF CommitImport, Goto
    <2>2. tx.marker = TRUE
      BY <1>0, <2>1 DEF ReadyInv, StepsDone, InTransaction, TypeOK, Transactions
    <2>3. \/ tx.rows = rows /\ (marker \/ rows /= NoRows)
          \/ ~marker /\ rows = NoRows /\ tx.rows = LegacyRows
      BY <1>0, <2>1 DEF ImportInv
    <2>4. marker \in BOOLEAN
      BY <1>0 DEF TypeOK
    <2>5. QED
      BY <2>1, <2>2, <2>3, <2>4 DEF MigrateStep
  <1>4. ASSUME NEW c \in Callers,
               \/ \E request \in Calls : Call(c, request)
               \/ CheckInitialized(c) \/ EnterGate(c) \/ Recheck(c)
               \/ CreateEventsTable(c) \/ CreateMetadataTable(c) \/ CheckColumn(c)
               \/ BeginImport(c) \/ EndOfLegacy(c) \/ MarkInitialized(c) \/ LeaveGate(c) \/ Search(c)
        PROVE  UNCHANGED <<rows, marker>>
    BY <1>4 DEF Call, CheckInitialized, EnterGate, Recheck, CreateEventsTable, CreateMetadataTable,
                CheckColumn, BeginImport, EndOfLegacy, MarkInitialized, LeaveGate, Search, Execute, database
  <1>5. ASSUME NEW c \in Callers,
               AddColumn(c) \/ DecideImport(c) \/ ImportLine(c) \/ LockTimeout(c) \/ Cancel(c)
        PROVE  UNCHANGED <<rows, marker>>
    BY <1>5 DEF AddColumn, DecideImport, ImportLine, LockTimeout, Cancel, FailInside, FailOutside,
                Rollback, database
  <1>6. ASSUME NEW p \in Procs, Restart(p)
        PROVE  UNCHANGED <<rows, marker>>
    BY <1>6 DEF Restart
  <1>7. CASE UNCHANGED vars
    BY <1>7 DEF vars
  <1>8. QED
    BY <1>1, <1>2, <1>3, <1>4, <1>5, <1>6, <1>7, NextCases

\* Once the import is recorded, only saving an event brings it back.
THEOREM DeletionIsPermanent == Spec => DeletedStaysDeleted
  <1>1. ASSUME StoreInv, [Next]_vars, NEW i \in Ids, marker, rows[i] = Absent, rows'[i] /= Absent
        PROVE  \E c \in Callers : pc[c] = "exec" /\ call[c].op = "save" /\ call[c].id = i
    <2>1. rows \in Rows
      BY <1>1 DEF StoreInv, ReadyInv, TypeOK
    <2>2. CASE SaveStep
      BY <1>1, <2>1, <2>2 DEF SaveStep, Rows
    <2>3. CASE DeleteStep
      BY <1>1, <2>3 DEF DeleteStep, Without
    <2>4. QED
      BY <1>1, <2>2, <2>3, TableSteps DEF MigrateStep
  <1>2. StoreInv /\ [Next]_vars => [RevivedBySaveOnly]_vars
    BY <1>1 DEF RevivedBySaveOnly
  <1>3. QED
    BY <1>2, StoreInvCorrect, PTL DEF Spec, DeletedStaysDeleted

\* The repository keeps the promise of IEventRepository, whatever is cancelled,
\* times out or crashes, and in whatever order the processes come up.
THEOREM StoreKeepsPromise == Spec => ImplementsEventStore
  <1>1. Init => Promise!Init
    BY TypeInit DEF Promise!Init, Promise!Rows, TypeOK, Rows
  <1>2. StoreInv /\ [Next]_vars => [Promise!Next]_(Promise!vars)
    <2> SUFFICES ASSUME StoreInv, [Next]_vars
                 PROVE  [Promise!Next]_(Promise!vars)
      OBVIOUS
    <2>1. CASE SaveStep
      BY <2>1 DEF SaveStep, Promise!Next, Promise!Save
    <2>2. CASE DeleteStep
      BY <2>2 DEF DeleteStep, Without, Promise!Next, Promise!Delete, Promise!Without
    <2>3. CASE MigrateStep
      BY <2>3 DEF MigrateStep, NoRows, Promise!Next, Promise!Migrate, Promise!NoRows
    <2>4. CASE UNCHANGED <<rows, marker>>
      BY <2>4 DEF Promise!vars
    <2>5. SaveStep \/ DeleteStep \/ MigrateStep \/ UNCHANGED <<rows, marker>>
      BY TableSteps
    <2>6. QED
      BY ONLY <2>1, <2>2, <2>3, <2>4, <2>5
  <1>3. QED
    BY <1>1, <1>2, StoreInvCorrect, PTL DEF Spec, ImplementsEventStore, Promise!Spec
=============================================================================
