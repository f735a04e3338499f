----------------------------- MODULE SqliteStore ----------------------------
(***************************************************************************)
(* SqliteEventRepository: calls of SaveAsync, SearchAsync and DeleteAsync  *)
(* made concurrently inside several processes (the API and the worker)     *)
(* that share one database file.  The first call of a process prepares the *)
(* database behind the process's initialization gate: it creates the       *)
(* tables, adds the column an older database lacks, and imports the legacy *)
(* JSON Lines files in one transaction.  Calls can be cancelled at every   *)
(* await, lock waits can time out, and a process can die and come back     *)
(* between any two steps.                                                  *)
(*                                                                         *)
(* SQLite itself (not under src/) is modelled by what this code relies on: *)
(* a statement outside a transaction is atomic and durable, one connection *)
(* at a time holds the write lock, and readers see committed data (WAL).   *)
(***************************************************************************)
EXTENDS Naturals, Sequences

CONSTANTS
  Procs,      \* operating system processes that open the database
  Callers,    \* concurrent calls; a caller makes one call after another
  ProcOf,     \* [Callers -> Procs]: the process a caller runs in
  Migrating,  \* processes configured with legacy JSON Lines paths
  Ids, Copies, Sources, SourceOf, Absent,  \* as in EventStore
  Legacy,     \* the lines of the existing legacy files, in path order
  Schemas,    \* the states of the database file the system can start from
  NoCaller    \* nobody holds the gate, or the write lock

LegacyLines ==
  [kind : {"event"}, id : Ids, copy : Copies]
    \union [kind : {"blank", "corrupt"}]

ASSUME ProcAssumption == ProcOf \in [Callers -> Procs] /\ Migrating \subseteq Procs
ASSUME SourceAssumption == SourceOf \in [Ids -> Sources]
ASSUME AbsentAssumption == Absent \notin Copies
ASSUME LegacyAssumption == Legacy \in Seq(LegacyLines)
ASSUME SchemaAssumption == Schemas \subseteq {"none", "old", "current"}
ASSUME NoCallerAssumption == NoCaller \notin Callers

VARIABLES
  \* The database file, shared and durable.
  schema,       \* "none": no event table; "old": it lacks the Attributes column
  metadata,     \* the StorageMetadata table exists
  rows,         \* the event table
  marker,       \* StorageMetadata holds the key LegacyJsonLinesImported
  writer,       \* the caller whose open transaction holds the write lock
  tx,           \* the uncommitted image of that transaction
  \* One SqliteEventRepository per process, in memory.
  initialized,  \* _initialized
  gate,         \* the caller inside _initializationGate
  \* The calls.
  pc,           \* the next step of each caller
  call,         \* what the call was asked to do
  error         \* how the call is failing, or "none"

database == <<schema, metadata, rows, marker, writer, tx>>
process  == <<initialized, gate>>
vars == <<schema, metadata, rows, marker, writer, tx, initialized, gate, pc, call, error>>

-----------------------------------------------------------------------------
(* Data *)

Rows == [Ids -> Copies \union {Absent}]
NoRows == [i \in Ids |-> Absent]

Without(table, sources) ==
  [i \in Ids |-> IF SourceOf[i] \in sources THEN Absent ELSE table[i]]

Calls ==
  [op : {"save"}, id : Ids, copy : Copies]
    \union [op : {"delete"}, sources : {{s} : s \in Sources} \union {Sources}]
    \union [op : {"search"}]

Transactions == [rows : Rows, marker : BOOLEAN, next : Nat \ {0}]
NoTransaction == [rows |-> NoRows, marker |-> FALSE, next |-> 1]

\* INSERT OR IGNORE over all the lines keeps the first copy of every event.
LinesOf(i) == {n \in 1..Len(Legacy) : Legacy[n].kind = "event" /\ Legacy[n].id = i}

FirstLineOf(i) == CHOOSE n \in LinesOf(i) : \A m \in LinesOf(i) : n <= m

LegacyRows ==
  [i \in Ids |-> IF LinesOf(i) = {} THEN Absent ELSE Legacy[FirstLineOf(i)].copy]

-----------------------------------------------------------------------------
(* Where a call stands *)

Preparing == {"events", "metadata", "column", "alter", "begin", "decide", "lines", "commit"}

InTransaction == {"decide", "lines", "commit"}

InsideGate == {"recheck", "mark", "release"} \union Preparing

Steps == {"idle", "check", "gate", "exec"} \union InsideGate

Goto(c, from, to) ==
  /\ pc[c] = from
  /\ pc' = [pc EXCEPT ![c] = to]

MayWrite(c) == writer \in {NoCaller, c}

\* Disposing the transaction rolls it back when the call fails inside it.
Rollback(c) ==
  /\ writer' = IF writer = c THEN NoCaller ELSE writer
  /\ tx' = IF writer = c THEN NoTransaction ELSE tx
  /\ UNCHANGED <<schema, metadata, rows, marker>>

FailInside_NoFinally(c, why) ==
  /\ pc' = [pc EXCEPT ![c] = "idle"]
  /\ error' = [error EXCEPT ![c] = why]
  /\ Rollback(c)
  /\ UNCHANGED <<process, call>>

\* An exception inside the gate leaves through the finally block.
FailInside(c, why) ==
  /\ pc' = [pc EXCEPT ![c] = "release"]
  /\ error' = [error EXCEPT ![c] = why]
  /\ Rollback(c)
  /\ UNCHANGED <<process, call>>

FailOutside(c, why) ==
  /\ pc' = [pc EXCEPT ![c] = "idle"]
  /\ error' = [error EXCEPT ![c] = why]
  /\ UNCHANGED <<database, process, call>>

TypeOK ==
  /\ schema \in {"none", "old", "current"}
  /\ metadata \in BOOLEAN
  /\ rows \in Rows
  /\ marker \in BOOLEAN
  /\ writer \in Callers \union {NoCaller}
  /\ tx \in Transactions
  /\ initialized \in [Procs -> BOOLEAN]
  /\ gate \in [Procs -> Callers \union {NoCaller}]
  /\ pc \in [Callers -> Steps]
  /\ call \in [Callers -> Calls]
  /\ error \in [Callers -> {"none", "failed", "noSuchTable", "duplicateColumn"}]

\* A file an earlier run left: no tables, tables of a release that had no
\* Attributes column (and maybe no metadata table), or current tables.
Init ==
  /\ schema \in Schemas
  /\ rows \in Rows
  /\ schema = "none" => rows = NoRows
  /\ metadata \in BOOLEAN
  /\ schema = "none" => ~metadata
  /\ schema = "current" => metadata
  /\ marker \in BOOLEAN
  /\ marker => metadata
  /\ writer = NoCaller
  /\ tx = NoTransaction
  /\ initialized = [p \in Procs |-> FALSE]
  /\ gate = [p \in Procs |-> NoCaller]
  /\ pc = [c \in Callers |-> "idle"]
  /\ call = [c \in Callers |-> [op |-> "search"]]
  /\ error = [c \in Callers |-> "none"]

-----------------------------------------------------------------------------
(* EnsureInitializedAsync *)

\* SaveAsync, SearchAsync or DeleteAsync is called.
Call(c, request) ==
  /\ Goto(c, "idle", "check")
  /\ call' = [call EXCEPT ![c] = request]
  /\ error' = [error EXCEPT ![c] = "none"]
  /\ UNCHANGED <<database, process>>

\* The unlocked read of the volatile _initialized.
CheckInitialized(c) ==
  /\ Goto(c, "check", IF initialized[ProcOf[c]] THEN "exec" ELSE "gate")
  /\ UNCHANGED <<database, process, call, error>>

EnterGate(c) ==
  /\ Goto(c, "gate", "recheck")
  /\ gate[ProcOf[c]] = NoCaller
  /\ gate' = [gate EXCEPT ![ProcOf[c]] = c]
  /\ UNCHANGED <<database, initialized, call, error>>

Recheck(c) ==
  /\ Goto(c, "recheck", IF initialized[ProcOf[c]] THEN "release" ELSE "events")
  /\ UNCHANGED <<database, process, call, error>>

\* The tables exist before any transaction is open, so no statement up to the
\* ALTER TABLE ever waits for the write lock.

\* CREATE TABLE IF NOT EXISTS CanonicalEvents, with its index.
CreateEventsTable(c) ==
  /\ Goto(c, "events", "metadata")
  /\ schema' = IF schema = "none" THEN "current" ELSE schema
  /\ UNCHANGED <<metadata, rows, marker, writer, tx, process, call, error>>

\* CREATE TABLE IF NOT EXISTS StorageMetadata: the same command text, but a
\* statement and an automatic commit of its own.
CreateMetadataTable(c) ==
  /\ Goto(c, "metadata", "column")
  /\ metadata' = TRUE
  /\ UNCHANGED <<schema, rows, marker, writer, tx, process, call, error>>

CheckColumn_AssumesPresent(c) ==
  /\ Goto(c, "column", "begin")
  /\ UNCHANGED <<database, process, call, error>>

CheckColumn(c) ==
  /\ Goto(c, "column", IF schema = "current" THEN "begin" ELSE "alter")
  /\ UNCHANGED <<database, process, call, error>>

\* ALTER TABLE ADD COLUMN: another process may have added it since the check.
AddColumn(c) ==
  /\ pc[c] = "alter"
  /\ IF schema = "old"
     THEN /\ schema' = "current"
          /\ pc' = [pc EXCEPT ![c] = "begin"]
          /\ UNCHANGED <<metadata, rows, marker, writer, tx, process, call, error>>
     ELSE FailInside(c, IF schema = "current" THEN "duplicateColumn" ELSE "noSuchTable")

-----------------------------------------------------------------------------
(* ImportLegacyJsonLinesIfEmptyAsync *)

\* Without legacy paths there is nothing to do; otherwise BEGIN IMMEDIATE.
BeginImport(c) ==
  \/ /\ ProcOf[c] \notin Migrating
     /\ Goto(c, "begin", "mark")
     /\ UNCHANGED <<database, process, call, error>>
  \/ /\ ProcOf[c] \in Migrating
     /\ writer = NoCaller
     /\ Goto(c, "begin", "decide")
     /\ writer' = c
     /\ tx' = [rows |-> rows, marker |-> marker, next |-> 1]
     /\ UNCHANGED <<schema, metadata, rows, marker, process, call, error>>

DecideImport_IgnoresMarker(c) ==
  /\ pc[c] = "decide"
  /\ IF schema = "none" \/ ~metadata
     THEN FailInside(c, "noSuchTable")
     ELSE /\ pc' = [pc EXCEPT ![c] = IF tx.rows /= NoRows THEN "commit" ELSE "lines"]
          /\ tx' = [tx EXCEPT !.marker = TRUE]
          /\ UNCHANGED <<schema, metadata, rows, marker, writer, process, call, error>>

DecideImport_IgnoresEvents(c) ==
  /\ pc[c] = "decide"
  /\ IF schema = "none" \/ ~metadata
     THEN FailInside(c, "noSuchTable")
     ELSE /\ pc' = [pc EXCEPT ![c] = IF tx.marker THEN "commit" ELSE "lines"]
          /\ tx' = [tx EXCEPT !.marker = TRUE]
          /\ UNCHANGED <<schema, metadata, rows, marker, writer, process, call, error>>

\* The marker is written either way; the lines only when there was neither a
\* marker nor an event.
DecideImport(c) ==
  /\ pc[c] = "decide"
  /\ IF schema = "none" \/ ~metadata
     THEN FailInside(c, "noSuchTable")
     ELSE /\ pc' = [pc EXCEPT ![c] = IF tx.marker \/ tx.rows /= NoRows THEN "commit" ELSE "lines"]
          /\ tx' = [tx EXCEPT !.marker = TRUE]
          /\ UNCHANGED <<schema, metadata, rows, marker, writer, process, call, error>>

InsertOrIgnore_WholeLine(table, line) ==
  IF table[line.id] = Absent THEN [table EXCEPT ![line.id] = line] ELSE table

\* INSERT OR IGNORE: an event already in the table keeps its first copy.
InsertOrIgnore(table, line) ==
  IF table[line.id] = Absent THEN [table EXCEPT ![line.id] = line.copy] ELSE table

\* One line of the legacy files; a line that is not an event fails the import.
ImportLine(c) ==
  /\ pc[c] = "lines"
  /\ tx.next <= Len(Legacy)
  /\ LET line == Legacy[tx.next] IN
       \/ /\ line.kind = "event"
          /\ IF schema /= "current"
             THEN FailInside(c, "noSuchTable")
             ELSE /\ tx' = [tx EXCEPT !.rows = InsertOrIgnore(tx.rows, line), !.next = @ + 1]
                  /\ UNCHANGED <<schema, metadata, rows, marker, writer, process, pc, call, error>>
       \/ /\ line.kind = "blank"
          /\ tx' = [tx EXCEPT !.next = @ + 1]
          /\ UNCHANGED <<schema, metadata, rows, marker, writer, process, pc, call, error>>
       \/ /\ line.kind = "corrupt"
          /\ FailInside(c, "failed")

EndOfLegacy(c) ==
  /\ tx.next > Len(Legacy)
  /\ Goto(c, "lines", "commit")
  /\ UNCHANGED <<database, process, call, error>>

CommitImport(c) ==
  /\ Goto(c, "commit", "mark")
  /\ rows' = tx.rows
  /\ marker' = tx.marker
  /\ writer' = NoCaller
  /\ tx' = NoTransaction
  /\ UNCHANGED <<schema, metadata, process, call, error>>

MarkInitialized(c) ==
  /\ Goto(c, "mark", "release")
  /\ initialized' = [initialized EXCEPT ![ProcOf[c]] = TRUE]
  /\ UNCHANGED <<database, gate, call, error>>

LeaveGate_MarksFailures(c) ==
  /\ Goto(c, "release", IF error[c] = "none" THEN "exec" ELSE "idle")
  /\ gate' = [gate EXCEPT ![ProcOf[c]] = NoCaller]
  /\ initialized' = [initialized EXCEPT ![ProcOf[c]] = TRUE]
  /\ UNCHANGED <<database, call, error>>

\* The finally block; a call that failed inside the gate ends here.
LeaveGate(c) ==
  /\ Goto(c, "release", IF error[c] = "none" THEN "exec" ELSE "idle")
  /\ gate' = [gate EXCEPT ![ProcOf[c]] = NoCaller]
  /\ UNCHANGED <<database, initialized, call, error>>

-----------------------------------------------------------------------------
(* The statement the call was made for, in an automatic transaction *)

\* A statement that names a missing table or column fails.
Execute(c, op) ==
  /\ Goto(c, "exec", "idle")
  /\ call[c].op = op
  /\ UNCHANGED <<schema, metadata, marker, writer, tx, process, call>>

Save(c) ==
  /\ Execute(c, "save")
  /\ MayWrite(c)
  /\ IF schema = "current"
     THEN /\ rows' = [rows EXCEPT ![call[c].id] = call[c].copy]
          /\ UNCHANGED error
     ELSE /\ error' = [error EXCEPT ![c] = "noSuchTable"]
          /\ UNCHANGED rows

Delete(c) ==
  /\ Execute(c, "delete")
  /\ MayWrite(c)
  /\ IF schema /= "none"
     THEN /\ rows' = Without(rows, call[c].sources)
          /\ UNCHANGED error
     ELSE /\ error' = [error EXCEPT ![c] = "noSuchTable"]
          /\ UNCHANGED rows

\* What the search returns is the committed table; no property needs it kept.
Search(c) ==
  /\ Execute(c, "search")
  /\ error' = [error EXCEPT ![c] = IF schema = "current" THEN "none" ELSE "noSuchTable"]
  /\ UNCHANGED rows

-----------------------------------------------------------------------------
(* Cancellation, lock timeouts, crashes *)

\* The token is cancelled: the wait for the gate is outside the try block,
\* everything after it inside.
Cancel(c) ==
  \/ pc[c] \in {"gate", "exec"} /\ FailOutside(c, "failed")
  \/ pc[c] \in Preparing /\ FailInside(c, "failed")

\* DefaultTimeout = 30: the write lock was not obtained in time.
LockTimeout(c) ==
  /\ ~MayWrite(c)
  /\ \/ pc[c] = "begin" /\ ProcOf[c] \in Migrating /\ FailInside(c, "failed")
     \/ /\ pc[c] = "exec"
        /\ call[c].op /= "search"
        /\ FailOutside(c, "failed")

\* A process dies and starts again: its calls are gone, SQLite discards its
\* open transaction, and its repository is new.
Restart(p) ==
  LET gone == {c \in Callers : ProcOf[c] = p} IN
  /\ pc' = [c \in Callers |-> IF c \in gone THEN "idle" ELSE pc[c]]
  /\ error' = [c \in Callers |-> IF c \in gone THEN "none" ELSE error[c]]
  /\ initialized' = [initialized EXCEPT ![p] = FALSE]
  /\ gate' = [gate EXCEPT ![p] = NoCaller]
  /\ writer' = IF writer \in gone THEN NoCaller ELSE writer
  /\ tx' = IF writer \in gone THEN NoTransaction ELSE tx
  /\ UNCHANGED <<schema, metadata, rows, marker, call>>

-----------------------------------------------------------------------------
\* What a call does once it has been made.
Prepare(c) ==
  \/ CheckInitialized(c) \/ EnterGate(c) \/ Recheck(c)
  \/ CreateEventsTable(c) \/ CreateMetadataTable(c)
  \/ CheckColumn(c) \/ AddColumn(c)
  \/ BeginImport(c) \/ DecideImport(c) \/ ImportLine(c) \/ EndOfLegacy(c) \/ CommitImport(c)
  \/ MarkInitialized(c) \/ LeaveGate(c)

Advance(c) == Prepare(c) \/ Save(c) \/ Delete(c) \/ Search(c) \/ LockTimeout(c)

Next ==
  \/ \E c \in Callers : \E request \in Calls : Call(c, request)
  \/ \E c \in Callers : Advance(c) \/ Cancel(c)
  \/ \E p \in Procs : Restart(p)

Spec == Init /\ [][Next]_vars

\* Started calls keep running (the thread pool is fair), and SemaphoreSlim hands
\* the gate to its waiters in turn.  Nothing makes a call be made or cancelled.
Fairness ==
  \A c \in Callers : WF_vars(Advance(c)) /\ SF_vars(EnterGate(c))

FairSpec == Spec /\ Fairness

-----------------------------------------------------------------------------
(* Properties *)

\* The initialization gate has exactly one holder while a call of the process
\* is between WaitAsync and Release, and none otherwise: no exception or
\* cancellation leaks it, and no second caller prepares the database meanwhile.
GateExclusive ==
  \A c \in Callers : pc[c] \in InsideGate <=> gate[ProcOf[c]] = c

\* _initialized is only set once everything the statements rely on is durable,
\* whatever failed, was cancelled or crashed before: the current tables, and
\* the import marker when this process has legacy files to import.
InitializedMeansReady ==
  \A p \in Procs : initialized[p] =>
    /\ schema = "current"
    /\ metadata
    /\ p \in Migrating => marker

\* No statement ever names a table or column that is not there, although each
\* process only looked at the schema once, and behind its own gate.
NoMissingTable == \A c \in Callers : error[c] /= "noSuchTable"

\* README.md:63: "Deletion is permanent, and the one-time JSON Lines import does
\* not run again after a database has been emptied."  Once the import is
\* recorded, an event that is not stored comes back only by saving it.
RevivedBySaveOnly ==
  \A i \in Ids :
    marker /\ rows[i] = Absent /\ rows'[i] /= Absent =>
      \E c \in Callers : pc[c] = "exec" /\ call[c].op = "save" /\ call[c].id = i

DeletedStaysDeleted == [][RevivedBySaveOnly]_vars

\* The repository implements IEventRepository: with all its steps, lock waits,
\* failures and crashes, the committed table changes only by whole saves, whole
\* deletions, and one complete import into an empty store.
Promise == INSTANCE EventStore WITH migrated <- marker
ImplementsEventStore == Promise!Spec

\* Every call returns or throws: nobody waits for the gate for ever.
EveryCallEnds == \A c \in Callers : pc[c] /= "idle" ~> pc[c] = "idle"

\* CHANGELOG.md:13: the Attributes column is "added automatically to existing
\* databases"; README.md:67: "the API and worker can access the development
\* database concurrently."  So opening a database never fails on its schema.
UpgradeSucceeds == \A c \in Callers : error[c] /= "duplicateColumn"
=============================================================================
