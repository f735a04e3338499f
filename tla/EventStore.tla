----------------------------- MODULE EventStore -----------------------------
(***************************************************************************)
(* What IEventRepository promises to the hosts: a durable map from event   *)
(* identifiers to stored copies.  Saving replaces the copy of one event,   *)
(* deleting empties one source or all of them, and each is one step.       *)
(* A store may also take over a legacy JSON Lines file: once, as a whole,  *)
(* and only while it is empty.                                             *)
(***************************************************************************)

CONSTANTS
  Ids,        \* event identifiers (CanonicalEvent.Id)
  Copies,     \* the contents two saves of one event can differ by
  Sources,    \* source names (CanonicalEvent.SourceName)
  SourceOf,   \* [Ids -> Sources]: the identifier hashes the source name
  Absent,     \* not a copy: the event is not stored
  LegacyRows  \* what a complete import of the legacy files stores

VARIABLES
  rows,       \* the stored copy of every event, or Absent
  migrated    \* the legacy files have been dealt with

vars == <<rows, migrated>>

Rows == [Ids -> Copies \union {Absent}]

NoRows == [i \in Ids |-> Absent]

Without(table, sources) ==
  [i \in Ids |-> IF SourceOf[i] \in sources THEN Absent ELSE table[i]]

TypeOK ==
  /\ rows \in Rows
  /\ migrated \in BOOLEAN

Init ==
  /\ rows \in Rows
  /\ migrated \in BOOLEAN

Save ==
  \E i \in Ids, v \in Copies :
    /\ rows' = [rows EXCEPT ![i] = v]
    /\ UNCHANGED migrated

\* A null source name deletes every event.
Delete ==
  \E sources \in {{s} : s \in Sources} \union {Sources} :
    /\ rows' = Without(rows, sources)
    /\ UNCHANGED migrated

Migrate ==
  /\ ~migrated
  /\ migrated' = TRUE
  /\ rows' = IF rows = NoRows THEN LegacyRows ELSE rows

Next == Save \/ Delete \/ Migrate

Spec == Init /\ [][Next]_vars
=============================================================================
