--------------------------- MODULE JsonLinesStore ---------------------------
(***************************************************************************)
(* JsonLinesEventRepository: one process keeps the events in a text file,  *)
(* one JSON object per line, and lets one call at a time touch it.  Saving *)
(* serializes the object and then the newline into a buffered stream;      *)
(* deleting rewrites the file beside it and moves it into place.  Calls    *)
(* can be cancelled at every await and the process can be killed.          *)
(*                                                                         *)
(* The file is a sequence of pieces: whole objects, newlines, and torn     *)
(* objects that a kill or a cancellation can leave.                        *)
(***************************************************************************)
EXTENDS Naturals, Sequences

CONSTANTS
  Callers,     \* concurrent calls of the one repository instance
  Ids, Copies, Sources, SourceOf, Absent,  \* as in EventStore
  NoCaller,    \* nobody holds the gate
  Interrupts,  \* what may hit an append half way: "cancel" between object and
               \* newline, "cut" inside a large object, "kill"
  MaxPieces    \* bound: a save is only begun while the file is shorter

ASSUME SourceAssumption == SourceOf \in [Ids -> Sources]
ASSUME AbsentAssumption == Absent \notin Copies
ASSUME NoCallerAssumption == NoCaller \notin Callers
ASSUME InterruptAssumption == Interrupts \subseteq {"cancel", "cut", "kill"}
ASSUME BoundAssumption == MaxPieces \in Nat

VARIABLES
  file,   \* the file at _path
  gate,   \* the caller inside _gate
  pc,     \* the next step of each caller
  call,   \* what the call was asked to do
  kept    \* the lines a deletion is about to write back

vars == <<file, gate, pc, call, kept>>

-----------------------------------------------------------------------------
(* The file *)

Events == [kind : {"object"}, id : Ids, copy : Copies]
Object(i, v) == [kind |-> "object", id |-> i, copy |-> v]
Newline == [kind |-> "newline"]
Torn == [kind |-> "torn"]
Pieces == Events \union {Newline, Torn}

\* Every line can be deserialized: it is empty or one whole object.  The last
\* object may lack its newline.
Readable(text) ==
  \A n \in 1..Len(text) :
    /\ text[n] /= Torn
    /\ (n < Len(text) /\ text[n] /= Newline) => text[n + 1] = Newline

Occurrences(text, i) == {n \in 1..Len(text) : text[n].kind = "object" /\ text[n].id = i}

\* SearchAsync keeps the latest copy of every event.
Stored(text) ==
  [i \in Ids |->
     IF Occurrences(text, i) = {} THEN Absent
     ELSE text[CHOOSE n \in Occurrences(text, i) :
                 \A m \in Occurrences(text, i) : m <= n].copy]

\* File.WriteAllLinesAsync: every line gets a newline, the last one too.
AsLines(objects) ==
  [n \in 1..(2 * Len(objects)) |-> IF n % 2 = 1 THEN objects[(n + 1) \div 2] ELSE Newline]

\* What a deletion keeps, collected line by line.
Remaining(text, sources) ==
  LET Keeps(piece) == piece.kind = "object" /\ SourceOf[piece.id] \notin sources
      upTo[n \in 0..Len(text)] ==
        IF n = 0 THEN <<>>
        ELSE IF Keeps(text[n]) THEN Append(upTo[n - 1], text[n])
        ELSE upTo[n - 1]
  IN  upTo[Len(text)]

-----------------------------------------------------------------------------
Calls ==
  [op : {"save"}, id : Ids, copy : Copies]
    \union [op : {"delete"}, sources : {{s} : s \in Sources} \union {Sources}]
    \union [op : {"search"}]

Appending == {"newline", "close"}

InsideGate == {"start", "replace", "release"} \union Appending

Goto(c, from, to) ==
  /\ pc[c] = from
  /\ pc' = [pc EXCEPT ![c] = to]

Init ==
  /\ file = <<>>
  /\ gate = NoCaller
  /\ pc = [c \in Callers |-> "idle"]
  /\ call = [c \in Callers |-> [op |-> "search"]]
  /\ kept = <<>>

-----------------------------------------------------------------------------
(* The calls *)

Call(c, request) ==
  /\ Goto(c, "idle", "gate")
  /\ request.op = "save" => Len(file) < MaxPieces
  /\ call' = [call EXCEPT ![c] = request]
  /\ UNCHANGED <<file, gate, kept>>

EnterGate(c) ==
  /\ Goto(c, "gate", "start")
  /\ gate = NoCaller
  /\ gate' = c
  /\ UNCHANGED <<file, call, kept>>

\* JsonSerializer.SerializeAsync has begun.  The object waits in the stream's
\* buffer, or a first part of it when it is larger than the buffer.
Serialize(c) ==
  /\ call[c].op = "save"
  /\ Goto(c, "start", "newline")
  /\ UNCHANGED <<file, gate, call, kept>>

WriteNewline(c) ==
  /\ Goto(c, "newline", "close")
  /\ UNCHANGED <<file, gate, call, kept>>

\* Disposing the stream writes its buffer to the end of the file.
Close_Overwrites(c) ==
  /\ Goto(c, "close", "release")
  /\ file' = <<Object(call[c].id, call[c].copy), Newline>>
  /\ UNCHANGED <<gate, call, kept>>

Close_NoNewline(c) ==
  /\ Goto(c, "close", "release")
  /\ file' = Append(file, Object(call[c].id, call[c].copy))
  /\ UNCHANGED <<gate, call, kept>>

Close(c) ==
  /\ Goto(c, "close", "release")
  /\ file' = file \o <<Object(call[c].id, call[c].copy), Newline>>
  /\ UNCHANGED <<gate, call, kept>>

\* A search reads every line; it, and a deletion, throw on a line that is not
\* one object.  What a search returns is Stored(file).
Search(c) ==
  /\ call[c].op = "search"
  /\ Goto(c, "start", "release")
  /\ UNCHANGED <<file, gate, call, kept>>

Scan_SkipsUnreadable(c) ==
  /\ call[c].op = "delete"
  /\ LET remaining == Remaining(file, call[c].sources)
         matches == \E i \in Ids : SourceOf[i] \in call[c].sources /\ Occurrences(file, i) /= {}
     IN  IF matches
         THEN Goto(c, "start", "replace") /\ kept' = remaining
         ELSE Goto(c, "start", "release") /\ UNCHANGED kept
  /\ UNCHANGED <<file, gate, call>>

\* A deletion that matches nothing leaves the file as it is.
Scan(c) ==
  /\ call[c].op = "delete"
  /\ LET remaining == Remaining(file, call[c].sources)
         matches == \E i \in Ids : SourceOf[i] \in call[c].sources /\ Occurrences(file, i) /= {}
     IN  IF Readable(file) /\ matches
         THEN Goto(c, "start", "replace") /\ kept' = remaining
         ELSE Goto(c, "start", "release") /\ UNCHANGED kept
  /\ UNCHANGED <<file, gate, call>>

\* The temporary file is complete when it is moved over the old one; a
\* cancellation or a kill before that leaves the old one.
Replace(c) ==
  /\ Goto(c, "replace", "release")
  /\ file' = AsLines(kept)
  /\ kept' = <<>>
  /\ UNCHANGED <<gate, call>>

LeaveGate_WhenSaved(c) ==
  /\ Goto(c, "release", "idle")
  /\ gate' = IF call[c].op = "save" THEN NoCaller ELSE gate
  /\ UNCHANGED <<file, call, kept>>

LeaveGate(c) ==
  /\ Goto(c, "release", "idle")
  /\ gate' = NoCaller
  /\ UNCHANGED <<file, call, kept>>

-----------------------------------------------------------------------------
(* Cancellations and kills *)

\* The wait for the gate is outside the try block.
CancelWait(c) ==
  /\ Goto(c, "gate", "idle")
  /\ UNCHANGED <<file, gate, call, kept>>

Cancel(c) ==
  /\ \/ Goto(c, "start", "release")
     \/ Goto(c, "replace", "release")
  /\ kept' = <<>>
  /\ UNCHANGED <<file, gate, call>>

\* Cancelled between the object and its newline, or between two parts of a large
\* object: the stream is disposed all the same, and so writes what it was given.
CancelAppend(c) ==
  /\ Goto(c, "newline", "release")
  /\ \/ "cancel" \in Interrupts /\ file' = Append(file, Object(call[c].id, call[c].copy))
     \/ "cut" \in Interrupts /\ file' = file \o <<Torn>>
  /\ UNCHANGED <<gate, call, kept>>

\* What can be in the file when a process is killed while it appends.
Leftovers(c) ==
  LET object == Object(call[c].id, call[c].copy)
  IN  {<<>>, <<Torn>>, <<object>>, <<object, Newline>>}

\* The process is killed and starts again, with a new repository.
Restart ==
  /\ LET appending == {c \in Callers : pc[c] \in Appending} IN
       \/ appending = {} /\ UNCHANGED file
       \/ /\ "kill" \in Interrupts
          /\ \E c \in appending : \E left \in Leftovers(c) : file' = file \o left
  /\ gate' = NoCaller
  /\ pc' = [c \in Callers |-> "idle"]
  /\ kept' = <<>>
  /\ UNCHANGED call

-----------------------------------------------------------------------------
Advance(c) ==
  \/ EnterGate(c) \/ Serialize(c) \/ WriteNewline(c) \/ Close(c)
  \/ Search(c) \/ Scan(c) \/ Replace(c) \/ LeaveGate(c)

Next ==
  \/ \E c \in Callers : \E request \in Calls : Call(c, request)
  \/ \E c \in Callers : Advance(c) \/ CancelWait(c) \/ Cancel(c) \/ CancelAppend(c)
  \/ Restart

Spec == Init /\ [][Next]_vars

\* Started calls keep running, and SemaphoreSlim hands the gate over in turn.
FairSpec == Spec /\ \A c \in Callers : WF_vars(Advance(c)) /\ SF_vars(EnterGate(c))

-----------------------------------------------------------------------------
(* Properties *)

\* JsonLinesEventRepository.cs:7: "Stores canonical events as one JSON object
\* per line."
OneObjectPerLine == Readable(file)

\* The appended copies and the rewritten file are one durable map of events: the
\* latest copy counts, and a deletion takes every copy of an event in one step.
\* (It is the map a search returns while OneObjectPerLine holds; an interrupted
\* append can leave a line that makes every search fail.)
Promise == INSTANCE EventStore
  WITH rows <- Stored(file), migrated <- TRUE, LegacyRows <- [i \in Ids |-> Absent]
ImplementsEventStore == Promise!Spec

\* Whatever is interrupted, text once in the file is only removed by a deletion,
\* and a deletion removes whole events it was asked to: it never drops a line
\* that it could not read, nor an event of another source.
Removes(c, before, after) ==
  /\ pc[c] = "replace"
  /\ \A i \in Ids : SourceOf[i] \notin call[c].sources => Stored(after)[i] = Stored(before)[i]
  /\ \A n \in 1..Len(before) : before[n] /= Torn

TextSurvives ==
  [][ \/ Len(file') >= Len(file) /\ SubSeq(file', 1, Len(file)) = file
      \/ \E c \in Callers : Removes(c, file, file') ]_vars

\* Every call returns or throws.
EveryCallEnds == \A c \in Callers : pc[c] /= "idle" ~> pc[c] = "idle"
=============================================================================
