----------------------------- MODULE TailReader -----------------------------
(***************************************************************************)
(* TailingFileConnector.ReadAsync, and a program that writes the log file  *)
(* it follows.  The reader polls: it opens the file, restarts from the     *)
(* beginning if the file is shorter than what it has read, reads what is   *)
(* there in chunks, and hands over every line whose newline it has seen.   *)
(* The writer appends line by line, but not atomically, and may truncate   *)
(* the file, delete it or replace it between two lines, at any moment of   *)
(* the reader's work.  The reader's state is lost when the worker restarts,*)
(* which it does only when somebody starts it again: a file that goes away *)
(* between File.Exists and its opening ends ReadAsync, and with it the     *)
(* worker's loop (Worker.cs:46 catches nothing but a FormatException).     *)
(*                                                                         *)
(* A line is two pieces of text and a newline, so that a torn or a merged  *)
(* line is not mistaken for a whole one.  Decoding is abstracted: a piece  *)
(* is never half a character.                                              *)
(***************************************************************************)
EXTENDS Naturals, Sequences

CONSTANTS
  MaxLines,     \* bound: the lines the writer writes
  BlankLines,   \* those that hold nothing but the newline
  MaxRead,      \* how many pieces one ReadAsync call may return
  MaxRemovals,  \* bound: truncations and deletions
  MaxCrashes,   \* bound: worker restarts that no failure asked for
  Gentle        \* environment: see Regrows

ASSUME BoundAssumption ==
  /\ MaxLines \in Nat
  /\ MaxRead \in Nat \ {0}
  /\ MaxRemovals \in Nat
  /\ MaxCrashes \in Nat
  /\ BlankLines \subseteq 1..MaxLines
  /\ Gentle \in BOOLEAN

VARIABLES
  \* The file and its writer.
  disk,      \* the pieces of the file at the path
  exists,    \* there is a file at the path
  next,      \* the piece the writer appends next
  removals,  \* truncations and deletions so far
  crashes,   \* worker restarts so far
  stale,     \* a removal that the reader has not reacted to yet
  \* The reader.
  pc,
  position,  \* how much of the file has been read
  pending,   \* the text read since the last newline
  chunk,     \* what the last read returned and is not handed over yet
  opened,    \* what the open stream reads: the file at the path, or a deleted one
  orphan,    \* the content of that deleted file
  emitted    \* the lines handed over since the worker started

fileVars   == <<disk, exists, next, removals, crashes, stale>>
readerVars == <<pc, position, pending, chunk, opened, orphan, emitted>>
vars       == <<disk, exists, next, removals, crashes, stale,
                pc, position, pending, chunk, opened, orphan, emitted>>

-----------------------------------------------------------------------------
(* Pieces and lines *)

Piece(l, part) == [line |-> l, part |-> part]
Pieces == [line : 1..MaxLines, part : {"head", "tail", "newline"}]

Text(l) == IF l \in BlankLines THEN <<>> ELSE <<Piece(l, "head"), Piece(l, "tail")>>

FirstPiece(l) == Piece(l, IF l \in BlankLines THEN "newline" ELSE "head")

After(piece) ==
  CASE piece.part = "head"    -> Piece(piece.line, "tail")
    [] piece.part = "tail"    -> Piece(piece.line, "newline")
    [] piece.part = "newline" -> FirstPiece(piece.line + 1)

\* The writer is between two lines.
AtLineStart == next = FirstPiece(next.line)

IsNewline(piece) == piece.part = "newline"

\* The lines that are complete in the file.
Complete == {disk[n].line : n \in {m \in 1..Len(disk) : IsNewline(disk[m])}}

Emitted == {emitted[n][1].line : n \in {m \in 1..Len(emitted) : emitted[m] /= <<>>}}

Init ==
  /\ disk = <<>>
  /\ exists = FALSE
  /\ next = FirstPiece(1)
  /\ removals = 0
  /\ crashes = 0
  /\ stale = FALSE
  /\ pc = "poll"
  /\ position = 0
  /\ pending = <<>>
  /\ chunk = <<>>
  /\ opened = "closed"
  /\ orphan = <<>>
  /\ emitted = <<>>

-----------------------------------------------------------------------------
(* The writer (external) *)

\* Environment assumption of the runs with Gentle: a file that was truncated or
\* replaced does not grow back to where the reader had got before the reader
\* has looked at it again.  Nothing in the code enforces it.
Regrows == Gentle /\ stale /\ Len(disk) + 1 >= position

Create ==
  /\ ~exists
  /\ exists' = TRUE
  /\ UNCHANGED <<disk, next, removals, crashes, stale, readerVars>>

Write ==
  /\ exists
  /\ next.line <= MaxLines
  /\ ~Regrows
  /\ disk' = Append(disk, next)
  /\ next' = After(next)
  /\ UNCHANGED <<exists, removals, crashes, stale, readerVars>>

Truncate ==
  /\ exists
  /\ AtLineStart
  /\ removals < MaxRemovals
  /\ removals' = removals + 1
  /\ disk' = <<>>
  /\ stale' = (stale \/ position > 0)
  /\ UNCHANGED <<exists, next, crashes, readerVars>>

\* A stream that is open keeps reading the deleted file (FileShare.Delete).
Remove ==
  /\ exists
  /\ AtLineStart
  /\ removals < MaxRemovals
  /\ removals' = removals + 1
  /\ disk' = <<>>
  /\ exists' = FALSE
  /\ stale' = (stale \/ position > 0 \/ opened = "path")
  /\ opened' = IF opened = "path" THEN "orphan" ELSE opened
  /\ orphan' = IF opened = "path" THEN disk ELSE orphan
  /\ UNCHANGED <<next, crashes, pc, position, pending, chunk, emitted>>

-----------------------------------------------------------------------------
(* ReadAsync *)

Content == IF opened = "orphan" THEN orphan ELSE disk

\* File.Exists
Poll ==
  /\ pc = "poll"
  /\ pc' = IF exists THEN "open" ELSE "delay"
  /\ UNCHANGED <<fileVars, position, pending, chunk, opened, orphan, emitted>>

Open_KeepsPending ==
  /\ pc = "open"
  /\ IF exists
     THEN /\ pc' = "read"
          /\ opened' = "path"
          /\ position' = IF Len(disk) < position THEN 0 ELSE position
          /\ stale' = (stale /\ Len(disk) >= position /\ position > 0)
          /\ UNCHANGED pending
     ELSE /\ pc' = "failed"
          /\ UNCHANGED <<opened, position, pending, stale>>
  /\ UNCHANGED <<disk, exists, next, removals, crashes, chunk, orphan, emitted>>

Open_AlwaysRestarts ==
  /\ pc = "open"
  /\ IF exists
     THEN /\ pc' = "read"
          /\ opened' = "path"
          /\ position' = 0
          /\ pending' = <<>>
          /\ stale' = FALSE
     ELSE /\ pc' = "failed"
          /\ UNCHANGED <<opened, position, pending, stale>>
  /\ UNCHANGED <<disk, exists, next, removals, crashes, chunk, orphan, emitted>>

Open_NeverRestarts ==
  /\ pc = "open"
  /\ IF exists
     THEN pc' = "read" /\ opened' = "path"
     ELSE pc' = "failed" /\ UNCHANGED opened
  /\ UNCHANGED <<fileVars, position, pending, chunk, orphan, emitted>>

\* Opening a file that went away since throws, and so does ReadAsync.  A file
\* shorter than what was read is read again from the beginning.
Open ==
  /\ pc = "open"
  /\ IF exists
     THEN /\ pc' = "read"
          /\ opened' = "path"
          /\ position' = IF Len(disk) < position THEN 0 ELSE position
          /\ pending' = IF Len(disk) < position THEN <<>> ELSE pending
          /\ stale' = (stale /\ Len(disk) >= position /\ position > 0)
     ELSE /\ pc' = "failed"
          /\ UNCHANGED <<opened, position, pending, stale>>
  /\ UNCHANGED <<disk, exists, next, removals, crashes, chunk, orphan, emitted>>

\* One ReadAsync call returns some of what follows the position.
ReadChunk ==
  /\ pc = "read"
  /\ \E n \in 1..MaxRead :
       /\ position + n <= Len(Content)
       /\ chunk' = SubSeq(Content, position + 1, position + n)
       /\ position' = position + n
  /\ pc' = "lines"
  /\ UNCHANGED <<fileVars, pending, opened, orphan, emitted>>

\* ReadAsync returns nothing: the stream is disposed and the reader waits.
EndOfFile ==
  /\ pc = "read"
  /\ position >= Len(Content)
  /\ pc' = "delay"
  /\ opened' = "closed"
  /\ orphan' = <<>>
  /\ UNCHANGED <<fileVars, position, pending, chunk, emitted>>

\* The chunk holds a newline: the line is handed over unless it is blank, and
\* the consumer stores it before the reader goes on.
HandOver ==
  /\ pc = "lines"
  /\ \E n \in 1..Len(chunk) :
       /\ IsNewline(chunk[n])
       /\ \A m \in 1..(n - 1) : ~IsNewline(chunk[m])
       /\ LET line == pending \o SubSeq(chunk, 1, n - 1)
          IN  emitted' = IF line = <<>> THEN emitted ELSE Append(emitted, line)
       /\ chunk' = SubSeq(chunk, n + 1, Len(chunk))
  /\ pending' = <<>>
  /\ UNCHANGED <<fileVars, pc, position, opened, orphan>>

\* The rest of the chunk is the beginning of a line.
KeepRest ==
  /\ pc = "lines"
  /\ \A n \in 1..Len(chunk) : ~IsNewline(chunk[n])
  /\ pending' = pending \o chunk
  /\ chunk' = <<>>
  /\ pc' = "read"
  /\ UNCHANGED <<fileVars, position, opened, orphan, emitted>>

Delay ==
  /\ pc = "delay"
  /\ pc' = "poll"
  /\ UNCHANGED <<fileVars, position, pending, chunk, opened, orphan, emitted>>

\* The worker is started again, after a failure or after it was stopped or killed.
\* Nothing in the repository does that: it may happen, and it may never happen.
\* A new enumerator starts at the beginning of the file.
Restart ==
  /\ \/ pc = "failed" /\ UNCHANGED crashes
     \/ pc /= "failed" /\ crashes < MaxCrashes /\ crashes' = crashes + 1
  /\ pc' = "poll"
  /\ position' = 0
  /\ pending' = <<>>
  /\ chunk' = <<>>
  /\ opened' = "closed"
  /\ orphan' = <<>>
  /\ emitted' = <<>>
  /\ stale' = FALSE
  /\ UNCHANGED <<disk, exists, next, removals>>

-----------------------------------------------------------------------------
Reader == Poll \/ Open \/ ReadChunk \/ EndOfFile \/ HandOver \/ KeepRest \/ Delay

Next == Create \/ Write \/ Truncate \/ Remove \/ Reader \/ Restart

Spec == Init /\ [][Next]_vars

\* The poll loop keeps running as long as the worker does.  Nobody has to start
\* a worker that failed again.
FairSpec == Spec /\ WF_vars(Reader)

-----------------------------------------------------------------------------
(* Properties *)

\* TailingFileConnector.cs:12: "A line is emitted only once its newline is
\* written, so partially written lines are never split."  Every line handed over
\* is one that was written, with neither a piece missing nor of another line.
WholeLines == \A n \in 1..Len(emitted) : \E l \in 1..MaxLines : emitted[n] = Text(l)

\* Over any sequence of chunks, polls, truncations and replacements, lines
\* arrive once and in the order they were written, and the reader never overtakes
\* a line: those that stand before it in the file have been handed over.  (A
\* restarted worker starts over; without Gentle, lines are overtaken.)
NoneOvertaken ==
  /\ \A m, n \in 1..Len(emitted) : m < n => emitted[m][1].line < emitted[n][1].line
  /\ \A l \in Emitted \intersect Complete :
       \A k \in Complete \ BlankLines : k < l => k \in Emitted

\* A complete line that is neither truncated nor deleted is handed over, even
\* when the reader was in the middle of another version of the file, unless the
\* reader is gone for good: "If the file is missing, the connector waits for it"
\* (TailingFileConnector.cs:13), but a file that is removed between File.Exists
\* (line 37) and its opening (line 39) ends ReadAsync, whatever is written later.
EveryLineRead ==
  \A l \in (1..MaxLines) \ BlankLines :
    <>[](l \in Complete) => <>[](l \in Emitted \/ pc = "failed")
=============================================================================
