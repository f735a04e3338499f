-------------------------- MODULE TailReader_proofs --------------------------
(***************************************************************************)
(* Theorems about TailReader for any lines, blank lines, chunk size and    *)
(* number of removals and crashes, in the environment Gentle describes:    *)
(* every line handed over is a whole line, and lines are handed over in    *)
(* their order, none that is still in the file overtaken.                  *)
(***************************************************************************)
EXTENDS TailReader, Integers, SequenceTheorems, TLAPS

-----------------------------------------------------------------------------
(* Runs of pieces *)

Parts == {"head", "tail", "newline"}

\* A blank line has neither head nor tail.
Legal(piece) == piece.part /= "newline" => piece.line \notin BlankLines

Written == {piece \in Pieces : Legal(piece)}

\* The writer ends at the line after the last one.
Upcoming == {piece \in [line : 1..(MaxLines + 1), part : Parts] : Legal(piece)}

Texts == Seq(Written)

\* Consecutive pieces of consecutive lines, the first one the first of its line.
IsRun(text) ==
  /\ text /= <<>> => text[1] = FirstPiece(text[1].line)
  /\ \A n \in 1..(Len(text) - 1) : text[n + 1] = After(text[n])
  /\ \A m, n \in 1..Len(text) :
       m < n => /\ text[m].line <= text[n].line
                /\ IsNewline(text[m]) => text[m].line < text[n].line

\* The pieces of a line follow each other, and the next line follows the newline.
LEMMA AfterPiece ==
  ASSUME NEW piece \in Written
  PROVE  /\ After(piece) \in Upcoming
         /\ piece.line \in 1..MaxLines
         /\ IsNewline(piece) => /\ After(piece) = FirstPiece(piece.line + 1)
                                /\ After(piece).line = piece.line + 1
         /\ ~IsNewline(piece) => /\ After(piece).line = piece.line
                                 /\ After(piece) /= FirstPiece(piece.line)
  <1>1. piece.line \in 1..MaxLines /\ piece.part \in Parts /\ MaxLines \in Nat
    BY BoundAssumption DEF Written, Pieces, Parts
  <1>2. CASE piece.part = "head"
    <2>1. After(piece) = [line |-> piece.line, part |-> "tail"]
      BY <1>2 DEF After, Piece
    <2>2. piece.line \notin BlankLines
      BY <1>2 DEF Written, Legal
    <2>3. QED
      BY <1>1, <1>2, <2>1, <2>2 DEF Upcoming, Legal, Parts, IsNewline, FirstPiece, Piece
  <1>3. CASE piece.part = "tail"
    <2>1. After(piece) = [line |-> piece.line, part |-> "newline"]
      BY <1>3 DEF After, Piece
    <2>2. piece.line \notin BlankLines
      BY <1>3 DEF Written, Legal
    <2>3. QED
      BY <1>1, <1>3, <2>1, <2>2 DEF Upcoming, Legal, Parts, IsNewline, FirstPiece, Piece
  <1>4. CASE piece.part = "newline"
    <2>1. After(piece) = FirstPiece(piece.line + 1)
      BY <1>4 DEF After
    <2>2. QED
      BY <1>1, <1>4, <2>1 DEF Upcoming, Legal, Parts, IsNewline, FirstPiece, Piece
  <1>5. QED
    BY <1>1, <1>2, <1>3, <1>4 DEF Parts

\* What follows the beginning of a line in a run is a run.
LEMMA RunOfRun ==
  ASSUME NEW text \in Texts, IsRun(text), NEW start \in 0..Len(text),
         start > 0 => IsNewline(text[start]),
         NEW part \in Texts, start + Len(part) <= Len(text),
         \A n \in 1..Len(part) : part[n] = text[start + n]
  PROVE  IsRun(part)
  <1>1. Len(part) \in Nat /\ Len(text) \in Nat /\ start \in Nat
    BY DEF Texts
  <1>2. ASSUME part /= <<>>
        PROVE  part[1] = FirstPiece(part[1].line)
    <2>1. 1 \in 1..Len(part) /\ part[1] = text[start + 1]
      BY <1>1, <1>2 DEF Texts
    <2>2. CASE start = 0
      <3>1. text[1] = FirstPiece(text[1].line)
        BY <1>1, <2>1 DEF IsRun, Texts
      <3>2. QED
        BY <2>1, <2>2, <3>1
    <2>3. CASE start > 0
      <3>1. start \in 1..(Len(text) - 1) /\ text[start] \in Written
        BY <1>1, <2>1, <2>3 DEF Texts
      <3>2. text[start + 1] = After(text[start])
        BY <3>1 DEF IsRun
      <3>3. QED
        BY <2>1, <2>3, <3>1, <3>2, AfterPiece
    <2>4. QED
      BY <1>1, <2>2, <2>3
  <1>3. ASSUME NEW n \in 1..(Len(part) - 1)
        PROVE  part[n + 1] = After(part[n])
    <2>1. /\ part[n] = text[start + n] /\ part[n + 1] = text[start + n + 1]
          /\ start + n \in 1..(Len(text) - 1)
      BY <1>1
    <2>2. QED
      BY <2>1 DEF IsRun
  <1>4. ASSUME NEW m \in 1..Len(part), NEW n \in 1..Len(part), m < n
        PROVE  /\ part[m].line <= part[n].line
               /\ IsNewline(part[m]) => part[m].line < part[n].line
    <2>1. /\ part[m] = text[start + m] /\ part[n] = text[start + n]
          /\ start + m \in 1..Len(text) /\ start + n \in 1..Len(text)
          /\ start + m < start + n
      BY <1>1, <1>4
    <2>2. QED
      BY <2>1 DEF IsRun
  <1>5. QED
    BY <1>2, <1>3, <1>4 DEF IsRun

\* Up to its first newline, a run is the text of its first line.
LEMMA FirstLine ==
  ASSUME NEW text \in Texts, IsRun(text), NEW n \in 1..Len(text),
         IsNewline(text[n]), \A m \in 1..(n - 1) : ~IsNewline(text[m])
  PROVE  /\ text[1].line \in 1..MaxLines
         /\ SubSeq(text, 1, n - 1) = Text(text[1].line)
         /\ text[n].line = text[1].line
         /\ n = 1 <=> text[1].line \in BlankLines
  <1> DEFINE l == text[1].line
  <1>1. /\ Len(text) \in Nat /\ \A m \in 1..Len(text) : text[m] \in Written
        /\ 1 \in 1..Len(text) /\ n \in Nat
    BY DEF Texts
  <1>2. l \in 1..MaxLines
    BY <1>1, AfterPiece
  <1>3. text[1] = FirstPiece(l)
    BY <1>1 DEF IsRun
  <1>4. CASE l \in BlankLines
    <2>1. IsNewline(text[1])
      BY <1>3, <1>4 DEF FirstPiece, Piece, IsNewline
    <2>2. n = 1
      BY <1>1, <2>1
    <2>3. SubSeq(text, 1, n - 1) = <<>>
      BY <1>1, <2>2 DEF Texts
    <2>4. QED
      BY <1>2, <1>4, <2>2, <2>3 DEF Text
  <1>5. CASE l \notin BlankLines
    <2>1. text[1] = Piece(l, "head") /\ ~IsNewline(text[1])
      BY <1>3, <1>5 DEF FirstPiece, Piece, IsNewline
    <2>2. n >= 2 /\ 1 \in 1..(Len(text) - 1) /\ 2 \in 1..Len(text)
      BY <1>1, <2>1
    <2>3. text[2] = After(text[1])
      BY <2>2 DEF IsRun
    <2>4. text[2] = Piece(l, "tail") /\ ~IsNewline(text[2])
      BY <2>1, <2>3 DEF After, Piece, IsNewline
    <2>5. n >= 3 /\ 2 \in 1..(Len(text) - 1) /\ 3 \in 1..Len(text)
      BY <1>1, <2>2, <2>4
    <2>6. text[3] = After(text[2])
      BY <2>5 DEF IsRun
    <2>7. text[3] = Piece(l, "newline") /\ IsNewline(text[3])
      BY <2>4, <2>6 DEF After, Piece, IsNewline
    <2>8. n = 3
      BY <1>1, <2>5, <2>7
    <2>9. /\ Len(SubSeq(text, 1, 2)) = 2 /\ SubSeq(text, 1, 2)[1] = text[1]
          /\ SubSeq(text, 1, 2)[2] = text[2]
      BY <1>1, <2>2 DEF Texts
    <2>10. SubSeq(text, 1, 2) = <<Piece(l, "head"), Piece(l, "tail")>>
      <3> DEFINE pair == <<Piece(l, "head"), Piece(l, "tail")>>
      <3>1. SubSeq(text, 1, 2) \in Seq(Written)
        BY <1>1, <2>2 DEF Texts
      <3>2. pair \in Seq(Written) /\ Len(pair) = 2 /\ pair[1] = text[1] /\ pair[2] = text[2]
        BY <1>1, <2>1, <2>2, <2>4
      <3>3. \A m \in 1..Len(pair) : SubSeq(text, 1, 2)[m] = pair[m]
        BY <2>9, <3>2
      <3> HIDE DEF pair
      <3>4. SubSeq(text, 1, 2) = pair
        BY <2>9, <3>1, <3>2, <3>3, SeqEqual
      <3>5. QED
        BY <3>4 DEF pair
    <2>11. QED
      BY <1>2, <1>5, <2>7, <2>8, <2>10 DEF Text, Piece
  <1>6. QED
    BY <1>4, <1>5

-----------------------------------------------------------------------------
(* The inductive invariant *)

\* What was read and is not handed over, and where it begins in the file.
Buffer == pending \o chunk
Start == position - Len(Buffer)

TypeOK ==
  /\ disk \in Texts
  /\ exists \in BOOLEAN
  /\ next \in Upcoming
  /\ stale \in BOOLEAN
  /\ pc \in {"poll", "open", "read", "lines", "delay", "failed"}
  /\ position \in Nat
  /\ pending \in Texts
  /\ chunk \in Texts
  /\ opened \in {"closed", "path", "orphan"}
  /\ orphan \in Texts
  /\ emitted \in Seq(Texts)

\* The writer: both versions of the file are runs, and next goes on with the one
\* at the path.
WriterInv ==
  /\ IsRun(disk)
  /\ IsRun(orphan)
  /\ IF disk = <<>> THEN AtLineStart ELSE next = After(disk[Len(disk)])
  /\ \A n \in 1..Len(disk) :
       /\ disk[n].line <= next.line
       /\ AtLineStart \/ IsNewline(disk[n]) => disk[n].line < next.line

\* A version of the file that the reader has not seen yet is shorter than what
\* it read of the one before.
StaleInv ==
  /\ stale => Len(disk) < position \/ (position = 0 /\ disk = <<>>)
  /\ position > Len(disk) \/ opened = "orphan" => stale

\* The reader's stream is open while it reads, and only then.
StreamInv ==
  /\ opened = "closed" <=> pc \notin {"read", "lines"}
  /\ pc /= "lines" => chunk = <<>>

\* The buffer is what stands before the position, from the start of a line.
Follows ==
  /\ Len(Buffer) <= position
  /\ \A n \in 1..Len(Buffer) : Buffer[n] = Content[Start + n]
  /\ Start > 0 => IsNewline(Content[Start])

BufferInv ==
  /\ IsRun(Buffer)
  /\ \A n \in 1..Len(pending) : ~IsNewline(pending[n])
  /\ position > Len(Content) \/ Follows

\* Whole lines were handed over, in their order, and what is in the buffer, in the
\* file behind it and still to be written comes after them.
EmittedInv ==
  /\ \A n \in 1..Len(emitted) :
       /\ \E l \in (1..MaxLines) \ BlankLines : emitted[n] = Text(l)
       /\ emitted[n][1].line < next.line
       /\ \A k \in 1..Len(Buffer) : emitted[n][1].line < Buffer[k].line
       /\ position <= Len(Content) =>
            \A k \in (Start + 1)..Len(Content) : emitted[n][1].line < Content[k].line
  /\ \A m, n \in 1..Len(emitted) : m < n => emitted[m][1].line < emitted[n][1].line

\* A version of the file that the reader has not seen yet comes after everything
\* it has got, or can still get from the version it reads.
NewVersionInv ==
  stale =>
    /\ \A n \in 1..Len(emitted), k \in 1..Len(disk) : emitted[n][1].line < disk[k].line
    /\ \A n \in 1..Len(Buffer) : /\ Buffer[n].line < next.line
                                 /\ \A k \in 1..Len(disk) : Buffer[n].line < disk[k].line
    /\ opened = "orphan" =>
         \A n \in 1..Len(orphan) : /\ orphan[n].line < next.line
                                   /\ \A k \in 1..Len(disk) : orphan[n].line < disk[k].line

\* Every line of the file that ends before the buffer was handed over.
PassedInv ==
  ~stale =>
    \A k \in 1..Start :
      IsNewline(disk[k]) /\ disk[k].line \notin BlankLines =>
        \E n \in 1..Len(emitted) : emitted[n][1].line = disk[k].line

IInv ==
  /\ TypeOK /\ WriterInv /\ StaleInv /\ StreamInv
  /\ BufferInv /\ EmittedInv /\ NewVersionInv /\ PassedInv

-----------------------------------------------------------------------------
(* Steps *)

\* The actions a case split of Next ends in.
LEMMA NextCases ==
  ASSUME [Next]_vars
  PROVE  \/ Create \/ Write \/ Truncate \/ Remove
         \/ Poll \/ Open \/ ReadChunk \/ EndOfFile \/ HandOver \/ KeepRest \/ Delay
         \/ Restart
         \/ UNCHANGED vars
  BY DEF Next, Reader

\* The buffer is text.
LEMMA BufferType ==
  ASSUME TypeOK
  PROVE  /\ Buffer \in Texts
         /\ Len(pending) \in Nat /\ Len(chunk) \in Nat
         /\ Len(Buffer) = Len(pending) + Len(chunk)
         /\ \A n \in 1..Len(pending) : Buffer[n] = pending[n]
         /\ \A n \in 1..Len(chunk) : Buffer[Len(pending) + n] = chunk[n]
         /\ Content \in Texts /\ Len(Content) \in Nat
         /\ Start \in Int
  <1>1. pending \in Seq(Written) /\ chunk \in Seq(Written)
    BY DEF TypeOK, Texts
  <1>2. /\ Buffer \in Texts
        /\ Len(pending) \in Nat /\ Len(chunk) \in Nat
        /\ Len(Buffer) = Len(pending) + Len(chunk)
        /\ \A n \in 1..Len(pending) : Buffer[n] = pending[n]
        /\ \A n \in 1..Len(chunk) : Buffer[Len(pending) + n] = chunk[n]
    BY <1>1 DEF Buffer, Texts
  <1>3. Content \in Texts /\ Len(Content) \in Nat
    BY DEF Content, TypeOK, Texts
  <1>4. Start \in Int
    BY <1>2 DEF Start, TypeOK
  <1>5. QED
    BY <1>2, <1>3, <1>4

\* What HandOver takes from the buffer for the newline at chunk[n], and what it
\* leaves.
Taken(n) == pending \o SubSeq(chunk, 1, n - 1)
Left(n) == SubSeq(chunk, n + 1, Len(chunk))

\* The n-th character of the chunk ends the first line of the buffer, at size.
SplitsOff(n, size) ==
  /\ size \in 1..Len(Buffer)
  /\ Buffer[1].line \in 1..MaxLines
  /\ Taken(n) = Text(Buffer[1].line)
  /\ IsNewline(Buffer[size]) /\ Buffer[size].line = Buffer[1].line
  /\ \A m \in 1..(size - 1) : ~IsNewline(Buffer[m])
  /\ Left(n) \in Texts
  /\ Len(Left(n)) = Len(Buffer) - size
  /\ \A m \in 1..Len(Left(n)) : Left(n)[m] = Buffer[size + m]

\* The first line in the buffer that is complete, with what is left behind it.
LEMMA FirstLineOfBuffer ==
  ASSUME TypeOK, BufferInv, NEW n \in 1..Len(chunk), IsNewline(chunk[n]),
         \A m \in 1..(n - 1) : ~IsNewline(chunk[m]),
         NEW size, size = Len(pending) + n
  PROVE  SplitsOff(n, size)
  <1>1. /\ Buffer \in Texts
        /\ Len(pending) \in Nat /\ Len(chunk) \in Nat
        /\ Len(Buffer) = Len(pending) + Len(chunk)
        /\ \A m \in 1..Len(pending) : Buffer[m] = pending[m]
        /\ \A m \in 1..Len(chunk) : Buffer[Len(pending) + m] = chunk[m]
    BY BufferType
  <1>2. chunk \in Seq(Written) /\ pending \in Seq(Written)
    BY DEF TypeOK, Texts
  <1>3. size \in 1..Len(Buffer) /\ size \in Nat /\ n \in Nat
    BY <1>1
  <1>4. IsNewline(Buffer[size])
    BY <1>1
  <1>5. ASSUME NEW m \in 1..(size - 1)
        PROVE  ~IsNewline(Buffer[m])
    <2>1. CASE m \in 1..Len(pending)
      BY <1>1, <2>1 DEF BufferInv
    <2>2. CASE m \notin 1..Len(pending)
      <3>1. m - Len(pending) \in 1..(n - 1) /\ m = Len(pending) + (m - Len(pending))
        BY <1>1, <1>3, <2>2
      <3>2. PICK k \in 1..(n - 1) : m = Len(pending) + k
        BY <3>1
      <3>3. k \in 1..Len(chunk)
        BY <1>1, <1>3, <3>2
      <3>4. Buffer[m] = chunk[k]
        BY <1>1, <3>2, <3>3
      <3>5. QED
        BY <3>2, <3>4
    <2>3. QED
      BY <2>1, <2>2
  <1>6. IsRun(Buffer)
    BY DEF BufferInv
  <1>7. /\ Buffer[1].line \in 1..MaxLines
        /\ SubSeq(Buffer, 1, size - 1) = Text(Buffer[1].line)
        /\ Buffer[size].line = Buffer[1].line
    BY <1>1, <1>3, <1>4, <1>5, <1>6, FirstLine
  <1>8. SubSeq(Buffer, 1, size - 1) = pending \o SubSeq(chunk, 1, n - 1)
    <2> DEFINE left == SubSeq(Buffer, 1, size - 1)
               right == pending \o SubSeq(chunk, 1, n - 1)
    <2>1. /\ left \in Seq(Written) /\ Len(left) = size - 1
          /\ \A m \in 1..(size - 1) : left[m] = Buffer[m]
      BY <1>1, <1>3 DEF Texts
    <2>2. /\ SubSeq(chunk, 1, n - 1) \in Seq(Written)
          /\ Len(SubSeq(chunk, 1, n - 1)) = n - 1
          /\ \A m \in 1..(n - 1) : SubSeq(chunk, 1, n - 1)[m] = chunk[m]
      BY <1>1, <1>2, <1>3
    <2>3. /\ right \in Seq(Written) /\ Len(right) = size - 1
          /\ \A m \in 1..Len(pending) : right[m] = pending[m]
          /\ \A m \in 1..(n - 1) : right[Len(pending) + m] = chunk[m]
      BY <1>1, <1>2, <1>3, <2>2
    <2> HIDE DEF left, right
    <2>4. ASSUME NEW m \in 1..(size - 1)
          PROVE  left[m] = right[m]
      <3>1. CASE m \in 1..Len(pending)
        BY <1>1, <2>1, <2>3, <3>1
      <3>2. CASE m \notin 1..Len(pending)
        <4>1. m - Len(pending) \in 1..(n - 1) /\ m = Len(pending) + (m - Len(pending))
          BY <1>1, <1>3, <3>2
        <4>2. PICK k \in 1..(n - 1) : m = Len(pending) + k
          BY <4>1
        <4>3. k \in 1..Len(chunk)
          BY <1>1, <1>3, <4>2
        <4>4. left[m] = chunk[k] /\ right[m] = chunk[k]
          BY <1>1, <2>1, <2>3, <4>2, <4>3
        <4>5. QED
          BY <4>4
      <3>3. QED
        BY <3>1, <3>2
    <2>5. left = right
      BY <2>1, <2>3, <2>4, SeqEqual
    <2>6. QED
      BY <2>5 DEF left, right
  <1>9. /\ Left(n) \in Texts
        /\ Len(Left(n)) = Len(Buffer) - size
        /\ \A m \in 1..Len(Left(n)) : Left(n)[m] = Buffer[size + m]
    <2>1. /\ Left(n) \in Seq(Written)
          /\ Len(Left(n)) = Len(chunk) - n
          /\ \A m \in 1..(Len(chunk) - n) : Left(n)[m] = chunk[n + m]
      BY <1>1, <1>2, <1>3 DEF Left
    <2>2. ASSUME NEW m \in 1..(Len(chunk) - n)
          PROVE  Left(n)[m] = Buffer[size + m]
      <3>1. n + m \in 1..Len(chunk) /\ size + m = Len(pending) + (n + m)
        BY <1>1, <1>3
      <3>2. QED
        BY <1>1, <2>1, <3>1
    <2>3. QED
      BY <1>1, <1>3, <2>1, <2>2 DEF Texts
  <1>10. Taken(n) = Text(Buffer[1].line)
    BY <1>7, <1>8 DEF Taken
  <1>11. QED
    BY <1>3, <1>4, <1>5, <1>7, <1>9, <1>10 DEF SplitsOff

\* What is about to be written, while there are lines left.
LEMMA NextIsWritten ==
  ASSUME TypeOK, next.line <= MaxLines
  PROVE  next \in Written
  BY BoundAssumption DEF TypeOK, Upcoming, Written, Pieces, Parts, Legal

\* Initially.
LEMMA InvInit == Init => IInv
  <1> SUFFICES ASSUME Init
               PROVE  IInv
    OBVIOUS
  <1> USE DEF Init
  <1>1. next \in Upcoming
    BY BoundAssumption DEF Upcoming, FirstPiece, Piece, Legal, Parts
  <1>2. TypeOK
    <2>1. <<>> \in Texts /\ <<>> \in Seq(Texts)
      BY DEF Texts
    <2>2. QED
      BY <1>1, <2>1 DEF TypeOK
  <1>3. Len(Buffer) = 0 /\ Buffer = <<>> /\ Start = 0
    <2>1. <<>> \o <<>> = <<>>
      OBVIOUS
    <2>2. Buffer = <<>>
      BY <2>1 DEF Buffer
    <2>3. Len(Buffer) = 0
      BY <2>2
    <2>4. Start = 0
      BY <2>3 DEF Start
    <2>5. QED
      BY <2>2, <2>3, <2>4
  <1>4. IsRun(<<>>)
    BY DEF IsRun
  <1>5. WriterInv
    BY <1>4 DEF WriterInv, AtLineStart, FirstPiece, Piece
  <1>6. StaleInv /\ StreamInv
    BY DEF StaleInv, StreamInv
  <1>7. BufferInv
    BY <1>3, <1>4 DEF BufferInv, Follows
  <1>8. EmittedInv /\ NewVersionInv /\ PassedInv
    BY <1>3 DEF EmittedInv, NewVersionInv, PassedInv
  <1>9. QED
    BY <1>2, <1>5, <1>6, <1>7, <1>8 DEF IInv

\* Types are kept by every step.
LEMMA TypeStep ==
  ASSUME IInv, [Next]_vars
  PROVE  TypeOK'
  <1> USE DEF TypeOK
  <1>1. TypeOK
    BY DEF IInv
  <1>2. CASE Create
    BY <1>1, <1>2 DEF Create, readerVars
  <1>3. CASE Write
    <2>1. next \in Written
      BY <1>1, <1>3, NextIsWritten DEF Write
    <2>2. disk' \in Texts /\ next' \in Upcoming
      BY <1>1, <1>3, <2>1, AfterPiece DEF Write, Texts
    <2>3. QED
      BY <1>1, <1>3, <2>2 DEF Write, readerVars
  <1>4. CASE Truncate
    <2>1. stale' \in BOOLEAN
      BY <1>4 DEF Truncate
    <2>2. <<>> \in Texts
      BY DEF Texts
    <2>3. QED
      BY <1>1, <1>4, <2>1, <2>2 DEF Truncate, readerVars
  <1>5. CASE Remove
    <2>1. stale' \in BOOLEAN
      BY <1>5 DEF Remove
    <2>2. <<>> \in Texts
      BY DEF Texts
    <2>3. opened' \in {"closed", "path", "orphan"} /\ orphan' \in Texts
      BY <1>1, <1>5 DEF Remove
    <2>4. disk' = <<>> /\ exists' = FALSE
          /\ UNCHANGED <<next, crashes, pc, position, pending, chunk, emitted>>
      BY <1>5 DEF Remove
    <2>5. QED
      BY <1>1, <2>1, <2>2, <2>3, <2>4
  <1>6. CASE Poll
    BY <1>1, <1>6 DEF Poll, fileVars
  <1>7. CASE Open
    <2>1. stale' \in BOOLEAN
      BY <1>1, <1>7 DEF Open
    <2>2. position' \in Nat
      BY <1>1, <1>7 DEF Open
    <2>3. pending' \in Texts
      <3>1. <<>> \in Texts
        BY DEF Texts
      <3>2. QED
        BY <1>1, <1>7, <3>1 DEF Open
    <2>4. /\ pc' \in {"read", "failed"} /\ opened' \in {"closed", "path", "orphan"}
          /\ UNCHANGED <<disk, exists, next, removals, crashes, chunk, orphan, emitted>>
      BY <1>1, <1>7 DEF Open
    <2>5. QED
      BY <1>1, <2>1, <2>2, <2>3, <2>4
  <1>8. CASE ReadChunk
    <2>1. position' \in Nat /\ chunk' \in Texts
      <3>1. PICK n \in 1..MaxRead : /\ position + n <= Len(Content)
                                    /\ chunk' = SubSeq(Content, position + 1, position + n)
                                    /\ position' = position + n
        BY <1>8 DEF ReadChunk
      <3>2. n \in Nat /\ Content \in Seq(Written)
        BY <1>1, BoundAssumption DEF Content, Texts
      <3>3. QED
        BY <1>1, <3>1, <3>2 DEF Texts
    <2>2. QED
      BY <1>1, <1>8, <2>1 DEF ReadChunk, fileVars
  <1>9. CASE EndOfFile
    <2>1. <<>> \in Texts
      BY DEF Texts
    <2>2. QED
      BY <1>1, <1>9, <2>1 DEF EndOfFile, fileVars
  <1>10. CASE HandOver
    <2>1. PICK n \in 1..Len(chunk) :
            LET line == pending \o SubSeq(chunk, 1, n - 1)
            IN  /\ emitted' = IF line = <<>> THEN emitted ELSE Append(emitted, line)
                /\ chunk' = SubSeq(chunk, n + 1, Len(chunk))
      BY <1>10 DEF HandOver
    <2>2. chunk \in Seq(Written) /\ pending \in Seq(Written) /\ Len(chunk) \in Nat /\ n \in Nat
      BY <1>1 DEF Texts
    <2>3. chunk' \in Texts /\ <<>> \in Texts
      BY <2>1, <2>2 DEF Texts
    <2>4. SubSeq(chunk, 1, n - 1) \in Seq(Written)
      BY <2>2
    <2>5. pending \o SubSeq(chunk, 1, n - 1) \in Texts
      BY <2>2, <2>4 DEF Texts
    <2>6. emitted' \in Seq(Texts)
      BY <1>1, <2>1, <2>5
    <2>7. QED
      BY <1>1, <1>10, <2>3, <2>6 DEF HandOver, fileVars
  <1>11. CASE KeepRest
    <2>1. pending' \in Texts /\ <<>> \in Texts
      BY <1>1, <1>11 DEF KeepRest, Texts
    <2>2. QED
      BY <1>1, <1>11, <2>1 DEF KeepRest, fileVars
  <1>12. CASE Delay
    BY <1>1, <1>12 DEF Delay, fileVars
  <1>13. CASE Restart
    <2>1. <<>> \in Texts /\ <<>> \in Seq(Texts)
      BY DEF Texts
    <2>2. QED
      BY <1>1, <1>13, <2>1 DEF Restart
  <1>14. CASE UNCHANGED vars
    BY <1>1, <1>14 DEF vars
  <1>15. QED
    BY <1>2, <1>3, <1>4, <1>5, <1>6, <1>7, <1>8, <1>9, <1>10, <1>11, <1>12, <1>13, <1>14, NextCases

\* The writer goes on where it was, line by line, whatever happens to the file.
LEMMA WriterStep ==
  ASSUME IInv, [Next]_vars
  PROVE  WriterInv'
  <1> USE DEF IInv
  <1>1. IsRun(<<>>)
    BY DEF IsRun
  <1>2. CASE Write
    <2>1. /\ disk \in Texts /\ Len(disk) \in Nat /\ next \in Upcoming
          /\ \A n \in 1..Len(disk) : disk[n] \in Written
      BY DEF TypeOK, Texts
    <2>2. next \in Written
      BY <1>2, NextIsWritten DEF Write
    <2>3. /\ disk' = Append(disk, next)
          /\ next' = After(next)
          /\ UNCHANGED orphan
      BY <1>2 DEF Write, readerVars
    <2>4. /\ Len(disk') = Len(disk) + 1
          /\ disk'[Len(disk) + 1] = next
          /\ \A n \in 1..Len(disk) : disk'[n] = disk[n]
      BY <2>1, <2>2, <2>3 DEF Texts
    <2>5. \A n \in 1..Len(disk) :
            /\ disk[n].line <= next.line
            /\ AtLineStart \/ IsNewline(disk[n]) => disk[n].line < next.line
      BY DEF WriterInv
    <2>6. ASSUME NEW n \in 1..Len(disk)
          PROVE  disk[n].line \in Int /\ next.line \in Int
      BY <2>1, <2>2, AfterPiece
    <2>7. IsRun(disk')
      <3>1. disk' /= <<>> => disk'[1] = FirstPiece(disk'[1].line)
        <4>1. CASE disk = <<>>
          <5>1. disk'[1] = next /\ next = FirstPiece(next.line)
            BY <2>1, <2>4, <4>1 DEF WriterInv, AtLineStart
          <5>2. QED
            BY <5>1
        <4>2. CASE disk /= <<>>
          <5>1. 1 \in 1..Len(disk)
            BY <2>1, <4>2 DEF Texts
          <5>2. disk[1] = FirstPiece(disk[1].line)
            BY <4>2 DEF WriterInv, IsRun
          <5>3. QED
            BY <2>4, <5>1, <5>2
        <4>3. QED
          BY <4>1, <4>2
      <3>2. ASSUME NEW n \in 1..(Len(disk') - 1)
            PROVE  disk'[n + 1] = After(disk'[n])
        <4>1. CASE n = Len(disk)
          <5>1. disk /= <<>> /\ n \in 1..Len(disk)
            BY <2>1, <2>4, <4>1 DEF Texts
          <5>2. next = After(disk[n])
            BY <4>1, <5>1 DEF WriterInv
          <5>3. QED
            BY <2>4, <4>1, <5>1, <5>2
        <4>2. CASE n /= Len(disk)
          <5>1. n \in 1..(Len(disk) - 1) /\ n \in 1..Len(disk) /\ n + 1 \in 1..Len(disk)
            BY <2>1, <2>4, <4>2
          <5>2. disk[n + 1] = After(disk[n])
            BY <5>1 DEF WriterInv, IsRun
          <5>3. QED
            BY <2>4, <5>1, <5>2
        <4>3. QED
          BY <4>1, <4>2
      <3>3. ASSUME NEW m \in 1..Len(disk'), NEW n \in 1..Len(disk'), m < n
            PROVE  /\ disk'[m].line <= disk'[n].line
                   /\ IsNewline(disk'[m]) => disk'[m].line < disk'[n].line
        <4>1. m \in 1..Len(disk) /\ disk'[m] = disk[m]
          BY <2>1, <2>4, <3>3
        <4>2. CASE n = Len(disk) + 1
          <5>1. disk'[n] = next
            BY <2>4, <4>2
          <5>2. QED
            BY <2>5, <4>1, <5>1
        <4>3. CASE n /= Len(disk) + 1
          <5>1. n \in 1..Len(disk) /\ disk'[n] = disk[n]
            BY <2>1, <2>4, <4>3
          <5>2. QED
            BY <3>3, <4>1, <5>1 DEF WriterInv, IsRun
        <4>4. QED
          BY <4>2, <4>3
      <3>4. QED
        BY <3>1, <3>2, <3>3 DEF IsRun
    <2>8. disk' /= <<>> /\ next' = After(disk'[Len(disk')])
      BY <2>1, <2>3, <2>4
    <2>9. /\ next.line <= next'.line
          /\ IsNewline(next) => next.line < next'.line
          /\ ~IsNewline(next) => next'.line = next.line /\ next' /= FirstPiece(next'.line)
      BY <2>2, <2>3, AfterPiece
    <2>10. ASSUME NEW n \in 1..Len(disk')
           PROVE  /\ disk'[n].line <= next'.line
                  /\ AtLineStart' \/ IsNewline(disk'[n]) => disk'[n].line < next'.line
      <3>1. AtLineStart' => IsNewline(next)
        BY <2>9 DEF AtLineStart
      <3>2. next'.line \in Int
        BY TypeStep DEF TypeOK, Upcoming
      <3>3. CASE n = Len(disk) + 1
        BY <2>4, <2>9, <3>1, <3>3
      <3>4. CASE n /= Len(disk) + 1
        <4>1. n \in 1..Len(disk) /\ disk'[n] = disk[n]
          BY <2>1, <2>4, <3>4
        <4>2. /\ disk[n].line <= next.line
              /\ IsNewline(disk[n]) => disk[n].line < next.line
          BY <2>5, <4>1
        <4>3. disk[n].line \in Int /\ next.line \in Int
          BY <2>6, <4>1
        <4>4. QED
          BY <2>9, <3>1, <3>2, <4>1, <4>2, <4>3
      <3>5. QED
        BY <3>3, <3>4
    <2>11. QED
      BY <2>3, <2>7, <2>8, <2>10 DEF WriterInv
  <1>3. CASE Truncate \/ Remove
    <2>1. disk' = <<>> /\ AtLineStart /\ UNCHANGED next /\ (UNCHANGED orphan \/ orphan' = disk)
      BY <1>3 DEF Truncate, Remove, readerVars
    <2>2. IsRun(orphan') /\ IsRun(disk')
      BY <1>1, <2>1 DEF WriterInv
    <2>3. Len(disk') = 0 /\ AtLineStart'
      BY <2>1 DEF AtLineStart
    <2>4. QED
      BY <2>1, <2>2, <2>3 DEF WriterInv
  <1>4. ASSUME UNCHANGED <<disk, next>>, UNCHANGED orphan \/ orphan' = <<>>
        PROVE  WriterInv'
    BY <1>1, <1>4 DEF WriterInv, AtLineStart
  <1>5. CASE Create \/ UNCHANGED vars
    BY <1>4, <1>5 DEF Create, readerVars, vars
  <1>6. CASE Poll \/ Open \/ ReadChunk \/ EndOfFile \/ HandOver \/ KeepRest \/ Delay \/ Restart
    <2>1. UNCHANGED <<disk, next>>
      BY <1>6 DEF Poll, Open, ReadChunk, EndOfFile, HandOver, KeepRest, Delay, Restart, fileVars
    <2>2. UNCHANGED orphan \/ orphan' = <<>>
      BY <1>6 DEF Poll, Open, ReadChunk, EndOfFile, HandOver, KeepRest, Delay, Restart, fileVars
    <2>3. QED
      BY <1>4, <2>1, <2>2
  <1>7. QED
    BY <1>2, <1>3, <1>5, <1>6, NextCases

\* Where a read takes its pieces from.
LEMMA ReadPieces ==
  ASSUME TypeOK, ReadChunk
  PROVE  \E n \in 1..MaxRead :
           /\ n \in Nat \ {0}
           /\ position + n <= Len(Content)
           /\ position' = position + n
           /\ chunk' \in Texts
           /\ Len(chunk') = n
           /\ \A k \in 1..n : chunk'[k] = Content[position + k]
  <1>1. PICK n \in 1..MaxRead : /\ position + n <= Len(Content)
                                /\ chunk' = SubSeq(Content, position + 1, position + n)
                                /\ position' = position + n
    BY DEF ReadChunk
  <1>2. /\ n \in Nat \ {0} /\ position \in Nat
        /\ Content \in Seq(Written)
    BY BoundAssumption DEF Content, Texts, TypeOK
  <1>3. /\ chunk' \in Texts /\ Len(chunk') = n
        /\ \A k \in 1..n : chunk'[k] = Content[position + k]
    BY <1>1, <1>2 DEF Texts
  <1>4. QED
    BY <1>1, <1>2, <1>3

\* The stream is open while the reader reads, and the chunk is handed over before
\* the next read.
LEMMA StreamStep ==
  ASSUME IInv, [Next]_vars
  PROVE  StreamInv'
  <1> USE DEF IInv, StreamInv, TypeOK
  <1>1. CASE Create \/ Write \/ Truncate \/ UNCHANGED vars
    BY <1>1 DEF Create, Write, Truncate, readerVars, vars
  <1>2. CASE Remove
    BY <1>2 DEF Remove
  <1>3. CASE Poll \/ Delay
    BY <1>3 DEF Poll, Delay
  <1>4. CASE Open
    BY <1>4 DEF Open
  <1>5. CASE ReadChunk
    BY <1>5 DEF ReadChunk
  <1>6. CASE EndOfFile
    BY <1>6 DEF EndOfFile
  <1>7. CASE HandOver
    BY <1>7 DEF HandOver
  <1>8. CASE KeepRest
    BY <1>8 DEF KeepRest
  <1>9. CASE Restart
    BY <1>9 DEF Restart
  <1>10. QED
    BY <1>1, <1>2, <1>3, <1>4, <1>5, <1>6, <1>7, <1>8, <1>9, NextCases

\* A version of the file that the reader has not seen stays shorter than what it
\* read of the one before, until it opens the file again.
LEMMA StaleStep ==
  ASSUME Gentle, IInv, [Next]_vars
  PROVE  StaleInv'
  <1> USE DEF IInv, StaleInv, TypeOK
  <1>1. Len(disk) \in Nat /\ Len(orphan) \in Nat /\ Len(<<>>) = 0
    BY DEF Texts
  <1>2. CASE Create \/ Poll \/ HandOver \/ KeepRest \/ Delay \/ UNCHANGED vars
    <2>1. UNCHANGED <<disk, position, stale, opened>>
      BY <1>2 DEF Create, Poll, HandOver, KeepRest, Delay, fileVars, readerVars, vars
    <2>2. QED
      BY <2>1
  <1>3. CASE Write
    <2>1. next \in Written
      BY <1>3, NextIsWritten DEF Write
    <2>2. Len(disk') = Len(disk) + 1 /\ UNCHANGED <<position, stale, opened>>
      BY <1>3, <2>1 DEF Write, Texts, readerVars
    <2>3. stale => Len(disk) + 1 < position
      BY <1>1, <1>3 DEF Write, Regrows
    <2>4. QED
      BY <1>1, <2>2, <2>3
  <1>4. CASE Truncate
    <2>1. disk' = <<>> /\ (stale' <=> stale \/ position > 0) /\ UNCHANGED <<position, opened>>
      BY <1>4 DEF Truncate, readerVars
    <2>2. Len(disk') = 0
      BY <1>1, <2>1
    <2>3. position' > Len(disk') \/ opened' = "orphan" => stale'
      BY <2>1, <2>2
    <2>4. Len(disk') < position' \/ (position' = 0 /\ disk' = <<>>)
      BY <2>1, <2>2
    <2>5. QED
      BY <2>3, <2>4
  <1>5. CASE Remove
    <2>1. /\ disk' = <<>> /\ UNCHANGED position
          /\ stale' <=> stale \/ position > 0 \/ opened = "path"
          /\ opened' = "orphan" => opened \in {"path", "orphan"}
      BY <1>5 DEF Remove
    <2>2. Len(disk') = 0
      BY <1>1, <2>1
    <2>3. position' > Len(disk') \/ opened' = "orphan" => stale'
      BY <2>1, <2>2
    <2>4. Len(disk') < position' \/ (position' = 0 /\ disk' = <<>>)
      BY <2>1, <2>2
    <2>5. QED
      BY <2>3, <2>4
  <1>6. CASE Open
    <2>1. CASE ~exists
      <3>1. UNCHANGED <<disk, position, stale, opened>>
        BY <1>6, <2>1 DEF Open
      <3>2. QED
        BY <3>1
    <2>2. CASE exists
      <3>1. /\ opened' = "path" /\ UNCHANGED disk
            /\ position' = IF Len(disk) < position THEN 0 ELSE position
            /\ stale' <=> (stale /\ Len(disk) >= position /\ position > 0)
        BY <1>6, <2>2 DEF Open
      <3>2. ~stale'
        BY <1>1, <3>1
      <3>3. ~(position' > Len(disk'))
        BY <1>1, <3>1
      <3>4. QED
        BY <3>1, <3>2, <3>3
    <2>3. QED
      BY <2>1, <2>2
  <1>7. CASE ReadChunk
    <2>1. PICK n \in 1..MaxRead :
            n \in Nat \ {0} /\ position + n <= Len(Content) /\ position' = position + n
      BY <1>7, ReadPieces
    <2>2. UNCHANGED <<disk, stale, opened>>
      BY <1>7 DEF ReadChunk, fileVars
    <2>3. CASE opened = "orphan"
      <3>1. stale /\ Len(disk) < position'
        BY <1>1, <2>1, <2>3
      <3>2. QED
        BY <2>2, <3>1
    <2>4. CASE opened /= "orphan"
      <3>1. position' <= Len(disk) /\ position < Len(disk)
        BY <1>1, <2>1, <2>4 DEF Content
      <3>2. ~stale
        BY <1>1, <3>1
      <3>3. ~(position' > Len(disk'))
        BY <1>1, <2>1, <2>2, <3>1
      <3>4. QED
        BY <2>2, <2>4, <3>2, <3>3
    <2>5. QED
      BY <2>3, <2>4
  <1>8. CASE EndOfFile
    BY <1>8 DEF EndOfFile, fileVars
  <1>9. CASE Restart
    BY <1>1, <1>9 DEF Restart
  <1>10. QED
    BY <1>2, <1>3, <1>4, <1>5, <1>6, <1>7, <1>8, <1>9, NextCases

\* What is read is a run, and lines are numbers.
LEMMA ContentIsRun ==
  ASSUME TypeOK, WriterInv
  PROVE  /\ IsRun(Content) /\ Content \in Texts
         /\ \A n \in 1..Len(Content) : Content[n] \in Written /\ Content[n].line \in Int
         /\ \A n \in 1..Len(disk) : disk[n] \in Written /\ disk[n].line \in Int
         /\ \A n \in 1..Len(Buffer) : Buffer[n].line \in Int
         /\ next.line \in Int
  <1>1. IsRun(Content) /\ Content \in Texts
    BY DEF Content, WriterInv, TypeOK
  <1>2. \A text \in Texts : \A n \in 1..Len(text) : text[n] \in Written
    BY DEF Texts
  <1>3. \A piece \in Written : piece.line \in Int
    BY AfterPiece
  <1>4. disk \in Texts /\ Buffer \in Texts
    BY BufferType DEF TypeOK
  <1>5. next.line \in Int
    BY BoundAssumption DEF TypeOK, Upcoming
  <1>6. QED
    BY <1>1, <1>2, <1>3, <1>4, <1>5

\* The lines handed over are numbers, and not blank.
LEMMA EmittedLines ==
  ASSUME EmittedInv
  PROVE  \A n \in 1..Len(emitted) :
           /\ emitted[n][1].line \in (1..MaxLines) \ BlankLines
           /\ emitted[n][1].line \in Int
           /\ emitted[n] = Text(emitted[n][1].line)
  <1>1. ASSUME NEW n \in 1..Len(emitted)
        PROVE  emitted[n][1].line \in (1..MaxLines) \ BlankLines /\ emitted[n] = Text(emitted[n][1].line)
    <2>1. PICK l \in (1..MaxLines) \ BlankLines : emitted[n] = Text(l)
      BY DEF EmittedInv
    <2>2. Text(l)[1].line = l
      BY DEF Text, Piece
    <2>3. QED
      BY <2>1, <2>2
  <1>2. QED
    BY <1>1, BoundAssumption

ReaderInv == BufferInv /\ EmittedInv /\ NewVersionInv /\ PassedInv

\* Nothing that the reader has, or could read, changes.
LEMMA QuietStep ==
  ASSUME IInv, UNCHANGED <<disk, next, stale, position, opened, orphan, emitted>>,
         Buffer' = Buffer, \A n \in 1..Len(pending') : ~IsNewline(pending'[n])
  PROVE  ReaderInv'
  <1>1. Content' = Content /\ Start' = Start
    BY DEF Content, Start
  <1>2. Follows' <=> Follows
    BY <1>1 DEF Follows
  <1>3. BufferInv'
    BY <1>1, <1>2 DEF IInv, BufferInv
  <1>4. EmittedInv'
    BY <1>1 DEF IInv, EmittedInv
  <1>5. NewVersionInv'
    BY DEF IInv, NewVersionInv
  <1>6. PassedInv'
    BY <1>1 DEF IInv, PassedInv
  <1>7. QED
    BY <1>3, <1>4, <1>5, <1>6 DEF ReaderInv

\* The writer adds the next piece to the version that the reader follows, or to
\* one that it has not seen yet.
LEMMA WriteStep ==
  ASSUME Gentle, IInv, Write
  PROVE  ReaderInv'
  <1> USE DEF IInv
  <1>1. /\ UNCHANGED <<stale, position, pending, chunk, opened, orphan, emitted>>
        /\ disk' = Append(disk, next) /\ next' = After(next)
    BY DEF Write, readerVars
  <1>2. next \in Written
    BY NextIsWritten DEF Write
  <1>3. /\ Len(disk) \in Nat /\ Len(disk') = Len(disk) + 1
        /\ disk'[Len(disk) + 1] = next
        /\ \A n \in 1..Len(disk) : disk'[n] = disk[n]
    BY <1>1, <1>2 DEF TypeOK, Texts
  <1>4. Buffer' = Buffer /\ Start' = Start
    BY <1>1 DEF Buffer, Start
  <1>5. next.line \in Int /\ next'.line \in Int /\ next.line <= next'.line
    BY <1>1, <1>2, AfterPiece
  <1>6. /\ Start \in Int /\ Len(Buffer) \in Nat /\ position \in Nat /\ Len(Content) \in Nat
        /\ Start = position - Len(Buffer)
    BY BufferType DEF TypeOK, Start
  <1>7. \A n \in 1..Len(Content) : Content[n].line \in Int
    BY ContentIsRun
  <1>8. stale => Len(disk') < position
    BY <1>3, <1>6 DEF Write, Regrows, StaleInv
  <1>9. NewVersionInv'
    <2> SUFFICES ASSUME stale
                 PROVE  NewVersionInv'
      BY <1>1 DEF NewVersionInv
    <2>1. ASSUME NEW l \in Int, l < next.line, \A k \in 1..Len(disk) : l < disk[k].line
          PROVE  l < next'.line /\ \A k \in 1..Len(disk') : l < disk'[k].line
      <3>1. l < next'.line
        BY <1>5, <2>1
      <3>2. ASSUME NEW k \in 1..Len(disk')
            PROVE  l < disk'[k].line
        <4>1. k \in 1..Len(disk) \/ k = Len(disk) + 1
          BY <1>3
        <4>2. QED
          BY <1>3, <2>1, <4>1
      <3>3. QED
        BY <3>1, <3>2
    <2>2. ASSUME NEW n \in 1..Len(emitted)
          PROVE  \A k \in 1..Len(disk') : emitted[n][1].line < disk'[k].line
      <3>1. emitted[n][1].line \in Int /\ emitted[n][1].line < next.line
        BY EmittedLines DEF EmittedInv
      <3>2. QED
        BY <2>1, <3>1 DEF NewVersionInv
    <2>3. ASSUME NEW n \in 1..Len(Buffer)
          PROVE  Buffer[n].line < next'.line /\ \A k \in 1..Len(disk') : Buffer[n].line < disk'[k].line
      <3>1. Buffer[n].line \in Int
        BY ContentIsRun
      <3>2. QED
        BY <2>1, <3>1 DEF NewVersionInv
    <2>4. ASSUME opened = "orphan", NEW n \in 1..Len(orphan)
          PROVE  orphan[n].line < next'.line /\ \A k \in 1..Len(disk') : orphan[n].line < disk'[k].line
      <3>1. orphan[n].line \in Int
        BY <2>4, ContentIsRun DEF Content
      <3>2. QED
        BY <2>1, <2>4, <3>1 DEF NewVersionInv
    <2>5. QED
      BY <1>1, <1>4, <2>2, <2>3, <2>4 DEF NewVersionInv
  <1>10. \A n \in 1..Len(emitted) : emitted[n][1].line < next'.line
    BY <1>5, EmittedLines DEF EmittedInv
  <1>11. CASE opened = "orphan"
    <2>1. Content' = Content /\ stale
      BY <1>1, <1>11 DEF Content, StaleInv
    <2>2. Follows' <=> Follows
      BY <1>1, <1>4, <2>1 DEF Follows
    <2>3. BufferInv'
      BY <1>1, <1>4, <2>1, <2>2 DEF BufferInv
    <2>4. EmittedInv'
      BY <1>1, <1>4, <1>10, <2>1 DEF EmittedInv
    <2>5. PassedInv'
      BY <1>1, <2>1 DEF PassedInv
    <2>6. QED
      BY <1>9, <2>3, <2>4, <2>5 DEF ReaderInv
  <1>12. CASE opened /= "orphan" /\ stale
    <2>1. Content' = disk' /\ position' > Len(Content')
      BY <1>1, <1>3, <1>6, <1>8, <1>12 DEF Content
    <2>2. BufferInv'
      BY <1>1, <1>4, <2>1 DEF BufferInv
    <2>3. ~(position' <= Len(Content'))
      BY <1>1, <1>3, <1>6, <2>1
    <2>4. EmittedInv'
      BY <1>1, <1>4, <1>10, <2>3 DEF EmittedInv
    <2>5. PassedInv'
      BY <1>1, <1>12 DEF PassedInv
    <2>6. QED
      BY <1>9, <2>2, <2>4, <2>5 DEF ReaderInv
  <1>13. CASE opened /= "orphan" /\ ~stale
    <2>1. Content = disk /\ Content' = disk' /\ position <= Len(disk)
      BY <1>1, <1>3, <1>6, <1>13 DEF Content, StaleInv
    <2>2. Follows
      BY <1>6, <2>1 DEF BufferInv
    <2>3. Follows'
      <3>1. Len(Buffer) <= position /\ Start <= position /\ Start >= 0
        BY <1>6, <2>2 DEF Follows
      <3>2. ASSUME NEW n \in 1..Len(Buffer)
            PROVE  Buffer[n] = disk'[Start + n]
        <4>1. Start + n \in 1..Len(disk)
          BY <1>3, <1>6, <2>1, <3>1
        <4>2. QED
          BY <1>3, <2>1, <2>2, <4>1 DEF Follows
      <3>3. ASSUME Start > 0
            PROVE  IsNewline(disk'[Start])
        <4>1. Start \in 1..Len(disk)
          BY <1>3, <1>6, <2>1, <3>1, <3>3
        <4>2. QED
          BY <1>3, <2>1, <2>2, <3>3, <4>1 DEF Follows
      <3>4. QED
        BY <1>1, <1>4, <2>1, <3>1, <3>2, <3>3 DEF Follows
    <2>4. BufferInv'
      BY <1>1, <1>4, <2>3 DEF BufferInv
    <2>5. ASSUME NEW n \in 1..Len(emitted), NEW k \in (Start + 1)..Len(disk')
          PROVE  emitted[n][1].line < disk'[k].line
      <3>1. Start >= 0
        BY <1>6, <2>2 DEF Follows
      <3>2. k \in (Start + 1)..Len(disk) \/ k = Len(disk) + 1
        BY <1>3, <1>6
      <3>3. CASE k = Len(disk) + 1
        BY <1>3, <3>3 DEF EmittedInv
      <3>4. CASE k \in (Start + 1)..Len(disk)
        <4>1. k \in 1..Len(disk) /\ disk'[k] = disk[k]
          BY <1>3, <1>6, <3>1, <3>4
        <4>2. QED
          BY <2>1, <3>4, <4>1 DEF EmittedInv
      <3>5. QED
        BY <3>2, <3>3, <3>4
    <2>6. EmittedInv'
      BY <1>1, <1>4, <1>10, <2>1, <2>5 DEF EmittedInv
    <2>7. PassedInv'
      <3>1. ASSUME NEW k \in 1..Start
            PROVE  k \in 1..Len(disk) /\ disk'[k] = disk[k]
        <4>1. Start <= Len(disk)
          BY <1>3, <1>6, <2>1
        <4>2. k \in 1..Len(disk)
          BY <1>3, <1>6, <4>1
        <4>3. QED
          BY <1>3, <4>2
      <3>2. QED
        BY <1>1, <1>4, <1>13, <3>1 DEF PassedInv
    <2>8. QED
      BY <1>9, <2>4, <2>6, <2>7 DEF ReaderInv
  <1>14. QED
    BY <1>11, <1>12, <1>13

\* What the stream reads becomes shorter than what was read, or nothing was read
\* and there is nothing.
LEMMA DetachStep ==
  ASSUME IInv, UNCHANGED <<position, pending, chunk, emitted, next>>,
         Len(Content') \in Nat,
         position > Len(Content') \/ (position = 0 /\ Content' = <<>>)
  PROVE  /\ BufferInv'
         /\ EmittedInv'
         /\ position = 0 => Start = 0 /\ Buffer = <<>>
  <1> USE DEF IInv
  <1>1. Buffer' = Buffer /\ Start' = Start
    BY DEF Buffer, Start
  <1>2. /\ Start \in Int /\ Len(Buffer) \in Nat /\ position \in Nat /\ Len(Content) \in Nat
        /\ Start = position - Len(Buffer) /\ Buffer \in Texts
    BY BufferType DEF TypeOK, Start
  <1>3. ASSUME position = 0
        PROVE  Start = 0 /\ Len(Buffer) = 0 /\ Buffer = <<>>
    <2>1. Follows
      BY <1>2, <1>3 DEF BufferInv
    <2>2. Len(Buffer) = 0
      BY <1>2, <1>3, <2>1 DEF Follows
    <2>3. QED
      BY <1>2, <1>3, <2>2 DEF Texts
  <1>4. CASE position > Len(Content')
    <2>1. BufferInv'
      BY <1>1, <1>4 DEF BufferInv
    <2>2. ASSUME position <= Len(Content')
          PROVE  FALSE
      BY <1>2, <1>4, <2>2
    <2>3. EmittedInv'
      BY <1>1, <2>2 DEF EmittedInv
    <2>4. QED
      BY <1>3, <2>1, <2>3
  <1>5. CASE position = 0 /\ Content' = <<>>
    <2>1. Len(Content') = 0
      BY <1>5
    <2>2. Follows'
      BY <1>1, <1>3, <1>5, <2>1 DEF Follows
    <2>3. BufferInv'
      BY <1>1, <2>2 DEF BufferInv
    <2>4. (Start + 1)..Len(Content') = {}
      BY <1>3, <1>5, <2>1
    <2>5. EmittedInv'
      BY <1>1, <2>4 DEF EmittedInv
    <2>6. QED
      BY <1>3, <2>3, <2>5
  <1>6. QED
    BY <1>4, <1>5

\* The file is truncated or deleted: the reader keeps the deleted one, or has
\* read more than the new one holds.
LEMMA RemovalStep ==
  ASSUME IInv, Truncate \/ Remove
  PROVE  ReaderInv'
  <1> USE DEF IInv
  <1>1. /\ disk' = <<>> /\ AtLineStart
        /\ UNCHANGED <<next, position, pending, chunk, emitted>>
    BY DEF Truncate, Remove, readerVars
  <1>2. \/ /\ opened = "path" /\ opened' = "orphan" /\ orphan' = disk
           /\ stale'
        \/ /\ UNCHANGED <<opened, orphan>>
           /\ stale' <=> stale \/ position > 0
    BY DEF Truncate, Remove, readerVars
  <1>3. Buffer' = Buffer /\ Start' = Start
    BY <1>1 DEF Buffer, Start
  <1>4. /\ Start \in Int /\ Len(Buffer) \in Nat /\ position \in Nat
        /\ Len(Content) \in Nat /\ Start = position - Len(Buffer)
        /\ Len(disk) \in Nat
    BY BufferType DEF TypeOK, Start, Texts
  <1>5. Len(disk') = 0
    BY <1>1
  <1>6. \A n \in 1..Len(disk) : disk[n].line < next.line
    BY <1>1 DEF WriterInv
  <1>7. ASSUME NEW n \in 1..Len(Buffer)
        PROVE  Buffer[n].line < next.line
    <2>1. CASE stale
      BY <2>1 DEF NewVersionInv
    <2>2. CASE ~stale
      <3>1. Content = disk /\ position <= Len(disk)
        BY <1>4, <2>2 DEF StaleInv, Content
      <3>2. Follows
        BY <1>4, <3>1 DEF BufferInv
      <3>3. Start + n \in 1..Len(disk) /\ Buffer[n] = disk[Start + n]
        BY <1>4, <3>1, <3>2 DEF Follows
      <3>4. QED
        BY <1>6, <3>3
    <2>3. QED
      BY <2>1, <2>2
  <1>8. NewVersionInv'
    <2>1. ASSUME opened' = "orphan", NEW n \in 1..Len(orphan')
          PROVE  orphan'[n].line < next.line
      <3>1. CASE orphan' = disk
        BY <1>6, <2>1, <3>1
      <3>2. CASE opened = "orphan" /\ UNCHANGED orphan
        BY <2>1, <3>2 DEF StaleInv, NewVersionInv
      <3>3. QED
        BY <1>2, <2>1, <3>1, <3>2
    <2>2. QED
      BY <1>1, <1>3, <1>5, <1>7, <2>1 DEF NewVersionInv
  <1>9. CASE opened' = "orphan"
    <2>1. Content' = Content /\ stale'
      BY <1>2, <1>9 DEF Content, StaleInv
    <2>2. Follows' <=> Follows
      BY <1>1, <1>3, <2>1 DEF Follows
    <2>3. BufferInv'
      BY <1>1, <1>3, <2>1, <2>2 DEF BufferInv
    <2>4. EmittedInv'
      BY <1>1, <1>3, <2>1 DEF EmittedInv
    <2>5. PassedInv'
      BY <2>1 DEF PassedInv
    <2>6. QED
      BY <1>8, <2>3, <2>4, <2>5 DEF ReaderInv
  <1>10. CASE opened' /= "orphan"
    <2>1. Content' = <<>> /\ Len(Content') = 0 /\ (stale' <=> stale \/ position > 0)
      BY <1>1, <1>2, <1>5, <1>10 DEF Content
    <2>2. /\ BufferInv' /\ EmittedInv'
          /\ position = 0 => Start = 0
      <3>1. position > Len(Content') \/ (position = 0 /\ Content' = <<>>)
        BY <1>4, <2>1
      <3>2. Len(Content') \in Nat
        BY <2>1
      <3>3. QED
        BY <1>1, <3>1, <3>2, DetachStep
    <2>3. PassedInv'
      <3>1. CASE position = 0
        BY <1>3, <2>2, <3>1 DEF PassedInv
      <3>2. CASE position > 0
        BY <2>1, <3>2 DEF PassedInv
      <3>3. QED
        BY <1>4, <3>1, <3>2
    <2>4. QED
      BY <1>8, <2>2, <2>3 DEF ReaderInv
  <1>11. QED
    BY <1>9, <1>10

\* The stream is closed: from now on the file at the path is what is followed.
LEMMA EndOfFileStep ==
  ASSUME IInv, EndOfFile
  PROVE  ReaderInv'
  <1> USE DEF IInv
  <1>1. /\ UNCHANGED <<disk, next, stale, position, pending, chunk, emitted>>
        /\ opened' = "closed"
    BY DEF EndOfFile, fileVars
  <1>2. Buffer' = Buffer /\ Start' = Start /\ Content' = disk
    BY <1>1 DEF Buffer, Start, Content
  <1>3. position \in Nat /\ Len(disk) \in Nat
    BY DEF TypeOK, Texts
  <1>4. NewVersionInv' /\ PassedInv'
    BY <1>1, <1>2 DEF NewVersionInv, PassedInv
  <1>5. CASE opened = "orphan"
    <2>1. position > Len(Content') \/ (position = 0 /\ Content' = <<>>)
      BY <1>2, <1>3, <1>5 DEF StaleInv
    <2>2. Len(Content') \in Nat
      BY <1>2, <1>3
    <2>3. BufferInv' /\ EmittedInv'
      BY <1>1, <2>1, <2>2, DetachStep
    <2>4. QED
      BY <1>4, <2>3 DEF ReaderInv
  <1>6. CASE opened /= "orphan"
    <2>1. Content' = Content
      BY <1>2, <1>6 DEF Content
    <2>2. Follows' <=> Follows
      BY <1>1, <1>2, <2>1 DEF Follows
    <2>3. BufferInv'
      BY <1>1, <1>2, <2>1, <2>2 DEF BufferInv
    <2>4. EmittedInv'
      BY <1>1, <1>2, <2>1 DEF EmittedInv
    <2>5. QED
      BY <1>4, <2>3, <2>4 DEF ReaderInv
  <1>7. QED
    BY <1>5, <1>6

\* Opening a file shorter than what was read starts over with it.
LEMMA OpenStep ==
  ASSUME IInv, Open
  PROVE  ReaderInv'
  <1> USE DEF IInv
  <1>1. /\ UNCHANGED <<disk, next, orphan, emitted, chunk>>
        /\ pc = "open" /\ opened = "closed" /\ chunk = <<>>
    BY DEF Open, StreamInv
  <1>2. CASE ~exists
    <2>1. UNCHANGED <<disk, next, stale, position, pending, opened, orphan, emitted>>
      BY <1>1, <1>2 DEF Open
    <2>2. Buffer' = Buffer
      BY <1>1, <2>1 DEF Buffer
    <2>3. \A n \in 1..Len(pending') : ~IsNewline(pending'[n])
      BY <2>1 DEF BufferInv
    <2>4. QED
      BY <2>1, <2>2, <2>3, QuietStep
  <1>3. ASSUME exists
        PROVE  /\ opened' = "path" /\ Content = disk /\ Content' = disk /\ ~stale'
               /\ Len(disk) < position => stale /\ position' = 0 /\ pending' = <<>>
               /\ ~(Len(disk) < position) => UNCHANGED <<position, pending>>
    <2>1. /\ opened' = "path"
          /\ stale' <=> stale /\ Len(disk) >= position /\ position > 0
          /\ Len(disk) < position => position' = 0 /\ pending' = <<>>
          /\ ~(Len(disk) < position) => UNCHANGED <<position, pending>>
      BY <1>3 DEF Open
    <2>2. position \in Nat /\ Len(disk) \in Nat
      BY DEF TypeOK, Texts
    <2>3. ~stale' /\ (Len(disk) < position => stale)
      BY <2>1, <2>2 DEF StaleInv
    <2>4. Content = disk /\ Content' = disk
      BY <1>1, <2>1 DEF Content
    <2>5. QED
      BY <2>1, <2>3, <2>4
  <1>4. CASE exists /\ Len(disk) < position
    <2>1. Buffer' = <<>> /\ Len(Buffer') = 0
      <3>1. pending' = <<>> /\ chunk' = <<>> /\ <<>> \o <<>> = <<>>
        BY <1>1, <1>3, <1>4
      <3>2. QED
        BY <3>1 DEF Buffer
    <2>2. Start' = 0 /\ position' = 0
      BY <1>3, <1>4, <2>1 DEF Start
    <2>3. Follows' /\ IsRun(Buffer')
      BY <2>1, <2>2 DEF Follows, IsRun
    <2>4. BufferInv'
      BY <1>3, <1>4, <2>3 DEF BufferInv
    <2>5. EmittedInv'
      <3>1. \A n \in 1..Len(emitted), k \in 1..Len(disk) : emitted[n][1].line < disk[k].line
        BY <1>3, <1>4 DEF NewVersionInv
      <3>2. (Start' + 1)..Len(Content') = 1..Len(disk) /\ Content' = disk
        BY <1>3, <1>4, <2>2
      <3>3. 1..Len(Buffer') = {}
        BY <2>1
      <3>4. QED
        BY <1>1, <3>1, <3>2, <3>3 DEF EmittedInv
    <2>6. NewVersionInv' /\ PassedInv'
      BY <1>3, <1>4, <2>2 DEF NewVersionInv, PassedInv
    <2>7. QED
      BY <2>4, <2>5, <2>6 DEF ReaderInv
  <1>5. CASE exists /\ ~(Len(disk) < position)
    <2>1. Buffer' = Buffer /\ Start' = Start /\ Content' = Content /\ UNCHANGED <<position, pending>>
      BY <1>1, <1>3, <1>5 DEF Buffer, Start
    <2>2. Follows' <=> Follows
      BY <2>1 DEF Follows
    <2>3. BufferInv'
      BY <2>1, <2>2 DEF BufferInv
    <2>4. EmittedInv'
      BY <1>1, <2>1 DEF EmittedInv
    <2>5. NewVersionInv'
      BY <1>3, <1>5 DEF NewVersionInv
    <2>6. PassedInv'
      <3>1. CASE stale
        <4>1. position = 0 /\ position \in Nat /\ Len(Buffer) \in Nat /\ Len(Content) \in Nat
          BY <1>5, <3>1, BufferType DEF StaleInv, TypeOK
        <4>2. Start = 0
          BY <4>1 DEF BufferInv, Follows, Start
        <4>3. QED
          BY <2>1, <4>2 DEF PassedInv
      <3>2. CASE ~stale
        BY <1>1, <2>1, <3>2 DEF PassedInv
      <3>3. QED
        BY <3>1, <3>2
    <2>7. QED
      BY <2>3, <2>4, <2>5, <2>6 DEF ReaderInv
  <1>6. QED
    BY <1>2, <1>4, <1>5

\* A restarted worker has nothing.
LEMMA RestartStep ==
  ASSUME IInv, Restart
  PROVE  ReaderInv'
  <1>1. /\ position' = 0 /\ pending' = <<>> /\ chunk' = <<>> /\ opened' = "closed"
        /\ emitted' = <<>> /\ ~stale'
    BY DEF Restart
  <1>2. Buffer' = <<>> /\ Len(Buffer') = 0
    <2>1. <<>> \o <<>> = <<>>
      OBVIOUS
    <2>2. QED
      BY <1>1, <2>1 DEF Buffer
  <1>3. Start' = 0
    <2>1. position' = 0 /\ Len(Buffer') = 0
      BY <1>1, <1>2
    <2>2. QED
      BY <2>1 DEF Start
  <1>4. Follows' /\ IsRun(Buffer')
    BY <1>1, <1>2, <1>3 DEF Follows, IsRun
  <1>5. BufferInv'
    BY <1>1, <1>4 DEF BufferInv
  <1>6. EmittedInv' /\ NewVersionInv' /\ PassedInv'
    BY <1>1, <1>3 DEF EmittedInv, NewVersionInv, PassedInv
  <1>7. QED
    BY <1>5, <1>6 DEF ReaderInv

\* What is read goes on where the buffer ends.
LEMMA ReadStep ==
  ASSUME IInv, ReadChunk
  PROVE  ReaderInv'
  <1> USE DEF IInv
  <1>1. /\ UNCHANGED <<disk, next, stale, pending, opened, orphan, emitted>>
        /\ chunk = <<>>
    BY DEF ReadChunk, fileVars, StreamInv
  <1>2. PICK size \in 1..MaxRead :
          /\ size \in Nat \ {0}
          /\ position + size <= Len(Content)
          /\ position' = position + size
          /\ chunk' \in Texts
          /\ Len(chunk') = size
          /\ \A k \in 1..size : chunk'[k] = Content[position + k]
    BY ReadPieces
  <1>3. Content' = Content
    BY <1>1 DEF Content
  <1>4. /\ Len(Buffer) \in Nat /\ Len(pending) \in Nat /\ Len(Content) \in Nat /\ position \in Nat
        /\ Len(Buffer) = Len(pending)
        /\ \A n \in 1..Len(Buffer) : Buffer[n] = pending[n]
        /\ Start = position - Len(Buffer)
        /\ Content \in Texts
    <2>1. Len(chunk) = 0
      BY <1>1
    <2>2. QED
      BY <2>1, BufferType DEF TypeOK, Start
  <1>5. Follows
    BY <1>2, <1>4 DEF BufferInv
  <1>6. /\ Buffer' \in Texts
        /\ Len(Buffer') = Len(Buffer) + size
        /\ \A n \in 1..Len(Buffer) : Buffer'[n] = Buffer[n]
        /\ \A n \in 1..size : Buffer'[Len(Buffer) + n] = chunk'[n]
    <2>1. pending' = pending /\ pending \in Seq(Written) /\ chunk' \in Seq(Written)
      BY <1>1, <1>2 DEF TypeOK, Texts
    <2>2. Buffer' = pending \o chunk'
      BY <2>1 DEF Buffer
    <2>3. /\ Buffer' \in Texts
          /\ Len(Buffer') = Len(pending) + Len(chunk')
          /\ \A n \in 1..Len(pending) : Buffer'[n] = pending[n]
          /\ \A n \in 1..Len(chunk') : Buffer'[Len(pending) + n] = chunk'[n]
      BY <2>1, <2>2 DEF Texts
    <2>4. QED
      BY <1>2, <1>4, <2>3
  <1>7. Start' = Start
    BY <1>2, <1>4, <1>6 DEF Start
  <1>8. Start \in Nat /\ Start + Len(Buffer') <= Len(Content) /\ Start + Len(Buffer) = position
    BY <1>2, <1>4, <1>5, <1>6 DEF Follows
  <1>9. ASSUME NEW n \in 1..Len(Buffer')
        PROVE  Buffer'[n] = Content[Start + n]
    <2>1. CASE n \in 1..Len(Buffer)
      BY <1>5, <1>6, <2>1 DEF Follows
    <2>2. CASE n \notin 1..Len(Buffer)
      <3>1. n - Len(Buffer) \in 1..size /\ n = Len(Buffer) + (n - Len(Buffer))
        BY <1>2, <1>4, <1>6, <2>2
      <3>2. PICK k \in 1..size : n = Len(Buffer) + k
        BY <3>1
      <3>3. Buffer'[n] = Content[position + k]
        BY <1>2, <1>6, <3>2
      <3>4. position + k = Start + n
        BY <1>2, <1>4, <1>8, <3>2
      <3>5. QED
        BY <3>3, <3>4
    <2>3. QED
      BY <2>1, <2>2
  <1>10. BufferInv'
    <2>1. IsRun(Content)
      BY ContentIsRun
    <2>2. Start > 0 => IsNewline(Content[Start])
      BY <1>5 DEF Follows
    <2>3. Start \in 0..Len(Content)
      BY <1>4, <1>8, <1>2, <1>6
    <2>4. IsRun(Buffer')
      BY <1>4, <1>6, <1>8, <1>9, <2>1, <2>2, <2>3, RunOfRun
    <2>5. Len(Buffer') <= position'
      BY <1>2, <1>4, <1>6, <1>8
    <2>6. Follows'
      BY <1>3, <1>7, <1>9, <2>2, <2>5 DEF Follows
    <2>7. QED
      BY <1>1, <2>4, <2>6 DEF BufferInv
  <1>11. ASSUME NEW n \in 1..Len(Buffer')
         PROVE  Start + n \in (Start + 1)..Len(Content) /\ Start + n \in 1..Len(Content)
    BY <1>4, <1>6, <1>8, <1>2
  <1>12. EmittedInv'
    <2>1. ASSUME NEW n \in 1..Len(emitted)
          PROVE  /\ \A k \in 1..Len(Buffer') : emitted[n][1].line < Buffer'[k].line
                 /\ \A k \in (Start + 1)..Len(Content) : emitted[n][1].line < Content[k].line
      <3>1. \A k \in (Start + 1)..Len(Content) : emitted[n][1].line < Content[k].line
        BY <1>2, <1>4 DEF EmittedInv
      <3>2. QED
        BY <1>9, <1>11, <3>1
    <2>2. QED
      BY <1>1, <1>3, <1>7, <2>1 DEF EmittedInv
  <1>13. NewVersionInv'
    <2>1. ASSUME stale, NEW n \in 1..Len(Buffer')
          PROVE  Buffer'[n].line < next.line /\ \A k \in 1..Len(disk) : Buffer'[n].line < disk[k].line
      <3>1. opened = "orphan"
        <4>1. ASSUME opened /= "orphan"
              PROVE  FALSE
          <5>1. Content = disk /\ Len(disk) \in Nat
            BY <1>4, <4>1 DEF Content
          <5>2. Len(disk) < position \/ Len(disk) = 0
            BY <2>1 DEF StaleInv
          <5>3. QED
            BY <1>2, <1>4, <5>1, <5>2
        <4>2. QED
          BY <4>1
      <3>2. Buffer'[n] = orphan[Start + n] /\ Start + n \in 1..Len(orphan)
        BY <1>9, <1>11, <3>1 DEF Content
      <3>3. QED
        BY <2>1, <3>1, <3>2 DEF NewVersionInv
    <2>2. QED
      BY <1>1, <2>1 DEF NewVersionInv
  <1>14. PassedInv'
    BY <1>1, <1>7 DEF PassedInv
  <1>15. QED
    BY <1>10, <1>12, <1>13, <1>14 DEF ReaderInv

\* The first line of the buffer is handed over, and comes before all that follows.
LEMMA HandOverStep ==
  ASSUME IInv, HandOver
  PROVE  ReaderInv'
  <1> USE DEF IInv
  <1>1. /\ UNCHANGED <<disk, next, stale, position, opened, orphan>>
        /\ pending' = <<>>
    BY DEF HandOver, fileVars
  <1>2. PICK n \in 1..Len(chunk) :
          /\ IsNewline(chunk[n])
          /\ \A m \in 1..(n - 1) : ~IsNewline(chunk[m])
          /\ chunk' = Left(n)
          /\ emitted' = IF Taken(n) = <<>> THEN emitted ELSE Append(emitted, Taken(n))
    BY DEF HandOver, Taken, Left
  <1> DEFINE size == Len(pending) + n
             l == Buffer[1].line
  <1>3. /\ size \in 1..Len(Buffer)
        /\ l \in 1..MaxLines
        /\ Taken(n) = Text(l)
        /\ IsNewline(Buffer[size]) /\ Buffer[size].line = l
        /\ \A m \in 1..(size - 1) : ~IsNewline(Buffer[m])
        /\ chunk' \in Texts
        /\ Len(chunk') = Len(Buffer) - size
        /\ \A m \in 1..Len(chunk') : chunk'[m] = Buffer[size + m]
    <2>1. chunk' = Left(n) /\ TypeOK /\ BufferInv
      BY <1>2
    <2>2. IsNewline(chunk[n]) /\ (\A m \in 1..(n - 1) : ~IsNewline(chunk[m]))
      BY <1>2
    <2>3. size = Len(pending) + n
      OBVIOUS
    <2> HIDE DEF size
    <2>4. SplitsOff(n, size)
      <3> HIDE DEF IInv, l
      <3> QED
        BY <2>1, <2>2, <2>3, FirstLineOfBuffer
    <2>5. chunk' \in Texts /\ Len(chunk') = Len(Buffer) - size
      BY <2>1, <2>4 DEF SplitsOff
    <2>6. \A m \in 1..Len(chunk') : chunk'[m] = Buffer[size + m]
      BY <2>1, <2>4 DEF SplitsOff
    <2>7. QED
      BY <2>4, <2>5, <2>6 DEF SplitsOff
  <1>4. Buffer' = chunk'
    <2>1. <<>> \o chunk' = chunk'
      BY <1>3 DEF Texts
    <2>2. QED
      BY <1>1, <2>1 DEF Buffer
  <1>5. /\ Buffer \in Texts /\ Buffer' \in Texts
        /\ Len(Buffer) \in Nat /\ Len(Content) \in Nat /\ position \in Nat /\ size \in Nat
        /\ Start \in Int /\ Start = position - Len(Buffer)
        /\ Len(emitted) \in Nat
        /\ 1 \in 1..Len(Buffer)
    <2>1. /\ Buffer \in Texts /\ Len(Buffer) \in Nat /\ Len(Content) \in Nat
          /\ Len(pending) \in Nat /\ Len(chunk) \in Nat /\ Start \in Int
      BY BufferType, LenProperties DEF Texts
    <2>2. Buffer' \in Texts
      BY <1>3, <1>4
    <2>3. position \in Nat /\ Len(emitted) \in Nat
      BY DEF TypeOK
    <2>4. size \in Nat /\ 1 \in 1..Len(Buffer)
      BY <1>3, <2>1
    <2>5. QED
      BY <2>1, <2>2, <2>3, <2>4 DEF Start
  <1> HIDE DEF size, l
  <1>6. Len(Buffer') = Len(Buffer) - size /\ Start' = Start + size
    <2>1. Start' = position - Len(Buffer')
      BY <1>1 DEF Start
    <2>2. QED
      BY <1>3, <1>4, <1>5, <2>1
  <1>7. ASSUME NEW m \in 1..Len(Buffer')
        PROVE  size + m \in 1..Len(Buffer) /\ size < size + m /\ Buffer'[m] = Buffer[size + m]
    <2>1. size + m \in 1..Len(Buffer) /\ size < size + m
      BY <1>3, <1>5, <1>6
    <2>2. chunk'[m] = Buffer[size + m]
      BY <1>3, <1>4
    <2>3. QED
      BY <1>4, <2>1, <2>2
  <1>8. Content' = Content
    BY <1>1 DEF Content
  <1>9. /\ IsRun(Content)
        /\ \A k \in 1..Len(Content) : Content[k].line \in Int
        /\ \A k \in 1..Len(Buffer) : Buffer[k].line \in Int
        /\ next.line \in Int
        /\ l \in Int
    BY <1>3, <1>5, ContentIsRun
  <1>10. ASSUME position <= Len(Content)
         PROVE  /\ Follows
                /\ Start \in Nat
                /\ Start' \in 1..Len(Content)
                /\ Content[Start'] = Buffer[size]
                /\ \A m \in 1..Len(Buffer) : Buffer[m] = Content[Start + m]
    <2>1. Follows
      BY <1>5, <1>10 DEF BufferInv
    <2>2. Len(Buffer) <= position /\ \A m \in 1..Len(Buffer) : Buffer[m] = Content[Start + m]
      BY <2>1 DEF Follows
    <2>3. Start \in Nat /\ Start' \in 1..Len(Content)
      BY <1>3, <1>5, <1>6, <1>10, <2>2
    <2>4. Content[Start'] = Buffer[size]
      BY <1>3, <1>6, <2>2
    <2>5. QED
      BY <2>1, <2>2, <2>3, <2>4
  <1>11. ASSUME ~stale
         PROVE  Content = disk /\ position <= Len(Content)
    BY <1>5, <1>11 DEF Content, StaleInv
  \* The line comes before what is behind it in the buffer and in the file, and
  \* before what is still to be written.
  <1>12. \A m \in 1..Len(Buffer') : l < Buffer'[m].line
    BY <1>3, <1>7 DEF BufferInv, IsRun
  <1>13. l < next.line
    <2>1. CASE stale
      BY <1>5, <2>1 DEF NewVersionInv, l
    <2>2. CASE ~stale
      BY <1>3, <1>10, <1>11, <2>2 DEF WriterInv
    <2>3. QED
      BY <2>1, <2>2
  <1>14. position <= Len(Content) => \A k \in (Start' + 1)..Len(Content) : l < Content[k].line
    <2> SUFFICES ASSUME position <= Len(Content), NEW k \in (Start' + 1)..Len(Content)
                 PROVE  l < Content[k].line
      OBVIOUS
    <2>1. Start' \in 1..Len(Content) /\ k \in 1..Len(Content) /\ Start' < k
      BY <1>5, <1>10
    <2>2. IsNewline(Content[Start']) /\ Content[Start'].line = l
      BY <1>3, <1>10
    <2>3. QED
      BY <1>9, <2>1, <2>2 DEF IsRun
  <1>15. BufferInv'
    <2>1. IsRun(Buffer)
      BY DEF BufferInv
    <2>2. size \in 0..Len(Buffer) /\ size + Len(Buffer') <= Len(Buffer)
      BY <1>3, <1>5, <1>6
    <2>3. IsRun(Buffer')
      BY <1>3, <1>5, <1>7, <2>1, <2>2, RunOfRun
    <2>4. ASSUME position <= Len(Content)
          PROVE  Follows'
      <3>1. Len(Buffer') <= position
        BY <1>3, <1>5, <1>6, <1>10, <2>4 DEF Follows
      <3>2. ASSUME NEW m \in 1..Len(Buffer')
            PROVE  Buffer'[m] = Content[Start' + m]
        <4>1. Buffer'[m] = Content[Start + (size + m)]
          BY <1>7, <1>10, <2>4
        <4>2. Start + (size + m) = Start' + m
          BY <1>5, <1>6
        <4>3. QED
          BY <4>1, <4>2
      <3>3. IsNewline(Content[Start'])
        BY <1>3, <1>10, <2>4
      <3>4. QED
        BY <1>1, <1>8, <3>1, <3>2, <3>3 DEF Follows
    <2>5. \A m \in 1..Len(pending') : ~IsNewline(pending'[m])
      <3>1. Len(pending') = 0
        BY <1>1
      <3>2. QED
        BY <3>1
    <2>6. position' > Len(Content') \/ Follows'
      BY <1>1, <1>5, <1>8, <2>4
    <2>7. QED
      BY <2>3, <2>5, <2>6 DEF BufferInv
  \* What was handed over before comes before it.
  <1>16. ASSUME NEW m \in 1..Len(emitted)
         PROVE  /\ emitted[m][1].line < l
                /\ emitted[m][1].line < next.line
                /\ \A k \in 1..Len(Buffer') : emitted[m][1].line < Buffer'[k].line
                /\ position <= Len(Content) =>
                     \A k \in (Start' + 1)..Len(Content) : emitted[m][1].line < Content[k].line
    <2>1. emitted[m][1].line < l
      BY <1>5 DEF EmittedInv, l
    <2>2. emitted[m][1].line \in Int
      BY EmittedLines
    <2>3. emitted[m][1].line < next.line
      BY DEF EmittedInv
    <2>4. \A k \in 1..Len(Buffer') : emitted[m][1].line < Buffer'[k].line
      BY <1>7 DEF EmittedInv
    <2>5. ASSUME position <= Len(Content), NEW k \in (Start' + 1)..Len(Content)
          PROVE  emitted[m][1].line < Content[k].line
      <3>1. /\ Start \in Int /\ size \in Nat /\ Start' = Start + size
            /\ Len(Content) \in Nat
        BY <1>3, <1>5, <1>6
      <3>2. k \in Int /\ Start' + 1 <= k /\ k <= Len(Content)
        BY <3>1
      <3>3. k \in (Start + 1)..Len(Content)
        BY <3>1, <3>2
      <3>4. QED
        BY <2>5, <3>3 DEF EmittedInv
    <2>6. QED
      BY <2>1, <2>3, <2>4, <2>5
  <1>17. CASE l \in BlankLines
    <2>1. emitted' = emitted
      BY <1>2, <1>3, <1>17 DEF Text
    <2>2. EmittedInv'
      BY <1>1, <1>8, <1>16, <2>1 DEF EmittedInv
    <2>3. NewVersionInv'
      BY <1>1, <1>7, <2>1 DEF NewVersionInv
    <2>4. PassedInv'
      <3> SUFFICES ASSUME ~stale, NEW k \in 1..Start',
                          IsNewline(disk[k]), disk[k].line \notin BlankLines
                   PROVE  \E m \in 1..Len(emitted) : emitted[m][1].line = disk[k].line
        BY <1>1, <2>1 DEF PassedInv
      <3>1. CASE k \in 1..Start
        BY <3>1 DEF PassedInv
      <3>2. CASE k \notin 1..Start
        <4>1. Start \in Nat /\ Content = disk /\ \A m \in 1..Len(Buffer) : Buffer[m] = disk[Start + m]
          BY <1>10, <1>11
        <4>2. k - Start \in 1..size /\ k = Start + (k - Start)
          BY <1>5, <1>6, <3>2, <4>1
        <4>3. PICK m \in 1..size : k = Start + m
          BY <4>2
        <4>4. m \in 1..Len(Buffer) /\ (m = size \/ m \in 1..(size - 1))
          BY <1>3, <1>5
        <4>5. disk[k] = Buffer[m]
          BY <4>1, <4>3, <4>4
        <4>6. QED
          BY <1>3, <1>17, <4>4, <4>5
      <3>3. QED
        BY <3>1, <3>2
    <2>5. QED
      BY <1>15, <2>2, <2>3, <2>4 DEF ReaderInv
  <1>18. CASE l \notin BlankLines
    <2>1. Text(l) /= <<>> /\ Text(l)[1].line = l
      BY <1>18 DEF Text, Piece
    <2>2. emitted' = Append(emitted, Text(l))
      BY <1>2, <1>3, <2>1
    <2> DEFINE last == Len(emitted) + 1
    <2>3. /\ Len(emitted') = last /\ emitted'[last] = Text(l)
          /\ \A m \in 1..Len(emitted) : emitted'[m] = emitted[m]
      BY <2>2 DEF TypeOK
    <2>4. \A m \in 1..Len(emitted') : m \in 1..Len(emitted) \/ m = last
      BY <1>5, <2>3
    <2> HIDE DEF last
    <2>5. EmittedInv'
      <3>1. ASSUME NEW m \in 1..Len(emitted')
            PROVE  /\ \E k \in (1..MaxLines) \ BlankLines : emitted'[m] = Text(k)
                   /\ emitted'[m][1].line < next.line
                   /\ \A k \in 1..Len(Buffer') : emitted'[m][1].line < Buffer'[k].line
                   /\ position <= Len(Content) =>
                        \A k \in (Start' + 1)..Len(Content) : emitted'[m][1].line < Content[k].line
        <4>1. CASE m \in 1..Len(emitted)
          <5>1. emitted'[m] = emitted[m]
            BY <2>3, <4>1
          <5>2. \E k \in (1..MaxLines) \ BlankLines : emitted[m] = Text(k)
            BY <4>1 DEF EmittedInv
          <5>3. QED
            BY <1>16, <4>1, <5>1, <5>2
        <4>2. CASE m = last
          <5>1. emitted'[m] = Text(l) /\ emitted'[m][1].line = l
            BY <2>1, <2>3, <4>2
          <5>2. l \in (1..MaxLines) \ BlankLines
            BY <1>3, <1>18
          <5>3. QED
            BY <1>12, <1>13, <1>14, <5>1, <5>2
        <4>3. QED
          BY <2>4, <4>1, <4>2
      <3>2. ASSUME NEW i \in 1..Len(emitted'), NEW j \in 1..Len(emitted'), i < j
            PROVE  emitted'[i][1].line < emitted'[j][1].line
        <4>1. i \in 1..Len(emitted) /\ emitted'[i] = emitted[i]
          BY <1>5, <2>3, <3>2 DEF last
        <4>2. CASE j \in 1..Len(emitted)
          BY <2>3, <3>2, <4>1, <4>2 DEF EmittedInv
        <4>3. CASE j = last
          BY <1>16, <2>1, <2>3, <4>1, <4>3
        <4>4. QED
          BY <2>4, <4>2, <4>3
      <3>3. QED
        BY <1>1, <1>8, <3>1, <3>2 DEF EmittedInv
    <2>6. NewVersionInv'
      <3> SUFFICES ASSUME stale
                   PROVE  NewVersionInv'
        BY <1>1 DEF NewVersionInv
      <3>1. ASSUME NEW m \in 1..Len(emitted'), NEW k \in 1..Len(disk)
            PROVE  emitted'[m][1].line < disk[k].line
        <4>1. CASE m \in 1..Len(emitted)
          BY <2>3, <4>1 DEF NewVersionInv
        <4>2. CASE m = last
          BY <1>5, <2>1, <2>3, <4>2 DEF NewVersionInv, l
        <4>3. QED
          BY <2>4, <4>1, <4>2
      <3>2. QED
        BY <1>1, <1>7, <3>1 DEF NewVersionInv
    <2>7. PassedInv'
      <3> SUFFICES ASSUME ~stale, NEW k \in 1..Start',
                          IsNewline(disk[k]), disk[k].line \notin BlankLines
                   PROVE  \E m \in 1..Len(emitted') : emitted'[m][1].line = disk[k].line
        BY <1>1 DEF PassedInv
      <3>1. CASE k \in 1..Start
        <4>1. PICK m \in 1..Len(emitted) : emitted[m][1].line = disk[k].line
          BY <3>1 DEF PassedInv
        <4>2. m \in 1..Len(emitted') /\ emitted'[m] = emitted[m]
          BY <1>5, <2>3 DEF last
        <4>3. QED
          BY <4>1, <4>2
      <3>2. CASE k \notin 1..Start
        <4>1. Start \in Nat /\ Content = disk /\ \A m \in 1..Len(Buffer) : Buffer[m] = disk[Start + m]
          BY <1>10, <1>11
        <4>2. k - Start \in 1..size /\ k = Start + (k - Start)
          BY <1>5, <1>6, <3>2, <4>1
        <4>3. PICK m \in 1..size : k = Start + m
          BY <4>2
        <4>4. m \in 1..Len(Buffer) /\ (m = size \/ m \in 1..(size - 1))
          BY <1>3, <1>5
        <4>5. disk[k] = Buffer[m]
          BY <4>1, <4>3, <4>4
        <4>6. disk[k].line = l
          BY <1>3, <4>4, <4>5
        <4>7. last \in 1..Len(emitted')
          BY <1>5, <2>3 DEF last
        <4>8. QED
          BY <2>1, <2>3, <4>6, <4>7
      <3>3. QED
        BY <3>1, <3>2
    <2>8. QED
      BY <1>15, <2>5, <2>6, <2>7 DEF ReaderInv
  <1>19. QED
    BY <1>17, <1>18

\* The rest of what was read is kept as the beginning of a line.
LEMMA KeepRestStep ==
  ASSUME IInv, KeepRest
  PROVE  ReaderInv'
  <1>1. /\ UNCHANGED <<disk, next, stale, position, opened, orphan, emitted>>
        /\ pending' = Buffer /\ chunk' = <<>>
        /\ \A n \in 1..Len(chunk) : ~IsNewline(chunk[n])
    BY DEF KeepRest, fileVars, Buffer
  <1>2. /\ Buffer \in Texts
        /\ Len(pending) \in Nat /\ Len(chunk) \in Nat
        /\ Len(Buffer) = Len(pending) + Len(chunk)
        /\ \A n \in 1..Len(pending) : Buffer[n] = pending[n]
        /\ \A n \in 1..Len(chunk) : Buffer[Len(pending) + n] = chunk[n]
    BY BufferType DEF IInv
  <1>3. Buffer' = Buffer
    <2>1. Buffer \o <<>> = Buffer
      BY <1>2 DEF Texts
    <2>2. Buffer' = pending' \o chunk'
      BY DEF Buffer
    <2>3. QED
      BY <1>1, <2>1, <2>2
  <1>4. ASSUME NEW n \in 1..Len(pending')
        PROVE  ~IsNewline(pending'[n])
    <2>1. CASE n \in 1..Len(pending)
      BY <1>1, <1>2, <2>1 DEF IInv, BufferInv
    <2>2. CASE n \notin 1..Len(pending)
      <3>1. n - Len(pending) \in 1..Len(chunk) /\ n = Len(pending) + (n - Len(pending))
        BY <1>1, <1>2, <2>2
      <3>2. PICK k \in 1..Len(chunk) : n = Len(pending) + k
        BY <3>1
      <3>3. QED
        BY <1>1, <1>2, <3>2
    <2>3. QED
      BY <2>1, <2>2
  <1>5. QED
    BY <1>1, <1>3, <1>4, QuietStep

\* Every step keeps the invariant, in the environment of Gentle.
LEMMA InvStep ==
  ASSUME IInv, [Next]_vars, Gentle
  PROVE  IInv'
  <1>1. TypeOK' /\ WriterInv' /\ StreamInv' /\ StaleInv'
    BY TypeStep, WriterStep, StreamStep, StaleStep DEF IInv
  <1>2. ReaderInv'
    <2>1. ASSUME UNCHANGED <<disk, next, stale, position, pending, chunk, opened, orphan, emitted>>
          PROVE  ReaderInv'
      <3>1. Buffer' = Buffer /\ \A n \in 1..Len(pending') : ~IsNewline(pending'[n])
        BY <2>1 DEF Buffer, IInv, BufferInv
      <3>2. QED
        BY <2>1, <3>1, QuietStep
    <2>2. CASE Create
      BY <2>1, <2>2 DEF Create, readerVars
    <2>3. CASE Poll
      BY <2>1, <2>3 DEF Poll, fileVars
    <2>4. CASE Delay
      BY <2>1, <2>4 DEF Delay, fileVars
    <2>5. CASE UNCHANGED vars
      BY <2>1, <2>5 DEF vars
    <2>6. QED
      BY <2>2, <2>3, <2>4, <2>5, NextCases, WriteStep, RemovalStep, OpenStep, ReadStep,
         EndOfFileStep, HandOverStep, KeepRestStep, RestartStep
  <1>3. QED
    BY <1>1, <1>2 DEF IInv, ReaderInv

\* The invariant always holds, in the environment of Gentle.
LEMMA InvCorrect ==
  ASSUME Gentle
  PROVE  Spec => []IInv
  <1>1. IInv /\ [Next]_vars => IInv'
    BY InvStep
  <1>2. QED
    BY <1>1, InvInit, PTL DEF Spec

-----------------------------------------------------------------------------
(* Theorems *)

\* Whatever the chunks, the polls, the truncations, the replacements and the
\* restarts, every line that is handed over is a whole line that was written:
\* the promise of TailingFileConnector's summary.
THEOREM LinesAreWhole ==
  ASSUME Gentle
  PROVE  Spec => []WholeLines
  <1>1. IInv => WholeLines
    BY DEF IInv, EmittedInv, WholeLines
  <1>2. QED
    BY <1>1, InvCorrect, PTL

\* The lines are handed over once, in the order they were written, and when a line
\* that stands in the file has been, so have those before it.
THEOREM NoLineIsOvertaken ==
  ASSUME Gentle
  PROVE  Spec => []NoneOvertaken
  <1>1. IInv => NoneOvertaken
    <2> SUFFICES ASSUME IInv
                 PROVE  NoneOvertaken
      OBVIOUS
    <2> USE DEF IInv
    <2>1. ASSUME NEW l \in Emitted \intersect Complete, NEW k \in Complete \ BlankLines, k < l
          PROVE  k \in Emitted
      <3>1. PICK i \in 1..Len(emitted) : emitted[i][1].line = l
        BY DEF Emitted
      <3>2. PICK m \in 1..Len(disk) : IsNewline(disk[m]) /\ disk[m].line = l
        BY DEF Complete
      <3>3. PICK n \in 1..Len(disk) : IsNewline(disk[n]) /\ disk[n].line = k
        BY DEF Complete
      <3>4. l \in Int /\ k \in Int
        BY <3>2, <3>3, ContentIsRun
      <3>5. ~stale
        BY <3>1, <3>2, <3>4 DEF NewVersionInv
      <3>6. /\ Content = disk /\ position <= Len(disk) /\ position \in Nat
            /\ Len(disk) \in Nat /\ Start \in Int
        BY <3>5, BufferType DEF Content, StaleInv, TypeOK, Texts
      <3>7. m <= Start
        BY <3>1, <3>2, <3>4, <3>6 DEF EmittedInv
      <3>8. n \in 1..Start
        <4>1. n < m
          <5>1. IsRun(disk)
            BY DEF WriterInv
          <5>2. m < n => l <= k
            BY <3>2, <3>3, <5>1 DEF IsRun
          <5>3. m \in Int /\ n \in Int /\ m # n
            BY <2>1, <3>2, <3>3, <3>4, <3>6
          <5>4. QED
            BY <2>1, <3>4, <5>2, <5>3
        <4>2. QED
          BY <3>6, <3>7, <4>1
      <3>9. PICK j \in 1..Len(emitted) : emitted[j][1].line = k
        BY <3>3, <3>5, <3>8 DEF PassedInv
      <3>10. emitted[j] /= <<>>
        <4>1. emitted[j] = Text(k)
          BY <3>9, EmittedLines
        <4>2. Len(Text(k)) = 2
          BY DEF Text
        <4>3. Len(emitted[j]) = 2 /\ Len(<<>>) = 0
          BY <4>1, <4>2
        <4>4. emitted[j] = <<>> => Len(emitted[j]) = Len(<<>>)
          OBVIOUS
        <4>5. QED
          BY <4>3, <4>4
      <3>11. QED
        BY <3>9, <3>10 DEF Emitted
    <2>2. QED
      BY <2>1 DEF NoneOvertaken, EmittedInv
  <1>2. QED
    BY <1>1, InvCorrect, PTL

=============================================================================
