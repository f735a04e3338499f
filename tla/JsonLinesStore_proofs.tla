------------------------ MODULE JsonLinesStore_proofs ------------------------
(***************************************************************************)
(* Theorems about JsonLinesStore for any callers, events, copies, sources  *)
(* and bound: what is stored after an append and after a rewrite, that the *)
(* file is one durable map of events whatever is interrupted, and that an  *)
(* uninterrupted store keeps one object per line.                          *)
(***************************************************************************)
EXTENDS JsonLinesStore, NaturalLemmas

-----------------------------------------------------------------------------
(* What is stored in a text *)

Copied == Copies \union {Absent}

Texts == Seq(Pieces)

\* A piece that is a copy of event i.
IsCopyOf(piece, i) == piece.kind = "object" /\ piece.id = i

\* The last copy of an event in a text exists, if there is any.
LEMMA LastCopy ==
  ASSUME NEW text \in Texts, NEW i, Occurrences(text, i) /= {}
  PROVE  \E n \in Occurrences(text, i) : \A m \in Occurrences(text, i) : m <= n
  <1>1. Occurrences(text, i) \subseteq Nat
    BY DEF Occurrences, Texts
  <1>2. Len(text) \in Nat /\ \A n \in Occurrences(text, i) : n <= Len(text)
    BY DEF Occurrences, Texts
  <1>3. QED
    BY <1>1, <1>2, GreatestNumber

\* Nothing is stored in an empty file.
LEMMA StoredEmpty == Stored(<<>>) = [i \in Ids |-> Absent]
  BY DEF Stored, Occurrences

\* The last copy counts, whichever way it is found.
LEMMA StoredAt ==
  ASSUME NEW text \in Texts, NEW i \in Ids,
         NEW n \in 1..Len(text), IsCopyOf(text[n], i),
         \A m \in 1..Len(text) : IsCopyOf(text[m], i) => m <= n
  PROVE  Stored(text)[i] = text[n].copy
  <1> DEFINE IsLast(x) == \A m \in Occurrences(text, i) : m <= x
             last == CHOOSE x \in Occurrences(text, i) : IsLast(x)
  <1>1. n \in Occurrences(text, i) /\ IsLast(n)
    BY DEF Occurrences, IsCopyOf
  <1>2. last \in Occurrences(text, i) /\ IsLast(last)
    BY <1>1
  <1>3. Occurrences(text, i) \subseteq Int
    BY DEF Occurrences
  <1>4. last = n
    BY <1>1, <1>2, <1>3
  <1>5. Stored(text)[i] = text[last].copy
    BY <1>1 DEF Stored
  <1>6. QED
    BY <1>4, <1>5

\* An event without a copy is not stored.
LEMMA StoredNowhere ==
  ASSUME NEW text \in Texts, NEW i \in Ids,
         \A m \in 1..Len(text) : ~IsCopyOf(text[m], i)
  PROVE  Stored(text)[i] = Absent
  BY DEF Stored, Occurrences, IsCopyOf

\* A piece is appended: it counts if it is a copy of the event.
LEMMA StoredAppend ==
  ASSUME NEW text \in Texts, NEW piece \in Pieces, NEW i \in Ids
  PROVE  Stored(Append(text, piece))[i] =
           IF IsCopyOf(piece, i) THEN piece.copy ELSE Stored(text)[i]
  <1> DEFINE longer == Append(text, piece)
  <1>1. /\ longer \in Texts
        /\ Len(text) \in Nat
        /\ Len(longer) = Len(text) + 1
        /\ longer[Len(text) + 1] = piece
        /\ \A n \in 1..Len(text) : longer[n] = text[n]
    BY DEF Texts
  <1> HIDE DEF longer
  <1>2. CASE IsCopyOf(piece, i)
    <2>1. /\ Len(text) + 1 \in 1..Len(longer)
          /\ \A m \in 1..Len(longer) : m <= Len(text) + 1
      BY <1>1
    <2>2. Stored(longer)[i] = longer[Len(text) + 1].copy
      BY <1>1, <1>2, <2>1, StoredAt
    <2>3. QED
      BY <1>1, <1>2, <2>2 DEF longer
  <1>3. CASE ~IsCopyOf(piece, i) /\ Occurrences(text, i) = {}
    <2>1. \A m \in 1..Len(text) : ~IsCopyOf(text[m], i)
      BY <1>3 DEF Occurrences, IsCopyOf
    <2>2. \A m \in 1..Len(longer) : ~IsCopyOf(longer[m], i)
      <3>1. ASSUME NEW m \in 1..Len(longer)
            PROVE  m \in 1..Len(text) \/ m = Len(text) + 1
        BY <1>1
      <3>2. QED
        BY <1>1, <1>3, <2>1, <3>1
    <2>3. Stored(longer)[i] = Absent /\ Stored(text)[i] = Absent
      BY <1>1, <2>1, <2>2, StoredNowhere
    <2>4. QED
      BY <1>3, <2>3 DEF longer
  <1>4. CASE ~IsCopyOf(piece, i) /\ Occurrences(text, i) /= {}
    <2>1. PICK n \in Occurrences(text, i) : \A m \in Occurrences(text, i) : m <= n
      BY <1>4, LastCopy
    <2>2. /\ n \in 1..Len(text)
          /\ IsCopyOf(text[n], i)
          /\ \A m \in 1..Len(text) : IsCopyOf(text[m], i) => m <= n
      BY <2>1 DEF Occurrences, IsCopyOf
    <2>3. n \in 1..Len(longer) /\ IsCopyOf(longer[n], i) /\ longer[n] = text[n]
      BY <1>1, <2>2
    <2>4. ASSUME NEW m \in 1..Len(longer), IsCopyOf(longer[m], i)
          PROVE  m <= n
      <3>1. m /= Len(text) + 1
        BY <1>1, <1>4, <2>4
      <3>2. m \in 1..Len(text)
        BY <1>1, <3>1
      <3>3. QED
        BY <1>1, <2>2, <2>4, <3>2
    <2>5. Stored(longer)[i] = longer[n].copy
      BY <1>1, <2>3, <2>4, StoredAt
    <2>6. Stored(text)[i] = text[n].copy
      BY <2>2, StoredAt
    <2>7. QED
      BY <1>4, <2>3, <2>5, <2>6 DEF longer
  <1>5. QED
    BY <1>2, <1>3, <1>4

\* What is stored of an event is a copy or nothing.
LEMMA StoredType ==
  ASSUME NEW text \in Texts
  PROVE  Stored(text) \in [Ids -> Copied]
  <1>1. ASSUME NEW i \in Ids
        PROVE  Stored(text)[i] \in Copied
    <2>1. CASE Occurrences(text, i) = {}
      BY <2>1 DEF Stored, Copied
    <2>2. CASE Occurrences(text, i) /= {}
      <3>1. PICK n \in Occurrences(text, i) : \A m \in Occurrences(text, i) : m <= n
        BY <2>2, LastCopy
      <3>2. /\ n \in 1..Len(text)
            /\ IsCopyOf(text[n], i)
            /\ \A m \in 1..Len(text) : IsCopyOf(text[m], i) => m <= n
        BY <3>1 DEF Occurrences, IsCopyOf
      <3>3. Stored(text)[i] = text[n].copy
        BY <3>2, StoredAt
      <3>4. text[n] \in Pieces
        BY <3>2 DEF Texts
      <3>5. text[n].copy \in Copies
        BY <3>2, <3>4 DEF Pieces, Events, Newline, Torn, IsCopyOf
      <3>6. QED
        BY <3>3, <3>5 DEF Copied
    <2>3. QED
      BY <2>1, <2>2
  <1>2. Stored(text) = [i \in Ids |-> Stored(text)[i]]
    BY DEF Stored
  <1>3. QED
    BY <1>1, <1>2

\* An object that reaches the file replaces the stored copy of its event.
LEMMA StoredObject ==
  ASSUME NEW text \in Texts, NEW i \in Ids, NEW v \in Copies
  PROVE  /\ Object(i, v) \in Pieces
         /\ Append(text, Object(i, v)) \in Texts
         /\ Stored(Append(text, Object(i, v))) = [Stored(text) EXCEPT ![i] = v]
  <1> DEFINE longer == Append(text, Object(i, v))
  <1>1. Object(i, v) \in Pieces
    BY DEF Object, Pieces, Events
  <1>2. longer \in Texts
    BY <1>1 DEF Texts
  <1>3. Stored(longer) \in [Ids -> Copied] /\ Stored(text) \in [Ids -> Copied]
    BY <1>2, StoredType
  <1>4. ASSUME NEW j \in Ids
        PROVE  Stored(longer)[j] = IF j = i THEN v ELSE Stored(text)[j]
    <2>1. IsCopyOf(Object(i, v), j) <=> j = i
      BY DEF IsCopyOf, Object
    <2>2. Object(i, v).copy = v
      BY DEF Object
    <2>3. QED
      BY <1>1, <2>1, <2>2, StoredAppend
  <1>5. QED
    BY <1>1, <1>2, <1>3, <1>4

\* Newlines and torn objects store nothing.
LEMMA StoredOther ==
  ASSUME NEW text \in Texts, NEW piece \in {Newline, Torn}
  PROVE  /\ Append(text, piece) \in Texts
         /\ Stored(Append(text, piece)) = Stored(text)
  <1>1. piece \in Pieces
    BY DEF Pieces
  <1>2. Append(text, piece) \in Texts
    BY <1>1 DEF Texts
  <1>3. \A j : ~IsCopyOf(piece, j)
    BY DEF IsCopyOf, Newline, Torn
  <1>4. \A j \in Ids : Stored(Append(text, piece))[j] = Stored(text)[j]
    BY <1>1, <1>3, StoredAppend
  <1>5. Stored(Append(text, piece)) \in [Ids -> Copied] /\ Stored(text) \in [Ids -> Copied]
    BY <1>2, StoredType
  <1>6. QED
    BY <1>2, <1>4, <1>5

\* A whole line replaces the stored copy of its event.
LEMMA StoredLine ==
  ASSUME NEW text \in Texts, NEW i \in Ids, NEW v \in Copies
  PROVE  /\ text \o <<Object(i, v), Newline>> \in Texts
         /\ Stored(text \o <<Object(i, v), Newline>>) = [Stored(text) EXCEPT ![i] = v]
  <1>1. text \o <<Object(i, v), Newline>> = Append(Append(text, Object(i, v)), Newline)
    BY StoredObject DEF Texts
  <1>2. /\ Append(text, Object(i, v)) \in Texts
        /\ Stored(Append(text, Object(i, v))) = [Stored(text) EXCEPT ![i] = v]
    BY StoredObject
  <1>3. /\ Append(Append(text, Object(i, v)), Newline) \in Texts
        /\ Stored(Append(Append(text, Object(i, v)), Newline)) = Stored(Append(text, Object(i, v)))
    BY <1>2, StoredOther
  <1>4. QED
    BY <1>1, <1>2, <1>3

-----------------------------------------------------------------------------
(* What a deletion keeps *)

Kept(piece, sources) == piece.kind = "object" /\ SourceOf[piece.id] \notin sources

\* The lines a deletion keeps, collected up to each line of the text.
LEMMA RemainingByLine ==
  ASSUME NEW text \in Texts, NEW sources
  PROVE  \E upTo :
           /\ upTo[0] = <<>>
           /\ \A n \in 1..Len(text) :
                upTo[n] = IF Kept(text[n], sources) THEN Append(upTo[n - 1], text[n])
                          ELSE upTo[n - 1]
           /\ Remaining(text, sources) = upTo[Len(text)]
  <1> DEFINE L == Len(text)
             step == [n \in 1..L |->
                        [t \in Texts |-> IF Kept(text[n], sources) THEN Append(t, text[n]) ELSE t]]
             Lines(f) == f = [n \in 0..L |->
                                IF n = 0 THEN <<>>
                                ELSE IF text[n].kind = "object" /\ SourceOf[text[n].id] \notin sources
                                     THEN Append(f[n - 1], text[n])
                                ELSE f[n - 1]]
  <1>1. L \in Nat /\ \A n \in 1..L : text[n] \in Pieces
    BY DEF Texts
  <1>2. <<>> \in Texts /\ \A t \in Texts, piece \in Pieces : Append(t, piece) \in Texts
    BY DEF Texts
  <1>3. IsStep(step, L, Texts)
    BY <1>1, <1>2 DEF IsStep
  <1>4. PICK f : IsRecursion(f, L, Texts, <<>>, step)
    <2> HIDE DEF step, L
    <2>1. QED
      BY <1>1, <1>2, <1>3, RecursiveFunction
  <1>5. Lines(f)
    <2>1. ASSUME NEW n \in 1..L
          PROVE  step[n][f[n - 1]] =
                   IF Kept(text[n], sources) THEN Append(f[n - 1], text[n]) ELSE f[n - 1]
      <3>1. n - 1 \in 0..L
        BY <1>1
      <3>2. f[n - 1] \in Texts
        BY <1>4, <3>1 DEF IsRecursion
      <3>3. QED
        BY <3>2
    <2>2. \A n \in 0..L : n /= 0 => n \in 1..L
      BY <1>1
    <2>3. QED
      BY <1>4, <2>1, <2>2 DEF Kept, IsRecursion
  <1>6. \E g : Lines(g) /\ Remaining(text, sources) = g[L]
    BY <1>5, Zenon DEF Remaining
  <1>7. PICK g : Lines(g) /\ Remaining(text, sources) = g[L]
    BY <1>6
  <1>8. g[0] = <<>>
    <2>1. 0 \in 0..L
      BY <1>1
    <2>2. QED
      BY <1>7, <2>1
  <1>9. ASSUME NEW n \in 1..L
        PROVE  g[n] = IF Kept(text[n], sources) THEN Append(g[n - 1], text[n]) ELSE g[n - 1]
    <2>1. n \in 0..L /\ n /= 0
      BY <1>1
    <2>2. QED
      BY <1>7, <2>1 DEF Kept
  <1>10. QED
    BY <1>7, <1>8, <1>9

\* A deletion keeps whole objects, and of every event exactly the last copy that
\* was stored, unless its source is deleted.
LEMMA RemainingStored ==
  ASSUME NEW text \in Texts, NEW sources
  PROVE  /\ Remaining(text, sources) \in Seq(Events)
         /\ \A i \in Ids : Stored(Remaining(text, sources))[i] =
                             IF SourceOf[i] \in sources THEN Absent ELSE Stored(text)[i]
  <1> DEFINE L == Len(text)
             Prefix(n) == SubSeq(text, 1, n)
  <1>1. PICK upTo :
           /\ upTo[0] = <<>>
           /\ \A n \in 1..L :
                upTo[n] = IF Kept(text[n], sources) THEN Append(upTo[n - 1], text[n])
                          ELSE upTo[n - 1]
           /\ Remaining(text, sources) = upTo[L]
    BY RemainingByLine
  <1> DEFINE Agrees(n) ==
               /\ upTo[n] \in Seq(Events)
               /\ \A i \in Ids : Stored(upTo[n])[i] =
                                   IF SourceOf[i] \in sources THEN Absent ELSE Stored(Prefix(n))[i]
             Agreed == {n \in Nat : n <= L => Agrees(n)}
  <1>2. L \in Nat /\ \A n \in 1..L : text[n] \in Pieces
    BY DEF Texts
  <1>3. 0 \in Agreed
    <2>1. Prefix(0) = <<>>
      BY DEF Texts
    <2>2. \A i \in Ids : Stored(<<>>)[i] = Absent
      BY StoredEmpty
    <2>3. <<>> \in Seq(Events)
      OBVIOUS
    <2>4. QED
      BY <1>1, <2>1, <2>2, <2>3
  <1>4. ASSUME NEW n \in Agreed
        PROVE  n + 1 \in Agreed
    <2>1. n \in Nat /\ n + 1 \in Nat /\ n + 1 - 1 = n
      OBVIOUS
    <2>2. SUFFICES ASSUME n + 1 <= L
                   PROVE  Agrees(n + 1)
      <3> HIDE DEF Agrees
      <3>1. QED
        BY <2>1
    <2>3. n + 1 \in 1..L /\ Agrees(n)
      BY <1>2, <2>1, <2>2
    <2> DEFINE piece == text[n + 1]
    <2>4. piece \in Pieces
      BY <1>2, <2>3
    <2>5. Prefix(n) \in Texts /\ Prefix(n + 1) = Append(Prefix(n), piece)
      BY <1>2, <2>1, <2>3 DEF Texts
    <2>6. upTo[n + 1] = IF Kept(piece, sources) THEN Append(upTo[n], piece) ELSE upTo[n]
      BY <1>1, <2>1, <2>3
    <2>7. upTo[n] \in Texts
      BY <2>3 DEF Texts, Pieces
    <2>8. ASSUME NEW i \in Ids
          PROVE  Stored(Prefix(n + 1))[i] =
                   IF IsCopyOf(piece, i) THEN piece.copy ELSE Stored(Prefix(n))[i]
      BY <2>4, <2>5, StoredAppend
    <2> HIDE DEF Prefix
    <2>9. CASE Kept(piece, sources)
      <3>1. piece \in Events
        BY <2>4, <2>9 DEF Kept, Pieces, Newline, Torn
      <3>2. upTo[n + 1] \in Seq(Events)
        BY <2>3, <2>6, <2>9, <3>1
      <3>3. ASSUME NEW i \in Ids
            PROVE  Stored(upTo[n + 1])[i] =
                     IF IsCopyOf(piece, i) THEN piece.copy ELSE Stored(upTo[n])[i]
        BY <2>4, <2>6, <2>7, <2>9, StoredAppend
      <3>4. \A i \in Ids : IsCopyOf(piece, i) => SourceOf[i] \notin sources
        BY <2>9 DEF Kept, IsCopyOf
      <3>5. QED
        BY <2>3, <2>8, <3>2, <3>3, <3>4
    <2>10. CASE ~Kept(piece, sources)
      <3>1. \A i \in Ids : IsCopyOf(piece, i) => SourceOf[i] \in sources
        BY <2>10 DEF Kept, IsCopyOf
      <3>2. QED
        BY <2>3, <2>6, <2>8, <2>10, <3>1
    <2>11. QED
      BY <2>9, <2>10
  <1>5. Agreed = Nat
    <2>1. Agreed \subseteq Nat
      OBVIOUS
    <2> HIDE DEF Agreed
    <2>2. QED
      BY <1>3, <1>4, <2>1, SetInduction
  <1>6. Agrees(L)
    BY <1>2, <1>5
  <1>7. Prefix(L) = text
    BY <1>2 DEF Texts
  <1>8. QED
    BY <1>1, <1>6, <1>7

\* A file is readable and the next append starts a line of its own.
Closed(text) ==
  /\ Readable(text)
  /\ text /= <<>> => text[Len(text)] = Newline

\* The rewritten file: the objects at the odd positions, a newline after each.
LEMMA LinesByPosition ==
  ASSUME NEW objects \in Seq(Events)
  PROVE  /\ AsLines(objects) \in Texts
         /\ Len(AsLines(objects)) = 2 * Len(objects)
         /\ \A n \in 1..Len(objects) : /\ AsLines(objects)[2 * n - 1] = objects[n]
                                       /\ AsLines(objects)[2 * n] = Newline
         /\ \A m \in 1..(2 * Len(objects)) :
              \E n \in 1..Len(objects) : m = 2 * n - 1 \/ m = 2 * n
  <1> DEFINE L == Len(objects)
             lines == AsLines(objects)
  <1>1. L \in Nat /\ 2 * L \in Nat /\ \A n \in 1..L : objects[n] \in Events
    OBVIOUS
  <1>2. ASSUME NEW m \in 1..(2 * L)
        PROVE  \E n \in 1..L : m = 2 * n - 1 \/ m = 2 * n
    <2>1. CASE m % 2 = 1
      <3>1. (m + 1) \div 2 \in 1..L /\ m = 2 * ((m + 1) \div 2) - 1
        BY <1>1, <2>1
      <3>2. QED
        BY <3>1
    <2>2. CASE m % 2 /= 1
      <3>1. m \div 2 \in 1..L /\ m = 2 * (m \div 2)
        BY <1>1, <2>2
      <3>2. QED
        BY <3>1
    <2>3. QED
      BY <2>1, <2>2
  <1>3. ASSUME NEW n \in 1..L
        PROVE  lines[2 * n - 1] = objects[n] /\ lines[2 * n] = Newline
    <2>1. /\ 2 * n - 1 \in 1..(2 * L) /\ (2 * n - 1) % 2 = 1 /\ (2 * n - 1 + 1) \div 2 = n
          /\ 2 * n \in 1..(2 * L) /\ (2 * n) % 2 = 0
      BY <1>1
    <2>2. QED
      BY <2>1 DEF AsLines
  <1>4. \A m \in 1..(2 * L) : lines[m] \in Pieces
    BY <1>1, <1>2, <1>3 DEF Pieces
  <1>5. lines = [m \in 1..(2 * L) |-> lines[m]]
    BY DEF AsLines
  <1>6. lines \in Texts /\ Len(lines) = 2 * L
    <2> HIDE DEF lines, L
    <2>1. lines \in [1..(2 * L) -> Pieces]
      BY <1>4, <1>5
    <2>2. QED
      BY <1>1, <2>1 DEF Texts
  <1>7. QED
    BY <1>2, <1>3, <1>6

\* Written back line by line, the same copies are stored.
LEMMA LinesStored ==
  ASSUME NEW objects \in Seq(Events), NEW i \in Ids
  PROVE  Stored(AsLines(objects))[i] = Stored(objects)[i]
  <1> DEFINE lines == AsLines(objects)
             L == Len(objects)
  <1>1. /\ lines \in Texts
        /\ L \in Nat
        /\ Len(lines) = 2 * L
        /\ \A n \in 1..L : lines[2 * n - 1] = objects[n] /\ lines[2 * n] = Newline
        /\ \A m \in 1..(2 * L) : \E n \in 1..L : m = 2 * n - 1 \/ m = 2 * n
    BY LinesByPosition
  <1>2. objects \in Texts
    BY DEF Texts, Pieces
  <1>3. ~IsCopyOf(Newline, i)
    BY DEF IsCopyOf, Newline
  <1> HIDE DEF lines
  <1>4. CASE Occurrences(objects, i) = {}
    <2>1. \A n \in 1..L : ~IsCopyOf(objects[n], i)
      BY <1>4 DEF Occurrences, IsCopyOf
    <2>2. \A m \in 1..Len(lines) : ~IsCopyOf(lines[m], i)
      BY <1>1, <1>3, <2>1
    <2>3. Stored(lines)[i] = Absent /\ Stored(objects)[i] = Absent
      BY <1>1, <1>2, <2>1, <2>2, StoredNowhere
    <2>4. QED
      BY <2>3 DEF lines
  <1>5. CASE Occurrences(objects, i) /= {}
    <2>1. PICK n \in Occurrences(objects, i) : \A m \in Occurrences(objects, i) : m <= n
      BY <1>2, <1>5, LastCopy
    <2>2. /\ n \in 1..L
          /\ IsCopyOf(objects[n], i)
          /\ \A m \in 1..L : IsCopyOf(objects[m], i) => m <= n
      BY <2>1 DEF Occurrences, IsCopyOf
    <2>3. /\ 2 * n - 1 \in 1..Len(lines)
          /\ lines[2 * n - 1] = objects[n]
      BY <1>1, <2>2
    <2>4. ASSUME NEW m \in 1..Len(lines), IsCopyOf(lines[m], i)
          PROVE  m <= 2 * n - 1
      <3>1. PICK k \in 1..L : m = 2 * k - 1 \/ m = 2 * k
        BY <1>1
      <3>2. m = 2 * k - 1 /\ lines[m] = objects[k]
        BY <1>1, <1>3, <2>4, <3>1
      <3>3. k <= n
        BY <2>2, <2>4, <3>2
      <3>4. QED
        BY <2>2, <3>1, <3>2, <3>3
    <2>5. Stored(lines)[i] = lines[2 * n - 1].copy
      BY <1>1, <2>2, <2>3, <2>4, StoredAt
    <2>6. Stored(objects)[i] = objects[n].copy
      BY <1>2, <2>2, StoredAt
    <2>7. QED
      BY <2>3, <2>5, <2>6 DEF lines
  <1>6. QED
    BY <1>4, <1>5

\* The rewritten file is readable and ends a line.
LEMMA LinesClosed ==
  ASSUME NEW objects \in Seq(Events)
  PROVE  Closed(AsLines(objects))
  <1> DEFINE lines == AsLines(objects)
             L == Len(objects)
  <1>1. /\ lines \in Texts
        /\ L \in Nat
        /\ Len(lines) = 2 * L
        /\ \A n \in 1..L : lines[2 * n - 1] = objects[n] /\ lines[2 * n] = Newline
        /\ \A m \in 1..(2 * L) : \E n \in 1..L : m = 2 * n - 1 \/ m = 2 * n
    BY LinesByPosition
  <1>2. \A n \in 1..L : objects[n] /= Torn
    BY DEF Events, Torn
  <1>3. Newline /= Torn
    BY DEF Newline, Torn
  <1> HIDE DEF lines
  <1>4. ASSUME NEW m \in 1..Len(lines)
        PROVE  /\ lines[m] /= Torn
               /\ (m < Len(lines) /\ lines[m] /= Newline) => lines[m + 1] = Newline
    <2>1. PICK n \in 1..L : m = 2 * n - 1 \/ m = 2 * n
      BY <1>1
    <2>2. CASE m = 2 * n
      BY <1>1, <1>3, <2>1, <2>2
    <2>3. CASE m = 2 * n - 1
      <3>1. m + 1 = 2 * n /\ lines[m] = objects[n]
        BY <1>1, <2>1, <2>3
      <3>2. QED
        BY <1>1, <1>2, <3>1
    <2>4. QED
      BY <2>1, <2>2, <2>3
  <1>5. ASSUME lines /= <<>>
        PROVE  lines[Len(lines)] = Newline
    <2>1. L \in 1..L
      BY <1>1, <1>5 DEF Texts
    <2>2. QED
      BY <1>1, <2>1
  <1>6. QED
    BY <1>4, <1>5 DEF Closed, Readable, lines

\* A whole line added to a closed file leaves it closed.
LEMMA ClosedLine ==
  ASSUME NEW text \in Texts, Closed(text), NEW i \in Ids, NEW v \in Copies
  PROVE  Closed(text \o <<Object(i, v), Newline>>)
  <1> DEFINE L == Len(text)
             longer == text \o <<Object(i, v), Newline>>
  <1>1. /\ L \in Nat
        /\ Len(longer) = L + 2
        /\ \A n \in 1..L : longer[n] = text[n]
        /\ longer[L + 1] = Object(i, v)
        /\ longer[L + 2] = Newline
    BY DEF Texts
  <1>2. Object(i, v) /= Torn /\ Newline /= Torn
    BY DEF Object, Newline, Torn
  <1>3. L /= 0 => text[L] = Newline
    BY DEF Closed, Texts
  <1> HIDE DEF longer
  <1>4. ASSUME NEW n \in 1..Len(longer)
        PROVE  /\ longer[n] /= Torn
               /\ (n < Len(longer) /\ longer[n] /= Newline) => longer[n + 1] = Newline
    <2>1. CASE n \in 1..L
      <3>1. /\ text[n] /= Torn
            /\ (n < L /\ text[n] /= Newline) => text[n + 1] = Newline
        BY <2>1 DEF Closed, Readable
      <3>2. n < L => longer[n + 1] = text[n + 1]
        BY <1>1, <2>1
      <3>3. QED
        BY <1>1, <1>3, <2>1, <3>1, <3>2
    <2>2. CASE n = L + 1
      <3>1. n + 1 = L + 2 /\ longer[n + 1] = Newline
        BY <1>1, <2>2
      <3>2. QED
        BY <1>1, <1>2, <2>2, <3>1
    <2>3. CASE n = L + 2
      BY <1>1, <1>2, <2>3
    <2>4. QED
      BY <1>1, <2>1, <2>2, <2>3
  <1>5. longer[Len(longer)] = Newline
    BY <1>1
  <1>6. QED
    BY <1>4, <1>5 DEF Closed, Readable, longer

-----------------------------------------------------------------------------
(* The inductive invariant *)

Steps == {"idle", "gate", "start", "newline", "close", "replace", "release"}

TypeOK ==
  /\ file \in Texts
  /\ gate \in Callers \union {NoCaller}
  /\ pc \in [Callers -> Steps]
  /\ call \in [Callers -> Calls]
  /\ kept \in Seq(Events)

\* Who is past the gate holds it.
HoldsGate == \A c \in Callers : pc[c] \in InsideGate => gate = c

\* Only a save appends, and only a deletion replaces the file.
RightCall ==
  \A c \in Callers : /\ pc[c] \in Appending => call[c].op = "save"
                     /\ pc[c] = "replace" => call[c].op = "delete"

\* What a deletion is about to write back is what it keeps of the file as it is
\* now, and it could read all of that file.
ScanIsCurrent ==
  \A c \in Callers :
    pc[c] = "replace" => Readable(file) /\ kept = Remaining(file, call[c].sources)

IInv == TypeOK /\ HoldsGate /\ RightCall /\ ScanIsCurrent

-----------------------------------------------------------------------------
(* Steps *)

\* The actions a case split of Next ends in.
LEMMA NextCases ==
  ASSUME Next
  PROVE  \/ \E c \in Callers, request \in Calls : Call(c, request)
         \/ \E c \in Callers : \/ EnterGate(c) \/ Serialize(c) \/ WriteNewline(c) \/ Close(c)
                               \/ Search(c) \/ Scan(c) \/ Replace(c) \/ LeaveGate(c)
                               \/ CancelWait(c) \/ Cancel(c) \/ CancelAppend(c)
         \/ Restart
  BY DEF Next, Advance

\* What the requests name.
LEMMA CallFields ==
  ASSUME NEW request \in Calls
  PROVE  /\ request.op = "save" => request.id \in Ids /\ request.copy \in Copies
         /\ request.op = "delete" => request.sources \in {{s} : s \in Sources} \union {Sources}
  BY DEF Calls

\* What a killed append leaves is text.
LEMMA LeftoversType ==
  ASSUME TypeOK, NEW c \in Callers, call[c].op = "save", NEW left \in Leftovers(c)
  PROVE  file \o left \in Texts
  <1>1. call[c].id \in Ids /\ call[c].copy \in Copies
    BY CallFields DEF TypeOK
  <1>2. Object(call[c].id, call[c].copy) \in Pieces /\ Torn \in Pieces /\ Newline \in Pieces
    BY <1>1 DEF Object, Pieces, Events
  <1> DEFINE object == Object(call[c].id, call[c].copy)
  <1>3. left = <<>> \/ left = <<Torn>> \/ left = <<object>> \/ left = <<object, Newline>>
    BY DEF Leftovers
  <1>4. left \in Texts
    <2> HIDE DEF object
    <2>1. <<>> \in Texts /\ <<Torn>> \in Texts
      BY <1>2 DEF Texts
    <2>2. <<object>> \in Texts /\ <<object, Newline>> \in Texts
      BY <1>2 DEF Texts, object
    <2>3. QED
      BY <1>3, <2>1, <2>2
  <1>5. QED
    BY <1>4 DEF TypeOK, Texts

\* Initially.
LEMMA InvInit == Init => IInv
  <1> SUFFICES ASSUME Init
               PROVE  IInv
    OBVIOUS
  <1>1. TypeOK
    BY DEF Init, TypeOK, Texts, Steps, Calls
  <1>2. HoldsGate /\ RightCall /\ ScanIsCurrent
    BY DEF Init, HoldsGate, RightCall, ScanIsCurrent, InsideGate, Appending
  <1>3. QED
    BY <1>1, <1>2 DEF IInv

\* Types are kept by every step.
LEMMA TypeStep ==
  ASSUME IInv, [Next]_vars
  PROVE  TypeOK'
  <1> USE DEF IInv, TypeOK
  <1>1. ASSUME NEW c \in Callers, NEW request \in Calls, Call(c, request)
        PROVE  TypeOK'
    BY <1>1 DEF Call, Goto, Steps
  <1>2. ASSUME NEW c \in Callers, EnterGate(c)
        PROVE  TypeOK'
    BY <1>2 DEF EnterGate, Goto, Steps
  <1>3. ASSUME NEW c \in Callers, Serialize(c) \/ WriteNewline(c) \/ Search(c) \/ CancelWait(c)
        PROVE  TypeOK'
    BY <1>3 DEF Serialize, WriteNewline, Search, CancelWait, Goto, Steps
  <1>4. ASSUME NEW c \in Callers, Close(c)
        PROVE  TypeOK'
    <2>1. call[c].op = "save"
      BY <1>4 DEF Close, Goto, RightCall, Appending
    <2>2. file' \in Texts
      BY <1>4, <2>1, CallFields, StoredLine DEF Close
    <2>3. QED
      BY <1>4, <2>2 DEF Close, Goto, Steps
  <1>5. ASSUME NEW c \in Callers, Scan(c)
        PROVE  TypeOK'
    <2>1. Remaining(file, call[c].sources) \in Seq(Events)
      BY RemainingStored
    <2>2. kept' \in Seq(Events)
      BY <1>5, <2>1 DEF Scan
    <2>3. pc' \in [Callers -> Steps]
      BY <1>5 DEF Scan, Goto, Steps
    <2>4. QED
      BY <1>5, <2>2, <2>3 DEF Scan
  <1>6. ASSUME NEW c \in Callers, Replace(c)
        PROVE  TypeOK'
    <2>1. file' \in Texts
      BY <1>6, LinesByPosition DEF Replace
    <2>2. QED
      BY <1>6, <2>1 DEF Replace, Goto, Steps
  <1>7. ASSUME NEW c \in Callers, LeaveGate(c)
        PROVE  TypeOK'
    BY <1>7 DEF LeaveGate, Goto, Steps
  <1>8. ASSUME NEW c \in Callers, Cancel(c)
        PROVE  TypeOK'
    BY <1>8 DEF Cancel, Goto, Steps
  <1>9. ASSUME NEW c \in Callers, CancelAppend(c)
        PROVE  TypeOK'
    <2>1. call[c].op = "save"
      BY <1>9 DEF CancelAppend, Goto, RightCall, Appending
    <2>2. file \o <<Torn>> \in Texts
      BY LeftoversType, <2>1 DEF Leftovers
    <2>3. Append(file, Object(call[c].id, call[c].copy)) \in Texts
      BY <2>1, CallFields, StoredObject
    <2>4. file' \in Texts
      BY <1>9, <2>2, <2>3 DEF CancelAppend
    <2>5. QED
      BY <1>9, <2>4 DEF CancelAppend, Goto, Steps
  <1>10. ASSUME Restart
         PROVE  TypeOK'
    <2>1. file' \in Texts
      <3>1. ASSUME NEW c \in Callers, pc[c] \in Appending, NEW left \in Leftovers(c)
            PROVE  file \o left \in Texts
        BY <3>1, LeftoversType DEF RightCall
      <3>2. QED
        BY <1>10, <3>1 DEF Restart
    <2>2. QED
      BY <1>10, <2>1 DEF Restart, Steps
  <1>11. CASE UNCHANGED vars
    BY <1>11 DEF vars
  <1>12. QED
    BY <1>1, <1>2, <1>3, <1>4, <1>5, <1>6, <1>7, <1>8, <1>9, <1>10, <1>11, NextCases

\* One caller at a time is past the gate, and each is where its call leads.
LEMMA GateStep ==
  ASSUME IInv, [Next]_vars
  PROVE  HoldsGate' /\ RightCall'
  <1> USE DEF IInv, TypeOK, HoldsGate, RightCall, InsideGate, Appending
  <1>1. ASSUME NEW c \in Callers, NEW request \in Calls, Call(c, request)
        PROVE  HoldsGate' /\ RightCall'
    BY <1>1 DEF Call, Goto
  <1>2. ASSUME NEW c \in Callers, EnterGate(c)
        PROVE  HoldsGate' /\ RightCall'
    BY <1>2, NoCallerAssumption DEF EnterGate, Goto
  <1>3. ASSUME NEW c \in Callers, Serialize(c) \/ WriteNewline(c) \/ Search(c) \/ CancelWait(c)
        PROVE  HoldsGate' /\ RightCall'
    BY <1>3 DEF Serialize, WriteNewline, Search, CancelWait, Goto
  <1>4. ASSUME NEW c \in Callers, Close(c) \/ Replace(c) \/ CancelAppend(c)
        PROVE  HoldsGate' /\ RightCall'
    BY <1>4 DEF Close, Replace, CancelAppend, Goto
  <1>5. ASSUME NEW c \in Callers, Scan(c)
        PROVE  HoldsGate' /\ RightCall'
    BY <1>5 DEF Scan, Goto
  <1>6. ASSUME NEW c \in Callers, LeaveGate(c)
        PROVE  HoldsGate' /\ RightCall'
    BY <1>6 DEF LeaveGate, Goto
  <1>7. ASSUME NEW c \in Callers, Cancel(c)
        PROVE  HoldsGate' /\ RightCall'
    BY <1>7 DEF Cancel, Goto
  <1>8. ASSUME Restart
        PROVE  HoldsGate' /\ RightCall'
    BY <1>8 DEF Restart
  <1>9. CASE UNCHANGED vars
    BY <1>9 DEF vars
  <1>10. QED
    BY <1>1, <1>2, <1>3, <1>4, <1>5, <1>6, <1>7, <1>8, <1>9, NextCases

\* While a deletion waits to replace the file, nobody else changes it.
LEMMA ScanStep ==
  ASSUME IInv, [Next]_vars
  PROVE  ScanIsCurrent'
  <1> USE DEF IInv, TypeOK
  <1> SUFFICES ASSUME NEW d \in Callers, pc'[d] = "replace"
               PROVE  Readable(file') /\ kept' = Remaining(file', call'[d].sources)
    BY DEF ScanIsCurrent
  <1> DEFINE Current == Readable(file') /\ kept' = Remaining(file', call'[d].sources)
  <1>1. pc[d] = "replace" =>
          /\ gate = d
          /\ Readable(file)
          /\ kept = Remaining(file, call[d].sources)
    BY DEF HoldsGate, ScanIsCurrent, InsideGate
  <1> HIDE DEF Current
  <1>2. ASSUME NEW c \in Callers, NEW request \in Calls, Call(c, request)
        PROVE  Current
    <2>1. d /= c /\ pc[d] = "replace" /\ call'[d] = call[d]
      BY <1>2 DEF Call, Goto
    <2>2. QED
      BY <1>1, <1>2, <2>1 DEF Call, Current
  <1>3. ASSUME NEW c \in Callers, EnterGate(c) \/ Serialize(c) \/ WriteNewline(c) \/ Search(c)
                                  \/ CancelWait(c) \/ LeaveGate(c)
        PROVE  Current
    <2>1. pc[d] = "replace" /\ UNCHANGED <<file, call, kept>>
      BY <1>3 DEF EnterGate, Serialize, WriteNewline, Search, CancelWait, LeaveGate, Goto
    <2>2. QED
      BY <1>1, <2>1 DEF Current
  <1>4. ASSUME NEW c \in Callers, Close(c) \/ Replace(c) \/ CancelAppend(c) \/ Cancel(c)
        PROVE  Current
    <2>1. pc[c] \in InsideGate /\ pc'[c] = "release"
      BY <1>4 DEF Close, Replace, CancelAppend, Cancel, Goto, InsideGate, Appending
    <2>2. d /= c /\ pc[d] = "replace"
      BY <1>4, <2>1 DEF Close, Replace, CancelAppend, Cancel, Goto
    <2>3. gate = c
      BY <2>1 DEF HoldsGate
    <2>4. QED
      BY <1>1, <2>2, <2>3
  <1>5. ASSUME NEW c \in Callers, Scan(c)
        PROVE  Current
    <2>1. gate = c /\ UNCHANGED <<file, call>>
      BY <1>5 DEF Scan, Goto, HoldsGate, InsideGate
    <2>2. c = d
      <3>1. pc[d] = "replace" \/ c = d
        BY <1>5 DEF Scan, Goto
      <3>2. QED
        BY <1>1, <2>1, <3>1
    <2>3. Readable(file) /\ kept' = Remaining(file, call[c].sources)
      BY <1>5, <2>2 DEF Scan, Goto
    <2>4. QED
      BY <2>1, <2>2, <2>3 DEF Current
  <1>6. ASSUME Restart
        PROVE  Current
    BY <1>6 DEF Restart
  <1>7. CASE UNCHANGED vars
    BY <1>1, <1>7 DEF vars, Current
  <1>8. QED
    BY <1>2, <1>3, <1>4, <1>5, <1>6, <1>7, NextCases DEF Current

\* The invariant of the specification, whatever is interrupted.
LEMMA InvCorrect == Spec => []IInv
  <1>1. IInv /\ [Next]_vars => IInv'
    BY TypeStep, GateStep, ScanStep DEF IInv
  <1>2. QED
    BY <1>1, InvInit, PTL DEF Spec

-----------------------------------------------------------------------------
(* Theorems *)

\* The variables have their types; in particular what a deletion keeps is a
\* sequence of whole objects.
THEOREM StoreTypes == Spec => []TypeOK
  BY InvCorrect, PTL DEF IInv

\* What the file becomes in a step.
LEMMA FileStep ==
  ASSUME IInv, [Next]_vars
  PROVE  \/ UNCHANGED file
         \/ \E i \in Ids, v \in Copies :
              file' \in {Append(file, Object(i, v)), file \o <<Object(i, v), Newline>>}
         \/ file' = file \o <<Torn>>
         \/ \E c \in Callers : pc[c] = "replace" /\ file' = AsLines(Remaining(file, call[c].sources))
  <1> USE DEF IInv, TypeOK
  <1>1. ASSUME NEW c \in Callers, pc[c] \in Appending
        PROVE  call[c].id \in Ids /\ call[c].copy \in Copies
    BY <1>1, CallFields DEF RightCall
  <1>2. ASSUME NEW c \in Callers, Close(c) \/ CancelAppend(c)
        PROVE  \/ \E i \in Ids, v \in Copies :
                    file' \in {Append(file, Object(i, v)), file \o <<Object(i, v), Newline>>}
               \/ file' = file \o <<Torn>>
    BY <1>1, <1>2 DEF Close, CancelAppend, Goto, Appending
  <1>3. ASSUME NEW c \in Callers, Replace(c)
        PROVE  pc[c] = "replace" /\ file' = AsLines(Remaining(file, call[c].sources))
    BY <1>3 DEF Replace, Goto, ScanIsCurrent
  <1>4. ASSUME NEW c \in Callers, pc[c] \in Appending, NEW left \in Leftovers(c), file' = file \o left
        PROVE  \/ UNCHANGED file
               \/ \E i \in Ids, v \in Copies :
                    file' \in {Append(file, Object(i, v)), file \o <<Object(i, v), Newline>>}
               \/ file' = file \o <<Torn>>
    <2>1. /\ call[c].id \in Ids
          /\ call[c].copy \in Copies
          /\ Object(call[c].id, call[c].copy) \in Pieces
      BY <1>1, <1>4, StoredObject
    <2>2. CASE left = <<>>
      BY <1>4, <2>2 DEF Texts
    <2>3. CASE left = <<Torn>>
      BY <1>4, <2>3
    <2>4. CASE left = <<Object(call[c].id, call[c].copy)>>
      BY <1>4, <2>1, <2>4 DEF Texts
    <2>5. CASE left = <<Object(call[c].id, call[c].copy), Newline>>
      BY <1>4, <2>1, <2>5
    <2>6. QED
      BY <1>4, <2>2, <2>3, <2>4, <2>5 DEF Leftovers
  <1>5. ASSUME Restart
        PROVE  \/ UNCHANGED file
               \/ \E c \in Callers : pc[c] \in Appending /\ \E left \in Leftovers(c) : file' = file \o left
    BY <1>5 DEF Restart
  <1>6. ASSUME NEW c \in Callers, NEW request \in Calls, Call(c, request)
        PROVE  UNCHANGED file
    BY <1>6 DEF Call
  <1>7. ASSUME NEW c \in Callers, EnterGate(c) \/ Serialize(c) \/ WriteNewline(c) \/ Search(c)
                                  \/ Scan(c) \/ CancelWait(c) \/ Cancel(c) \/ LeaveGate(c)
        PROVE  UNCHANGED file
    BY <1>7 DEF EnterGate, Serialize, WriteNewline, Search, Scan, CancelWait, Cancel, LeaveGate
  <1>8. CASE UNCHANGED vars
    BY <1>8 DEF vars
  <1>9. QED
    BY <1>2, <1>3, <1>4, <1>5, <1>6, <1>7, <1>8, NextCases

\* A rewritten file stores what was stored, without the deleted sources.
LEMMA StoredRewritten ==
  ASSUME NEW text \in Texts, NEW sources
  PROVE  /\ AsLines(Remaining(text, sources)) \in Texts
         /\ \A i \in Ids : Stored(AsLines(Remaining(text, sources)))[i] =
                             IF SourceOf[i] \in sources THEN Absent ELSE Stored(text)[i]
  <1>1. Remaining(text, sources) \in Seq(Events)
    BY RemainingStored
  <1>2. AsLines(Remaining(text, sources)) \in Texts
    BY <1>1, LinesByPosition
  <1>3. ASSUME NEW i \in Ids
        PROVE  Stored(AsLines(Remaining(text, sources)))[i] =
                 IF SourceOf[i] \in sources THEN Absent ELSE Stored(text)[i]
    <2>1. Stored(AsLines(Remaining(text, sources)))[i] = Stored(Remaining(text, sources))[i]
      BY <1>1, LinesStored
    <2>2. QED
      BY <2>1, RemainingStored
  <1>4. QED
    BY <1>2, <1>3

\* The appended copies and the rewritten files are one durable map of events, in
\* which a save replaces one copy and a deletion empties its sources in one step.
\* No interruption breaks that: an append that is cut off has saved its event or
\* has saved nothing, though it can leave a line that no search can read.
THEOREM JsonLinesStoreKeepsPromise == Spec => ImplementsEventStore
  <1>1. Init => Promise!Init
    BY StoredEmpty DEF Init, Promise!Init, Promise!Rows
  <1>2. IInv /\ [Next]_vars => [Promise!Next]_(Promise!vars)
    <2> SUFFICES ASSUME IInv, [Next]_vars
                 PROVE  [Promise!Next]_(Promise!vars)
      OBVIOUS
    <2>1. file \in Texts
      BY DEF IInv, TypeOK
    <2>2. CASE UNCHANGED file
      BY <2>2 DEF Promise!vars
    <2>3. ASSUME NEW i \in Ids, NEW v \in Copies,
                 file' \in {Append(file, Object(i, v)), file \o <<Object(i, v), Newline>>}
          PROVE  Promise!Save
      <3>1. Stored(file') = [Stored(file) EXCEPT ![i] = v]
        <4>1. CASE file' = Append(file, Object(i, v))
          BY <2>1, <4>1, StoredObject
        <4>2. CASE file' = file \o <<Object(i, v), Newline>>
          BY <2>1, <4>2, StoredLine
        <4>3. QED
          BY <2>3, <4>1, <4>2
      <3>2. QED
        BY <3>1 DEF Promise!Save
    <2>4. CASE file' = file \o <<Torn>>
      <3>1. file' = Append(file, Torn)
        BY <2>1, <2>4 DEF Texts
      <3>2. Stored(file') = Stored(file)
        BY <2>1, <3>1, StoredOther
      <3>3. QED
        BY <3>2 DEF Promise!vars
    <2>5. ASSUME NEW c \in Callers, pc[c] = "replace",
                 file' = AsLines(Remaining(file, call[c].sources))
          PROVE  Promise!Delete
      <3>1. call[c].sources \in {{s} : s \in Sources} \union {Sources}
        BY <2>5, CallFields DEF IInv, TypeOK, RightCall
      <3>2. file' \in Texts
        BY <2>1, <2>5, StoredRewritten
      <3>3. \A i \in Ids : Stored(file')[i] =
                             IF SourceOf[i] \in call[c].sources THEN Absent ELSE Stored(file)[i]
        BY <2>1, <2>5, StoredRewritten
      <3>4. Stored(file') \in [Ids -> Copied]
        BY <3>2, StoredType
      <3>5. Stored(file') = Promise!Without(Stored(file), call[c].sources)
        BY <3>3, <3>4 DEF Promise!Without
      <3>6. QED
        BY <3>1, <3>5 DEF Promise!Delete
    <2>6. QED
      BY <2>2, <2>3, <2>4, <2>5, FileStep DEF Promise!Next
  <1>3. QED
    BY <1>1, <1>2, InvCorrect, PTL DEF Spec, ImplementsEventStore, Promise!Spec

\* Whatever is interrupted, the file only grows at its end, or a deletion takes
\* whole events of its own sources out of a file it could read.
THEOREM TextIsKept == Spec => TextSurvives
  <1> DEFINE Grows == Len(file') >= Len(file) /\ SubSeq(file', 1, Len(file)) = file
             Deletes == \E c \in Callers : Removes(c, file, file')
  <1>1. IInv /\ [Next]_vars => [Grows \/ Deletes]_vars
    <2> SUFFICES ASSUME IInv, [Next]_vars
                 PROVE  Grows \/ Deletes
      OBVIOUS
    <2>1. file \in Texts
      BY DEF IInv, TypeOK
    <2>2. ASSUME NEW rest \in Texts, file' = file \o rest
          PROVE  Grows
      BY <2>1, <2>2 DEF Texts
    <2>3. CASE UNCHANGED file
      BY <2>1, <2>3 DEF Texts
    <2>4. ASSUME NEW i \in Ids, NEW v \in Copies,
                 file' \in {Append(file, Object(i, v)), file \o <<Object(i, v), Newline>>}
          PROVE  Grows
      <3>1. Object(i, v) \in Pieces /\ Newline \in Pieces
        BY StoredObject, <2>1 DEF Pieces
      <3>2. <<Object(i, v)>> \in Texts /\ <<Object(i, v), Newline>> \in Texts
        BY <3>1 DEF Texts
      <3>3. Append(file, Object(i, v)) = file \o <<Object(i, v)>>
        BY <2>1, <3>1 DEF Texts
      <3>4. QED
        BY <2>2, <2>4, <3>2, <3>3
    <2>5. CASE file' = file \o <<Torn>>
      <3>1. <<Torn>> \in Texts
        BY DEF Texts, Pieces
      <3>2. QED
        BY <2>2, <2>5, <3>1
    <2>6. ASSUME NEW c \in Callers, pc[c] = "replace",
                 file' = AsLines(Remaining(file, call[c].sources))
          PROVE  Deletes
      <3>1. \A i \in Ids : SourceOf[i] \notin call[c].sources => Stored(file')[i] = Stored(file)[i]
        BY <2>1, <2>6, StoredRewritten
      <3>2. \A n \in 1..Len(file) : file[n] /= Torn
        BY <2>6 DEF IInv, ScanIsCurrent, Readable
      <3>3. QED
        BY <2>6, <3>1, <3>2 DEF Removes
    <2>7. QED
      BY <2>3, <2>4, <2>5, <2>6, FileStep
  <1>2. QED
    BY <1>1, InvCorrect, PTL DEF Spec, TextSurvives

\* A store whose appends are neither cancelled nor killed keeps one object per
\* line: the file is closed between the calls, and only the caller at the gate
\* opens and closes it.
THEOREM LinesStayWhole ==
  ASSUME Interrupts = {}
  PROVE  Spec => []OneObjectPerLine
  <1>1. Init => Closed(file)
    BY DEF Init, Closed, Readable
  <1>2. IInv /\ Closed(file) /\ [Next]_vars => Closed(file)'
    <2> SUFFICES ASSUME IInv, Closed(file), [Next]_vars
                 PROVE  Closed(file)'
      OBVIOUS
    <2> USE DEF IInv, TypeOK
    <2>1. ASSUME NEW c \in Callers, Close(c)
          PROVE  Closed(file)'
      <3>1. call[c].id \in Ids /\ call[c].copy \in Copies
        BY <2>1, CallFields DEF Close, Goto, RightCall, Appending
      <3>2. QED
        BY <2>1, <3>1, ClosedLine DEF Close
    <2>2. ASSUME NEW c \in Callers, Replace(c)
          PROVE  Closed(file)'
      BY <2>2, LinesClosed DEF Replace
    <2>3. ASSUME NEW c \in Callers, CancelAppend(c)
          PROVE  FALSE
      BY <2>3 DEF CancelAppend
    <2>4. ASSUME Restart
          PROVE  UNCHANGED file
      BY <2>4 DEF Restart
    <2>5. ASSUME NEW c \in Callers, NEW request \in Calls, Call(c, request)
          PROVE  UNCHANGED file
      BY <2>5 DEF Call
    <2>6. ASSUME NEW c \in Callers, EnterGate(c) \/ Serialize(c) \/ WriteNewline(c) \/ Search(c)
                                    \/ Scan(c) \/ CancelWait(c) \/ Cancel(c) \/ LeaveGate(c)
          PROVE  UNCHANGED file
      BY <2>6 DEF EnterGate, Serialize, WriteNewline, Search, Scan, CancelWait, Cancel, LeaveGate
    <2>7. CASE UNCHANGED vars
      BY <2>7 DEF vars
    <2>8. QED
      BY <2>1, <2>2, <2>3, <2>4, <2>5, <2>6, <2>7, NextCases
  <1>3. Closed(file) => OneObjectPerLine
    BY DEF Closed, OneObjectPerLine
  <1>4. QED
    BY <1>1, <1>2, <1>3, InvCorrect, PTL DEF Spec
=============================================================================
