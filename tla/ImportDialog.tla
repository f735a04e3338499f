---------------------------- MODULE ImportDialog ----------------------------
(***************************************************************************)
(* The "Import log events" dialog of App.tsx.  Its text comes from a file, *)
(* which is read asynchronously, or is typed; it is sent together with a   *)
(* source name, and the API stores every line under that name (the event   *)
(* identifier hashes both, so a line stored under two names is two         *)
(* events).  The dialog can be closed, opened and edited at any time, also *)
(* while a file is read or an import is running.                           *)
(***************************************************************************)
EXTENDS Naturals, Sequences, SequencesExt

CONSTANTS
  Files,      \* files the user can choose; a file's name is its default source
  Accepted,   \* those whose name or type is that of a text file
  Typed,      \* a text typed or pasted by the user
  Blank,      \* no text, or no source name
  Manual,     \* the source name "manual-import"
  Names,      \* source names the user types
  LinesOf,    \* [Files \union {Typed} -> sets of lines]
  Malformed,  \* lines the parser rejects
  MaxReads    \* bound: files being read at once

Texts == Files \union {Typed}

ASSUME ImportConstants ==
  /\ Accepted \subseteq Files
  /\ Typed \notin Files /\ Blank \notin Texts
  /\ DOMAIN LinesOf = Texts
  /\ MaxReads \in Nat
  /\ \A s, t \in Texts : s # t => LinesOf[s] \intersect LinesOf[t] = {}

VARIABLES
  importOpen,
  content,    \* the text in the dialog
  source,     \* the source name in the dialog
  reads,      \* files being read, in the order they were chosen
  phase,      \* of submitImport: "idle", "sending" or "refreshing"
  sent,       \* the text and the name being imported
  unsaved,    \* lines of it the API has not dealt with
  stored,     \* <<name, line>> of every event stored
  excused     \* history: text and name may come from different places

dialogVars == <<importOpen, content, source, reads, excused>>
importVars == <<dialogVars, phase, sent, unsaved, stored>>

NothingSent == [text |-> Blank, name |-> Blank]

ImportInit ==
  /\ importOpen = FALSE
  /\ content = Blank /\ source = Manual
  /\ reads = <<>>
  /\ phase = "idle" /\ sent = NothingSent /\ unsaved = {}
  /\ stored = {}
  /\ excused = FALSE

OpenImport ==
  /\ ~importOpen
  /\ importOpen' = TRUE
  /\ UNCHANGED <<content, source, reads, excused, phase, sent, unsaved, stored>>

\* Cancel, Escape or a click outside: the text stays for the next time.
CloseImport ==
  /\ importOpen
  /\ importOpen' = FALSE
  /\ UNCHANGED <<content, source, reads, excused, phase, sent, unsaved, stored>>

\* importFile up to the await of file.text().  Other files are refused.
ChooseFile_KeepsName(f) ==
  /\ importOpen /\ f \in Accepted
  /\ Len(reads) < MaxReads
  /\ reads' = Append(reads, f)
  /\ UNCHANGED <<importOpen, content, source, excused, phase, sent, unsaved, stored>>

ChooseFile(f) ==
  /\ importOpen /\ f \in Accepted
  /\ Len(reads) < MaxReads
  /\ source' = f
  /\ reads' = Append(reads, f)
  /\ UNCHANGED <<importOpen, content, excused, phase, sent, unsaved, stored>>

\* A file has been read.  The last one to end decides the text.
ReadEnds(i) ==
  /\ i \in DOMAIN reads
  /\ content' = reads[i]
  /\ reads' = RemoveAt(reads, i)
  /\ excused' = (excused \/ i # 1)
  /\ UNCHANGED <<importOpen, source, phase, sent, unsaved, stored>>

\* The name of the file stays, over the text that was there before.
ReadFails(i) ==
  /\ i \in DOMAIN reads
  /\ reads' = RemoveAt(reads, i)
  /\ excused' = TRUE
  /\ UNCHANGED <<importOpen, content, source, phase, sent, unsaved, stored>>

EditContent ==
  /\ importOpen
  /\ content' \in {Typed, Blank} \ {content}
  /\ UNCHANGED <<importOpen, source, reads, excused, phase, sent, unsaved, stored>>

EditSource(name) ==
  /\ importOpen /\ name # source
  /\ source' = name
  /\ excused' = TRUE
  /\ UNCHANGED <<importOpen, content, reads, phase, sent, unsaved, stored>>

ClearImport ==
  /\ importOpen /\ content # Blank
  /\ content' = Blank /\ source' = Manual
  /\ excused' = (excused \/ reads # <<>>)
  /\ UNCHANGED <<importOpen, reads, phase, sent, unsaved, stored>>

\* submitImport up to the request; the button is disabled while importing.
Submit ==
  /\ importOpen /\ phase = "idle" /\ content # Blank
  /\ phase' = "sending"
  /\ sent' = [text |-> content, name |-> IF source = Blank THEN Manual ELSE source]
  /\ unsaved' = LinesOf[content]
  /\ excused' = (excused \/ reads # <<>>)
  /\ UNCHANGED <<importOpen, content, source, reads, stored>>

\* POST /api/ingest parses and saves line by line, and reports rejected lines.
IngestLine(l) ==
  /\ phase = "sending" /\ l \in unsaved
  /\ unsaved' = unsaved \ {l}
  /\ stored' = IF l \in Malformed THEN stored ELSE stored \union {<<sent.name, l>>}
  /\ UNCHANGED <<dialogVars, phase, sent>>

\* The answer closes the dialog and clears its text, whatever it is by then.
ImportAccepted ==
  /\ phase = "sending" /\ unsaved = {}
  /\ importOpen' = FALSE /\ content' = Blank
  /\ phase' = "refreshing"
  /\ UNCHANGED <<source, reads, excused, sent, unsaved, stored>>

\* Refused, broken off part of the way, or the answer is lost.
ImportRefused_Clears ==
  /\ phase = "sending"
  /\ phase' = "idle" /\ sent' = NothingSent /\ unsaved' = {}
  /\ content' = Blank
  /\ UNCHANGED <<importOpen, source, reads, excused, stored>>

ImportRefused ==
  /\ phase = "sending"
  /\ phase' = "idle" /\ sent' = NothingSent /\ unsaved' = {}
  /\ UNCHANGED <<dialogVars, stored>>

\* refresh has ended; it reports its own failures.
ImportDone ==
  /\ phase = "refreshing"
  /\ phase' = "idle" /\ sent' = NothingSent
  /\ UNCHANGED <<dialogVars, unsaved, stored>>

ImportNext ==
  \/ OpenImport \/ CloseImport
  \/ \E f \in Files : ChooseFile(f)
  \/ \E i \in 1..MaxReads : ReadEnds(i) \/ ReadFails(i)
  \/ EditContent
  \/ \E name \in Names : EditSource(name)
  \/ ClearImport \/ Submit
  \/ \E l \in UNION {LinesOf[t] : t \in Texts} : IngestLine(l)
  \/ ImportAccepted \/ ImportRefused \/ ImportDone

ImportSpec == ImportInit /\ [][ImportNext]_importVars

\* Importing a file again adds nothing: its lines are stored under its name
\* and no other.  That takes a source name the user has not edited, files whose
\* reads end in the order they were chosen and do not fail, and neither Import
\* nor Clear pressed while one is read.
StoredUnderOwnName ==
  excused \/ \A f \in Files, l \in UNION {LinesOf[t] : t \in Files}, n \in Files \union {Manual} :
               l \in LinesOf[f] /\ <<n, l>> \in stored => n = f

\* An import that ends takes the text out of the dialog only after every valid
\* line of what it sent has been stored, so a failed one can be tried again.
FailedImportKeepsText ==
  [][phase' # phase /\ content' # content =>
       \A l \in LinesOf[sent.text] \ Malformed : <<sent.name, l>> \in stored']_importVars
=============================================================================
