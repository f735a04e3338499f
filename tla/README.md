# Agentic Log Analyzer: TLA+ models

TLA+ modules, TLC configurations and TLAPS proofs for the program in `src/`: a .NET log
analyzer (HTTP API, background worker, desktop shell) with a React dashboard. Every module
says which file it models; `PROJECT.json` maps each definition to source lines, lists the
runs, the theorems and the hazards, and gives for each property of a passing run a mutated
definition that breaks it.

Run a check with `tlc -config <run>.cfg <module>` and the proofs with `tlapm <module>_proofs.tla`.

## 1. The system

| Component | State | Operations | Interacts with |
|---|---|---|---|
| Event store contract, `IEventRepository` | a map from event identifier to event | save, search, delete by source or all | everything that reads or writes events |
| SQLite repository | per process `_initialized` and a gate; in the file two tables, a marker row and the write lock | `SaveAsync`, `SearchAsync`, `DeleteAsync`; on first use creation, column upgrade and import of legacy files | API, worker and desktop share one database file |
| JSON Lines repository | one text file, a gate, a temporary file | the same three, by appending, scanning, and rewriting | one process |
| Log file follower, `TailingFileConnector` | position in the file, text after the last line end | poll, open, read chunk, hand over lines | the program that writes the log; the worker's loop |
| Finite connectors | none | read a file once, or two sample lines | worker |
| Log parsing | none | `CanParse`, `Parse`, identifier of an event | worker, ingest route |
| Worker host | position of its loop | read, parse, save; restart reads from the start | connector, parser, store |
| HTTP API | none between requests | events, delete, ingest, investigations, chat, settings, LLM status | store, parser, agents, chat |
| Detection and correlation | none | rule AUTH-001, groups by user, address, device | orchestrator, chat |
| Investigation tools and agents | none | bounded search, detections, correlations, report | store |
| Chat assistant | none between requests | classify a question, answer from events, optional rewording by a model, verification | store, rule, Ollama |
| Ollama provider | none | one HTTP request per call | Ollama |
| Desktop updater | gate, pending update, state, progress, error | check and download, apply now, apply on exit | Velopack, its worker, three routes |
| Desktop shell | window, host | start, routes, close | updater, API |
| Dashboard data, `App.tsx` | events and report on screen, four busy flags, a deletion dialog | refresh, investigate, import, delete | API |
| Import dialog, `App.tsx` | text, source name, files being read | choose a file, edit, clear, submit | API, dashboard data |
| Views, `App.tsx` | active view and browser history, search, filter, page, event dialog | navigate, go back, search, filter, page, open an event | dashboard data |
| Chat panel, `log-chat.tsx` | conversation, input, pending | ask, suggest, reply | API |
| Settings and update row, `settings-view.tsx`, `app-update.tsx`, `use-app-update.ts` | last answers, busy flags | load, poll, check, restart | API, updater |
| Theme, `theme-provider.tsx` | per tab a theme and a class, one item in `localStorage` | toggle, storage event, scheme change | other tabs |
| Charts and counters, `activity.ts` and `App.tsx` | none | slots, counts, cards from the events on screen | dashboard data |
| Dashboard host, interface kit, configuration, scripts, containers, prose | none that another part depends on | | |

### What is hard here

* **Two processes, one database.** The API and the worker open, upgrade, migrate, write and
  empty the same file. Initialization is guarded inside a process only; between processes
  there are SQLite's statements, one explicit transaction and a 30 second busy timeout.
* **Cancellation at every await.** Each call takes a token; requests end when the client
  leaves. A gate must be released and half-done work taken back or left harmless.
* **Text files that move.** The follower polls a file that is appended to in the middle of a
  line, truncated, replaced or removed between two calls. The JSON Lines store appends an
  object and its newline separately.
* **Crashes.** The import must happen once and whole; the updater must never install half a
  package; a restarted worker reads everything again.
* **Boundaries.** The detection window and threshold, events that tie in time, a search that
  keeps only the latest events.
* **Unsynchronized fields.** The updater's `_pending`, `_progress` and `_state` are set one
  after the other and read by other threads.
* **Answers out of order.** The dashboard starts requests from buttons, effects and timers and
  does not wait for those before: refreshes, polls, file reads and storage events overlap, fail
  one by one, and arrive in components that have been left meanwhile.
* **Copies.** What is on screen is a copy of the store, of the updater's status, of the
  language model's state, of the URL and of `localStorage`; each is brought up to date by code of
  its own.

What makes each component correct is stated as properties in its module; section 4 lists
them. All hazards, with their line and the properties that cover them, are in `PROJECT.json`.

## 2. Modules

| Module | Models | Uses |
|---|---|---|
| `EventStore` | abstract: what a repository promises | |
| `SqliteStore` | `SqliteEventRepository.cs` in several processes | implements `EventStore` |
| `SqliteStore_proofs` | theorems about it | `SqliteStore`, TLAPS |
| `JsonLinesStore` | `JsonLinesEventRepository.cs` in one process | implements `EventStore` |
| `JsonLinesStore_proofs` | theorems about it | `JsonLinesStore`, `NaturalLemmas`, TLAPS |
| `TailReader` | `TailingFileConnector.cs`, the writer of the log, the worker's restart | |
| `TailReader_proofs` | theorems about it | `TailReader`, `NaturalLemmas`, TLAPS |
| `Detection` | `RepeatedAuthenticationFailureRule.cs`, `EventCorrelationService.cs`, the search limit | |
| `Detection_proofs` | theorems about it | `Detection`, `NaturalLemmas`, TLAPS |
| `DesktopUpdater` | `DesktopUpdater.cs`, the update routes and the end of the desktop process | |
| `DesktopUpdater_proofs` | theorems about it | `DesktopUpdater`, TLAPS |
| `Dashboard` | the data of `App.tsx`: loads, investigations, imports, deletions | |
| `Dashboard_proofs` | theorems about it | `Dashboard`, TLAPS |
| `ImportDialog` | the import dialog of `App.tsx` and `POST /api/ingest` | |
| `Views` | navigation, search, filter, pages and event dialog of `App.tsx` | `Activity` |
| `Activity` | `activity.ts` and the counters of `App.tsx` | |
| `LogChat` | `log-chat.tsx` | |
| `Theme` | `theme-provider.tsx` in several tabs | |
| `UpdatePanel` | `use-app-update.ts` and `app-update.tsx` | |
| `SettingsView` | `settings-view.tsx` | |
| `MCWebPanels` | the parts of the dashboard that share no state, side by side | the seven modules above |
| `WebPanels_proofs` | theorems about `ImportDialog`, `LogChat`, `Theme`, `SettingsView`, `Views`, `Activity` | these, `NaturalLemmas`, TLAPS |
| `NaturalLemmas` | no code: induction, sorting and recursion for the proofs | TLAPS |
| `MCSqliteStore`, `MCJsonLinesStore`, `MCDetection`, `MCDashboard` | values of constants that a `.cfg` cannot write | |

**EventStore.** `rows` maps identifiers to the stored copy or `Absent`; `marker` says that the
one import has been made. `Save` replaces one row, `Delete` removes the rows of a set of
sources at once, `Migrate` fills an empty, unmarked store. A search is a stutter.

**SqliteStore.** One step per statement or await. `schema`, `metadata`, `rows`, `marker` are
the file; `writer` and `tx` the open transaction; `initialized` and `gate` one repository
object per process; `pc`, `call`, `error` each call. `CheckInitialized` to `LeaveGate` are
`EnsureInitializedAsync` (153-203) with `AddAttributesColumnIfMissingAsync` as the two steps
`CheckColumn` and `AddColumn`, and the import as `BeginImport`, `DecideImport`, one
`ImportLine` per legacy line, `CommitImport`. `FailInside` is an exception inside the gate
(the transaction is rolled back and the finally block follows), `FailOutside` one outside.
`Cancel`, `LockTimeout` and `Restart` (the process dies, its transaction is rolled back,
memory is lost) can happen at every step where the code allows it. SQLite is external: a
statement is atomic and durable, there is one writer, readers see committed data.

**JsonLinesStore.** `file` is the sequence of objects, pieces and newlines. A save is
`Serialize`, `WriteNewline` (both into the stream's buffer) and `Close` (the buffer reaches
the file). `CancelAppend` leaves the object without its newline or, when the object is larger than
the buffer, a part of it; `Restart` what `Leftovers` allows. `Search` and `Scan`
deserialize line by line and throw on a line that is not one object. `Replace` moves the
rewritten copy into place.

**TailReader.** The log is a sequence of pieces: a line is two pieces of text and a newline, so
that torn and merged lines are seen. `position`, `pending` and `chunk` are the reader's, `opened`
and `orphan` say which file an open stream reads after the path was removed. `Poll`, `Open`, `ReadChunk`, `EndOfFile`
and `Delay` are the loop of `ReadAsync`; `HandOver` and `KeepRest` what it does with a chunk.
The writer is external: `Create`, `Write`, `Truncate`, `Remove`. An exception out of `ReadAsync`
ends the loop of the worker (`failed`); `Restart` starts the worker again, which nobody has to do.

**Detection.** The state is the store, grown by `Save` in any order; the operators `Latest`,
`Groups`, `EndOf`, `Starts`, `FindingOf`, `Evaluate` and `Correlate` translate the search
limit, the rule and the correlation. Whether an event is an authentication failure is a flag.
A user can be missing, blank (`user=""` gives an empty string), or differ from another in case.

**DesktopUpdater.** `gate`, `pending`, `state`, `progress`, `error` are the fields; `pc` and
`update` each caller of `CheckAndDownloadAsync`, which are requests and the worker. `Downloaded`
and `Announce` are separate because other threads read between them. `TimesOut` and
`Cancelled` are the exceptions that the catch clause lets through: the state stays, the
worker's loop ends. `RequestRestart` and `ApplyAndRestart` are the route and its delayed
task, `ApplyFails` an exception of Velopack in that task, which nobody sees, `Close` and `Exit` the end of `Main`. Velopack, the release feed and kills are external.

### The dashboard

A handler or effect runs without interruption from one await to the next, and React renders
its assignments before the next event is handled; each such stretch is one action, and a
condition that the page renders (a disabled button, a hidden dialog) is a guard. A request is
answered by the server in one action and arrives in another, or fails. Variables called history
are read by properties only: they record that answers came out of order, or that the user did
something after which a property promises less.

**Dashboard.** `store` is what the API has stored, `events` and `report` the copies on screen. A
load (`loads[s]`) is the pair of requests of `fetchDashboardData`; it settles when both are
answered (`Loaded`) or as soon as one has failed (`LoadFails`), and `Resume` is what follows in
`submitImport` or `removeEvents`, which waited for it. The list names every event, the report only
the first `Limit` of the search (`Investigated`; `Rank` orders the events as the search does), and
what its findings cite is any function of those (`Evidence`), because the rules look at events
together. `Settled` records which loads are still in flight when one that was started later has been
answered or has failed (`passed`); `surpassed` says that such a load is now on screen. The slots are those of the page (its
mount, Refresh, Retry), one for the load behind an import and one for that behind a deletion.
`Strict` starts the page as a development build does, whose first effect is cleaned up: its load
changes nothing. A deletion lives in the dialog of the Sources view, which leaving the view
unmounts, while the request goes on. The worker may store events at any time.

**ImportDialog.** `content` and `source` are the fields, `reads` the files whose text is awaited,
in the order they were chosen. `IngestLine` is one turn of the loop of `POST /api/ingest`: it
saves a line under the source name or rejects it. A refused, broken or lost answer can come
between any two lines (`ImportRefused`). The refresh at the end is in `Dashboard`.

**Views.** `urls` and `at` are the browser's history; `SetActiveView` changes the view and adds
an entry, `Travel` is the listener of `popstate`. `SearchedEvents`, `VisibleEvents`,
`CurrentPage` and `PageEvents` translate the memos and expressions of the same names; a row's
place in the list is the number of rows before it (`Position`). A load may
replace the list at any time.

**Activity.** Operators only: `ResultTone`, `IsFailure`, `IsWarning` and `ResultPill` are four
readings of an event's result in three files, `Span`, `StepFor`, `FirstSlot`, `SlotOf` and `Bucket` the
chart, `SourceCards` and `FailureCount` what is shown beside it. Of a result only the words
matter that the code looks for.

**LogChat.** `messages` with the identifiers that are their React keys, `asked` the question of
the request in flight. `Say` is the updater given to `setMessages`, which takes the next
identifier and may run more than once (`UpdaterCalls`).

**Theme.** `storage` is the item, `inbox[t]` the storage events tab `t` has not handled yet.
`KeyDown` is the whole key handler, which does not wait for the events on their way to the tab,
`StorageEvent` the listener, `SchemeChanges` the media query. `crossed[t]` records that the last key
press in tab `t` came before an event that was on its way and that no other has been sent since.

**UpdatePanel.** `requests` are polls and checks in flight, `own` whether the row that sent a
check is still mounted. The updater moves as it likes; what it does by itself is in
`DesktopUpdater`.

**SettingsView.** A load is two requests, of which that of the model may fail alone (`AnswerLlm`
gives null). A view that is opened again starts with a load of its own.

**MCWebPanels.** These parts share no variable, so their composition has only behaviours that
interleave steps of independent parts. One run checks them all: `part` is chosen at the start, and
only that part moves, so the states of the parts add up instead of multiplying. For the charts,
the first load brings any of some 6,000 samples. What the parts have in common is a free choice of each:
`Views` lets a list arrive at any time, `ImportDialog` lets the refresh end at any time.

## 3. Runs and bounds

| Run | Shows | Bounds, and why they are enough |
|---|---|---|
| `SqliteStore_shared` | `TypeOK`, `NoMissingTable`, `InitializedMeansReady`, `DeletedStaysDeleted`, `ImplementsEventStore` | two processes with a call each, two events, a legacy file with one event twice and another once, all three initial schemas: every pair of steps of two processes interleaves, the import meets saves and deletions of the other process, and the first and a later copy of a line can be told apart. 530,000 states |
| `SqliteStore_live` | `GateExclusive`, `EveryCallEnds` | two calls of one process, so that they meet at its gate, over a damaged legacy file, so that preparation always fails, and one of a process without legacy files on the same older database. No events: neither property depends on rows, which `SqliteStore_shared` varies |
| `SqliteStore_upgrade` | violation of `UpgradeSucceeds` | two processes, an older database |
| `JsonLinesStore_calls` | `OneObjectPerLine`, `ImplementsEventStore` | two calls, two events of two sources, two copies, four pieces of text (`MaxPieces`): a deletion that keeps a line and one that removes a line meet an append; cancelled anywhere but inside an append, killed between appends |
| `JsonLinesStore_interrupted` | `TextSurvives`, `EveryCallEnds` | the same with appends interrupted by cancellation before the newline (`"cancel"`) or inside an object (`"cut"`), and by kills |
| `JsonLinesStore_cancelled` | violation of `OneObjectPerLine` | cancellation before the newline only |
| `TailReader_follow` | `WholeLines`, `NoneOvertaken`, `EveryLineRead` | five lines, one blank, chunks up to four pieces (`MaxRead`), three truncations or removals, one restart: a line can span chunks, polls and a truncation. `Gentle`: a truncated file has not grown back to the old position at the next poll. `EveryLineRead` speaks of a reader that has not failed, or was started again |
| `Detection_report` | `NoMissedBurst`, `EvidenceIsARun`, `LimitOnlyHides`, `EvidenceIsCorrelated`, `DetectionSurvivesSave` | every store of up to four events at four times of five kinds, window 1, threshold 3: a burst of exactly the threshold, one more event before, between or after it, ties, and failures spread beyond the window; every search limit from one to four |
| `Detection_window` | violation of `WithinTenMinutes` | three events |
| `DesktopUpdater_offered` | `OneCheckAtATime`, `StatusAgrees`, `InstallsOnlyDownloads`, `UpdateArrives`, `StatusSettles`, `AcceptedRestarts` | one request beside the worker, two releases: both meet at the gate, and a release can appear while an older one is pending or being installed |
| `Dashboard_session` | `TypeOK`, `BusyMeansInFlight`, `FindingsMatchEvents`, `FreshWhenQuiet`, `ImportEnds` | one event, for which the rules have evidence, of one source; an investigation finds it or nothing; the limit is one, so it does not cut the list here (`FindingsAreOfTheEvents` is proved for every limit); two loads of the page, one behind an import, one behind a deletion, and at most two operations of the user at once (`MaxBusy`): two loads are the fewest that settle out of order, and one event is stored, deleted and stored again, so that each answer can be older or newer than the screen. 683,000 states |
| `Web_panels` | `StoredUnderOwnName`, `FailedImportKeepsText`, `AnswersInPlace`, `TabsAgree`, `PanelCatchesUp`, `BadgeIsCurrent`, `ActiveViewInUrl`, `PageShowsEvents`, `PagingMoves`, `ChartsAddUp` | two files and a typed text of one line each, one of them malformed, two reads at once (`MaxReads`); three questions, updaters called once or twice; two tabs with two undelivered events (`MaxInbox`); two polls and a check in flight; every configuration and model state; two history entries (`MaxHistory`), pages of two rows (`PageSize`), lists of none, three and five events, so that a search or a filter leaves one page of three; charts of three slots (`MaxBuckets`) over every span from one time to past three days |

`Detection_report` and `Detection_window` turn deadlock checking off, because the store stops
growing at its bound, and `Web_panels` because nothing follows a sample of the charts. The other
bounds leave a step enabled.

### Fairness

* `SqliteStore`, `JsonLinesStore`: a call that was made keeps running (weak fairness of each
  call's next step: the thread pool runs what is ready), and `SemaphoreSlim` serves its waiters
  (strong fairness of entering the gate). Nothing makes a call be made, cancelled or retried.
* `TailReader`: the reader's loop runs (weak fairness of its next step). Nothing starts a worker
  that has failed, and the writer need not write.
* `DesktopUpdater`: code that runs goes on, the timer ticks, the delayed task and Velopack's
  installer run; and the feed does not refuse the same caller for ever (strong fairness of
  an answer and of a finished download). Nobody has to open or close the app or click, and Velopack
  may throw instead of restarting.
* `Dashboard`: every request ends, with an answer or a failure (weak fairness of each load, of
  the import, the deletion and the investigation): connections end. Nobody clicks.
* `UpdatePanel`: the timer goes on and every request ends (weak fairness), and polls are neither
  left unanswered nor fail for ever (strong fairness of `Serve` and `Arrive` over polls).

## 4. What the checks say

* A repository behaves as a map that changes only by whole saves, whole deletions and one whole
  import (`ImplementsEventStore`), whatever is cancelled, fails, times out or dies; an event
  that was deleted after the import returns only if it is saved again (`DeletedStaysDeleted`).
* No statement of one process meets a schema another process has not finished
  (`NoMissingTable`), and `_initialized` is never true too early (`InitializedMeansReady`).
* Gates are exclusive, never leaked (`GateExclusive`, `OneCheckAtATime`), and every call ends
  (`EveryCallEnds`).
* Interrupted appends damage at most their own line's text; nothing but a deletion removes text
  (`TextSurvives`).
* A followed file is handed over in whole lines, in order, without gaps, and every complete line
  that stays in the file in the end is read, unless the reader has failed and is not started again.
* In the events searched a burst of failures is never missed and its evidence is an unbroken run of
  one identity. A search limit only hides; a new event takes an identity out of a limited report only
  by pushing some evidence of its finding out of the search.
* The update status agrees with what can be installed, only whole newer packages are installed,
  releases are eventually downloaded after failures, and an accepted restart happens unless
  Velopack fails.
* The dashboard blocks nothing for ever: a flag that disables a button has a request in flight
  (`BusyMeansInFlight`), and an import ends (`ImportEnds`). When all is quiet after its own
  changes, the screen shows what is stored (`FreshWhenQuiet`) and the findings are of the events
  listed, up to the limit (`FindingsMatchEvents`), unless the load on screen was answered after a
  newer one had been answered or had failed.
* A file is imported under its own name (`StoredUnderOwnName`), and an import that fails keeps
  the text for another try (`FailedImportKeepsText`).
* Questions and answers alternate and belong together, also when the view was left
  (`AnswersInPlace`). The update row shows in the end what the updater says (`PanelCatchesUp`), and
  the badge of the model no older state than of the last load (`BadgeIsCurrent`).
* The URL names the active view after clicks, links, the back button and finished
  investigations (`ActiveViewInUrl`). Whatever shortens the list, the Events view shows rows if any
  fit, and its buttons move by one page of those on screen (`PageShowsEvents`, `PagingMoves`).
* Chart, cards, counters and pills, each with code of its own, agree (`ChartsAddUp`). Tabs agree on
  the theme once they have heard of it (`TabsAgree`), except one whose key was pressed while an event
  was on its way to it.

### Disagreements between code and documentation

Three violation runs show behaviour that contradicts a documented claim (quoted in
`PROJECT.json`, "findings"):

1. two processes that upgrade an older database together: the second `ALTER TABLE` fails;
2. a save cancelled between the object and its newline makes the next save share its line;
3. the first three failures of an identity are never compared with the ten minute window.

### Cases the properties leave out

Some properties except a case in which the code does not do what one would expect of it. Each is
modelled and named by a variable or constant, and without the exception TLC finds the property
violated. For the first five the repository says otherwise than the code does:

* **The log has grown back.** A truncated log that has grown past the old position at the next poll
  is continued in the middle (`Gentle`; `WholeLines`, `NoneOvertaken`, `EveryLineRead`).
  `TailingFileConnector.cs:13-14`: "If the file shrinks [...], reading restarts from the beginning";
  `README.md:69`: "restarts from the beginning when the file is truncated".
* **The log vanishes.** A log removed between `File.Exists` and the open ends the reader, and with
  it the worker's loop, which catches only `FormatException`; nothing in the code starts it again
  (`failed`; `EveryLineRead`). `TailingFileConnector.cs:13`: "If the file is missing, the connector
  waits for it."
* **A request times out.** A timeout of the HTTP client is an `OperationCanceledException`, passes
  the catch clause and ends the loop of the update worker (`timedOut`; `UpdateArrives`,
  `StatusSettles`). `DesktopUpdater.cs:88`: "report and retry later".
* **Mixed names.** Two files chosen quickly, a failed read, or Import and Clear pressed during a
  read can mix one file's name with another's text, whose lines are then stored under two names
  (`excused`; `StoredUnderOwnName`). `App.tsx:559`: "Re-importing the same file does not create
  duplicates". Text typed while an import runs is cleared when it succeeds.
* **More slots.** The chart has one slot more than `maxBuckets` when its first slot begins before the
  first event, and any number beyond `maxBuckets` days (`SlotLimit`; `ChartsAddUp`).
  `activity.ts:20`: "at most `maxBuckets` equal time slots".
* **Loads out of order.** A load that is answered after a newer one overwrites what that one
  brought or, if the newer one failed, hides that the data is old: the page says it is connected
  (`surpassed`; `FreshWhenQuiet`, `FindingsMatchEvents`). The next load that overlaps no other
  repairs it.
* **A key press crosses an event.** A tab whose key is pressed before it has handled a storage event
  writes its own theme and then adopts the older one of the event: it differs from the
  storage and from the other tabs until the next write of another page, the next key press in it or
  a reload (`crossed`; `TabsAgree`).
* **Velopack throws.** An accepted restart is lost without a message (`ApplyFails`;
  `AcceptedRestarts`). The update stays ready, and can be asked for again.

### Other behaviour worth knowing

* The report is made of the latest 1000 events (`InvestigationTools.cs:16-18`), the list and the
  counters beside it of all events, so a burst among older events is counted and not reported, and
  new events can push a finding out of the report (`LimitOnlyHides`, `DetectionSurvivesSave` and
  `FindingsMatchEvents` say what stays true).
* The banner's restart button stays disabled after a failed restart; the row in Settings works.
* The model's badge says "Not configured" also when only the request for its state failed.
* The cards of the overview, which count all events, open the Events view with the search kept.

## 5. What is proved

TLAPS checks these for every value of the constants: any set of processes, callers, events,
sources, files, tabs or lists, any widths, thresholds and page sizes. The assumptions are those
named in the modules, and say that constants have their types and that markers such as "absent",
"nobody", "typed" or "blank" are not members of the sets they stand outside of (`ProcAssumption`,
`SourceAssumption`, `AbsentAssumption`, `LegacyAssumption`, `SchemaAssumption`,
`NoCallerAssumption`, `InterruptAssumption`; `CallersAssumption`, `VersionAssumption`,
`NobodyAssumption`; `SlotsAreDistinct`, `DataIsTyped`, `MarkersAreDistinct`; the
`BoundAssumption` of `JsonLinesStore`, `TailReader` and `Detection`; `ActivityConstants`, `ChatConstants`,
`ImportConstants`, `SettingsConstants`, `ThemeConstants`, `ViewsConstants`). The last says of a
list what the API guarantees: it is finite, its identifiers are distinct, and no search text
means that everything matches. Every safety and action property of a passing run, and both
refinements, are proved. Three theorems have a hypothesis of their own: the two of the
follower assume `Gentle`, and `LinesStayWhole` that nothing interrupts an append; without them
the statements are false (section 4). `EvidenceStaysTogether` assumes a threshold above one,
which is three in the code.

`NaturalLemmas`, what the others need of numbers and finite sets

* A set of numbers has a least member, and a greatest if it is bounded; a set that holds 0 and
  with each number the next holds all (`SetInduction`). The theorems of the library state
  induction with an operator as a parameter, which the provers here cannot instantiate; for a
  set no parameter is needed, and the set that is built from the statement does the same work.
* `RecursiveFunction`: a function defined by recursion over `0..L` exists. `Places`: in a
  finite set with a total order, every place below the number of its members is that of exactly
  one of them, which is what sorting yields.

`SqliteStore_proofs`

* `TypeCorrect`: `TypeOK`, action by action.
* `ReadyCorrect`: `ReadyInv`, from which `GateIsExclusive`, `InitializedIsReady` and
  `TablesAreThere` follow. The three properties are not inductive alone: that a caller may name a
  table depends on what it, and the caller before it in the gate, have already done. `LockHeld`
  says who holds the write lock, `StepsDone` what every step behind a caller has established and
  nobody undoes.
* `StoreInvCorrect`: `StoreInv == ReadyInv /\ ImportInv`. `ImportInv` relates the transaction to
  the legacy file: while lines are imported the committed table is empty, the marker is not set,
  and the transaction holds exactly the first copy of each event among the lines before `next`
  (`ImportedUpTo`). It carries the first line of each event along, which spares an induction.
* `DeletionIsPermanent`: `DeletedStaysDeleted`, from `TableSteps`, which says that the committed
  table and marker change only by a save, a deletion or the commit of an import.
* `StoreKeepsPromise`: `Spec => ImplementsEventStore`, the refinement, from the same lemma.

`JsonLinesStore_proofs`

* `StoreTypes`, and with it the inductive `IInv`: the caller at the steps behind the gate is the
  one that holds it (`HoldsGate`), with a call that fits its step (`RightCall`), and what a
  deletion is about to write was kept from the file as it is now, which it could read
  (`ScanIsCurrent`).
* `JsonLinesStoreKeepsPromise`: the refinement, which here is about data. `RemainingStored`,
  by induction over the positions of the text, says which copies a deletion's loop keeps, and
  `LinesStored` that writing them as lines keeps them. The map is that of the objects in the
  text; that a search can read it is `OneObjectPerLine`.
* `TextIsKept` and `LinesStayWhole`, the latter from the stronger `Closed`: the file can be read
  and ends with a newline, so that the next object starts a line.

`TailReader_proofs`, under `Gentle`

* `LinesAreWhole` and `NoLineIsOvertaken` from one invariant, because neither is inductive: what
  will be handed over depends on the buffer, the position and the version of the file that the
  stream reads. `WriterInv` says that every version is a run of consecutive pieces, `StaleInv`
  that a version the reader has not noticed yet is shorter than what it read, `BufferInv`
  that the buffer is the part of the file before the position that began the current line,
  `EmittedInv` and `NewVersionInv` that lines in the buffer, in the file behind it, in a newer
  version and still to be written come after those handed over, and `PassedInv` that no line
  before the buffer was left out.

`Detection_proofs`

* `StoreIsOrdered`: identifiers are distinct and the store is finite.
* `OrderedPlaces` says that sorting by time and identifier gives each event of a group one place,
  `EndExists` that the while loop ends within the group, never before the threshold.
* `DetectedExactly`: a report names an identity exactly when it has `Threshold` failures,
  wherever they lie in time. It is the proved form of the third disagreement above, and
  makes `NoBurstIsMissed`, `LimitHidesOnly` and `SavesKeepDetections` statements about the
  number of an identity's failures among the events searched. For the last, the evidence of a finding
  is of at least `Threshold` failures (`EvidenceOf`), and is still searched.
* `EvidenceLeavesNoneOut` and `EvidenceStaysTogether` from `EvidenceOf`: evidence is a stretch of
  the sorted group.

`DesktopUpdater_proofs`

* `UpdaterTypes`, `UpdaterGate`, `StatusIsTrue`, `UpdatesAreWhole` from the inductive
  `UpdaterInv`. It adds to the properties what a check knows at each step (`DuringCheck`: it has
  found nothing pending, its update is newer, what it stored is that update), that only a check
  between two assignments hides a pending update (`PendingShown`), and that a process that is
  gone leaves nothing behind (`NothingWhileOff`), which an installation relies on when it
  changes the installed version.

`Dashboard_proofs`, for any events, sources and number of loads

* `DashboardTypes`, `NoFlagLeftBehind`, `ScreenIsFresh` and `FindingsAreOfTheEvents` from the
  inductive `DashboardInv == TypeOK /\ BusyMeansInFlight /\ FreshInv`. The freshness properties
  speak of a quiet dashboard and are not inductive: while loads overlap, what will be on screen
  depends on which of them settles last. `FreshInv` therefore says of the load started last among
  those not passed that what it has been told is still stored (`NewestIsCurrent`), that a load
  of a cleaned up effect is older than all others (`UnmountedIsFirst`), and that the screen is
  current as soon as no load is left that could change it (`ShownIsCurrent`). `InvestigatedPart` says that a limited search
  is told a part of the store, whatever `Rank` and `Limit` are.

`WebPanels_proofs`, one section for each part of the dashboard

* `AnswersAreInPlace`, with `ChatTypeOK`: every identifier is below the next one
  (`IdsBelowNext`), because the updater skips some.
* `TabsEndUpEqual` from an invariant over the undelivered events: in a tab whose last key press did
  not cross an event, the last one in the inbox is the value in storage, or the inbox is empty and
  the tab has the stored theme; the class on every page is its theme resolved against the scheme of
  now.
* `LinesGoUnderTheirFile` and `TextStaysUntilStored` from `ImportInv`: outside of the exempted
  cases text, name and file being read belong together (`Attributed`), and the valid lines
  that the API has dealt with are stored (`Progress`).
* `BadgeShowsTheLoad` from `SettingsInv`, which also speaks of the answer on its way: the state
  of the model that the next answer brings is one since the load began.
* `UrlNamesTheView` from `AddressInv`, `PagerMovesByOne` from `ListInv`.
* `EventsAreShown`: the page that is clamped starts below the number of rows (`PageStarts`), and
  by `Places` there is a row at that position.
* `ChartsAgree`: `PartsAddUp` says that the sizes of the parts of a finite set add up to its own
  (`SumFunction` folds over the parts in any order), `SlotsCover` that each event's slot is in the
  chart, over the integer divisions that align the slots, and that there are no more than `SlotLimit`
  when the span is below `MaxBuckets` days. Since nothing about lists changes from
  step to step, this is a theorem about each list, not an invariant of steps.

Only model-checked: the liveness properties `EveryCallEnds` (of both stores), `EveryLineRead`,
`UpdateArrives`, `StatusSettles`, `AcceptedRestarts`, `ImportEnds` and `PanelCatchesUp`, the only
property of `UpdatePanel`: TLAPS does not reason about fairness or `ENABLED`. Likewise the three
violations, which are counterexamples.

## 6. Not modelled

* What a search matches, escaping, ticks and offsets, JSON encoding, file encodings.
* Which words make a line an authentication failure; parsing and event identifiers.
* The worker's loop over parser and store, beyond its restart.
* The chat assistant behind `POST /api/chat` and the language model: an answer is the outcome of
  matching the texts of a question and of the events; the dashboard's side of it is `LogChat`.
* In the dashboard: rendering, the interface kit under `components/ui`, the text of an answer, the
  categories chart, copying to the clipboard, and toasts.
* Two processes that share one JSON Lines file: nothing in the code excludes them.
* Configuration, the static file host, scripts and containers.

## 7. Plan

Order: the store first, because every other part depends on it and most hazards are there; then
what feeds it, what reads it, and what the user sees.

1. Done: `EventStore`, `SqliteStore` with proofs, `JsonLinesStore`, `TailReader`, `Detection`,
   `DesktopUpdater` with proofs.
2. Done: the dashboard, as `Dashboard`, `LogChat` and `Theme` with proofs, `ImportDialog`, `Views`,
   `Activity`, `UpdatePanel` and `SettingsView`.
3. Left: `Ingestion`, the worker's loop and `POST /api/ingest` over `EventStore` with identifiers:
   a retry stores nothing twice, a deleted event returns only when its line is read again.
4. Left: `Parser`, the identifier and the precedence of attributes over bounded lines, and the
   choice of an answer by the chat assistant, with the model's outcome external.
5. Done: proofs of every safety and action property that a run checks, and of both refinements.
6. Left, proofs: the safety properties of `Ingestion`, over the promise of `EventStore` alone.
