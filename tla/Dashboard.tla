------------------------------ MODULE Dashboard ------------------------------
(***************************************************************************)
(* The data of the web dashboard (App.tsx): the events and the report on   *)
(* screen are copies of the store of the API, brought up to date by loads. *)
(* A load is two requests, a list of all events and an investigation of    *)
(* the latest; it settles when both are answered or one has failed.        *)
(* Loads are started when the page mounts, by the Refresh and Retry        *)
(* buttons, and at the end of an import or a deletion.  They overlap, and  *)
(* the one that settles last decides what is on screen.                    *)
(*                                                                         *)
(* A handler runs without interruption from one await to the next, and its *)
(* assignments are rendered before the next event, so each such stretch is *)
(* one action.  What an import does to its dialog is in ImportDialog.      *)
(***************************************************************************)
EXTENDS Naturals, FiniteSets

CONSTANTS
  Events,     \* the events that can be stored
  Sources,    \* source names
  SourceOf,   \* [Events -> Sources]
  Rank,       \* [Events -> Nat]: a search lists those of greater rank first
  Limit,      \* how many events an investigation looks at: 1000
  Evidence,   \* for any set of events, those that the detection rules cite
  Queries,    \* what a search text can match: sets of events
  Pages,      \* slots for loads of the page itself: its mount and the buttons
  Strict,     \* TRUE for a development build, which mounts every effect twice
  Import,     \* the slot of the load that ends an import
  Deletion,   \* the slot of the load that ends a deletion
  All,        \* the target of "Delete all data" (null in the code)
  Closed,     \* no deletion dialog (undefined in the code)
  Waiting,    \* no answer yet
  NoReport,   \* no report yet (null in the code)
  Unsent,     \* no investigation has been asked for
  MaxBusy     \* bound: operations of the user in progress at once

Slots == Pages \union {Import, Deletion}

ASSUME SlotsAreDistinct ==
  /\ Import \notin Pages /\ Deletion \notin Pages /\ Import # Deletion
  /\ Pages # {} /\ IsFiniteSet(Pages)

ASSUME DataIsTyped ==
  /\ SourceOf \in [Events -> Sources]
  /\ Rank \in [Events -> Nat]
  /\ \A d, e \in Events : Rank[d] = Rank[e] => d = e
  /\ Limit \in Nat \ {0}
  /\ Evidence \in [SUBSET Events -> SUBSET Events]
  /\ Queries \subseteq SUBSET Events
  /\ Strict \in BOOLEAN
  /\ MaxBusy \in Nat

ASSUME MarkersAreDistinct ==
  /\ All \notin Sources /\ Closed \notin Sources /\ All # Closed
  /\ Waiting # Unsent
  /\ \A S \in SUBSET Events : S \notin {Waiting, Unsent, NoReport}

VARIABLES
  store,          \* the events the API has stored
  events,         \* the events on screen
  report,         \* the events of the report on screen, or NoReport
  connected,      \* the last load that settled was answered
  loading,
  loads,          \* [Slots -> Load]: the loads in flight
  investigating,
  answer,         \* of the investigation asked for: Unsent, Waiting or its events
  importing,
  import,         \* "none", "sending" or "refreshing": where submitImport is
  onSources,      \* the Sources view is mounted
  target,         \* its dialog: Closed, All or a source
  deleting,
  deletion,       \* "none", "sending", "done" or "refreshing"
  doomed,         \* what the running deletion removes: All or a source
  unseen,         \* history: the store has changed behind the dashboard's back
  surpassed,      \* history: the load on screen came there after a newer load had
                  \* settled, whether that was shown or failed
  narrowed        \* history: the report on screen is of an investigation of the user

flags == <<connected, loading>>
screen == <<events, report>>
investigation == <<investigating, answer>>
importVars == <<importing, import>>
deletionVars == <<onSources, target, deleting, deletion, doomed>>
history == <<unseen, surpassed, narrowed>>

vars == <<store, screen, flags, loads, investigation, importVars, deletionVars, history>>

Snapshot == SUBSET Events

Load == [active : BOOLEAN, mounted : BOOLEAN, list : {Waiting} \union Snapshot,
         found : {Waiting} \union Snapshot, before : SUBSET Slots, passed : BOOLEAN]

NoLoad == [active |-> FALSE, mounted |-> TRUE, list |-> Waiting, found |-> Waiting,
           before |-> {}, passed |-> FALSE]

Targets == Sources \union {All}

\* The variables hold values of their types: the state of App and SourcesView.
TypeOK ==
  /\ store \in Snapshot /\ events \in Snapshot
  /\ report \in {NoReport} \union Snapshot
  /\ connected \in BOOLEAN /\ loading \in BOOLEAN
  /\ loads \in [Slots -> Load]
  /\ investigating \in BOOLEAN /\ answer \in {Unsent, Waiting} \union Snapshot
  /\ importing \in BOOLEAN /\ import \in {"none", "sending", "refreshing"}
  /\ onSources \in BOOLEAN /\ target \in Targets \union {Closed}
  /\ deleting \in BOOLEAN /\ deletion \in {"none", "sending", "done", "refreshing"}
  /\ doomed \in Targets
  /\ unseen \in BOOLEAN /\ surpassed \in BOOLEAN /\ narrowed \in BOOLEAN

-----------------------------------------------------------------------------
(* Loads.                                                                  *)

InFlight == {s \in Slots : loads[s].active}

\* Bound: the user starts an operation while fewer than MaxBusy are in progress.
Room ==
  Cardinality({s \in Pages : loads[s].active} \union
              {op \in {Import} : import # "none"} \union
              {op \in {Deletion} : deletion # "none"} \union
              {op \in {Unsent} : answer # Unsent}) < MaxBusy

\* A load that is being started: it comes after every load in flight.
Started == [NoLoad EXCEPT !.active = TRUE, !.before = InFlight]

\* fetchDashboardData, and the first assignment of refresh.
StartLoad(s) ==
  /\ ~loads[s].active
  /\ loads' = [loads EXCEPT ![s] = Started]
  /\ loading' = TRUE
  /\ unseen' = FALSE

\* The loads after s was answered or has failed: those started before it are passed.
Settled(s) ==
  [t \in Slots |->
     IF t = s THEN NoLoad
     ELSE [loads[t] EXCEPT !.before = @ \ {s}, !.passed = @ \/ t \in loads[s].before]]

FirstPage == CHOOSE p \in Pages : TRUE

Init ==
  /\ store \in Snapshot
  /\ events = {} /\ report = NoReport
  /\ connected = FALSE /\ loading = TRUE
  /\ \/ \E s \in {FirstPage} :
          loads = [t \in Slots |-> IF t = s THEN [NoLoad EXCEPT !.active = TRUE] ELSE NoLoad]
     \/ /\ Strict
        /\ \E s0 \in {FirstPage} : \E s \in Pages \ {s0} :
             loads = [t \in Slots |->
               CASE t = s0 -> [NoLoad EXCEPT !.active = TRUE, !.mounted = FALSE]
                 [] t = s -> [NoLoad EXCEPT !.active = TRUE, !.before = {s0}]
                 [] OTHER -> NoLoad]
  /\ investigating = FALSE /\ answer = Unsent
  /\ importing = FALSE /\ import = "none"
  /\ onSources \in BOOLEAN /\ target = Closed /\ deleting = FALSE
  /\ deletion = "none" /\ doomed = All
  /\ unseen = FALSE /\ surpassed = FALSE /\ narrowed = FALSE

\* SearchEventsTool: the first events that a search lists.
Investigated(found) ==
  {e \in found : Cardinality({d \in found : Rank[d] > Rank[e]}) < Limit}

\* GET /api/events is answered by the server, which lists every event.
AnswerList(s) ==
  /\ loads[s].active /\ loads[s].list = Waiting
  /\ loads' = [loads EXCEPT ![s].list = store]
  /\ UNCHANGED <<store, screen, flags, investigation, importVars, deletionVars, history>>

\* POST /api/investigations with an empty query is answered by the server.  The
\* report names the events that were investigated, which are not all of them.
AnswerReport(s) ==
  /\ loads[s].active /\ loads[s].found = Waiting
  /\ loads' = [loads EXCEPT ![s].found = Investigated(store)]
  /\ UNCHANGED <<store, screen, flags, investigation, importVars, deletionVars, history>>

\* The code after the refresh that submitImport and removeEvents wait for.  A
\* deletion ends in the dialog that started it, if that is still mounted.
Resume_LeavesImporting(s) ==
  /\ UNCHANGED importVars
  /\ IF s = Deletion
     THEN /\ deletion' = "none" /\ doomed' = All /\ deleting' = FALSE
          /\ target' = IF deleting THEN Closed ELSE target
          /\ UNCHANGED onSources
     ELSE UNCHANGED deletionVars

Resume(s) ==
  /\ IF s = Import
     THEN importing' = FALSE /\ import' = "none"
     ELSE UNCHANGED importVars
  /\ IF s = Deletion
     THEN /\ deletion' = "none" /\ doomed' = All /\ deleting' = FALSE
          /\ target' = IF deleting THEN Closed ELSE target
          /\ UNCHANGED onSources
     ELSE UNCHANGED deletionVars

\* Both requests are answered: their data is shown, unless the effect that
\* asked for it has been cleaned up.
Loaded_KeepsReport(s) ==
  /\ loads[s].active /\ Waiting \notin {loads[s].list, loads[s].found}
  /\ loads' = Settled(s)
  /\ IF loads[s].mounted
     THEN /\ events' = loads[s].list
          /\ report' = IF report = NoReport THEN loads[s].found ELSE report
          /\ connected' = TRUE /\ loading' = FALSE
          /\ surpassed' = loads[s].passed /\ narrowed' = FALSE
     ELSE UNCHANGED <<screen, flags, surpassed, narrowed>>
  /\ Resume(s)
  /\ UNCHANGED <<store, investigation, unseen>>

Loaded(s) ==
  /\ loads[s].active /\ Waiting \notin {loads[s].list, loads[s].found}
  /\ loads' = Settled(s)
  /\ IF loads[s].mounted
     THEN /\ events' = loads[s].list /\ report' = loads[s].found
          /\ connected' = TRUE /\ loading' = FALSE
          /\ surpassed' = loads[s].passed /\ narrowed' = FALSE
     ELSE UNCHANGED <<screen, flags, surpassed, narrowed>>
  /\ Resume(s)
  /\ UNCHANGED <<store, investigation, unseen>>

\* One of the two requests fails: Promise.all does not wait for the other.
\* refresh reports the failure itself, so what waits for it goes on.
LoadFails_StillLoading(s) ==
  /\ loads[s].active
  /\ loads' = Settled(s)
  /\ connected' = IF loads[s].mounted THEN FALSE ELSE connected
  /\ Resume(s)
  /\ UNCHANGED <<store, screen, loading, investigation, history>>

LoadFails(s) ==
  /\ loads[s].active
  /\ loads' = Settled(s)
  /\ IF loads[s].mounted
     THEN connected' = FALSE /\ loading' = FALSE
     ELSE UNCHANGED flags
  /\ Resume(s)
  /\ UNCHANGED <<store, screen, investigation, history>>

\* The Refresh button is disabled while loading, and Retry is shown only then.
\* A load takes the first slot that is free.
Refresh(s) ==
  /\ ~loading /\ Room
  /\ s = CHOOSE p \in Pages : ~loads[p].active
  /\ StartLoad(s)
  /\ UNCHANGED <<store, screen, connected, investigation, importVars, deletionVars, surpassed, narrowed>>

-----------------------------------------------------------------------------
(* Investigations.                                                         *)

\* The buttons "New investigation" and "Start investigation".
StartInvestigation ==
  /\ ~investigating /\ Room
  /\ investigating' = TRUE /\ answer' = Waiting
  /\ UNCHANGED <<store, screen, flags, loads, importVars, deletionVars, history>>

AnswerInvestigation ==
  /\ answer = Waiting
  /\ \E matching \in Queries : answer' = Investigated(store \intersect matching)
  /\ UNCHANGED <<store, screen, flags, loads, investigating, importVars, deletionVars, history>>

\* Leaving the Sources view unmounts it, with its dialog.
LeaveSources ==
  /\ onSources' = FALSE /\ target' = Closed /\ deleting' = FALSE
  /\ UNCHANGED <<deletion, doomed>>

\* Its report replaces the one on screen, and the view changes to it.
ShowInvestigation ==
  /\ answer \notin {Unsent, Waiting}
  /\ report' = answer
  /\ investigating' = FALSE /\ answer' = Unsent
  /\ narrowed' = TRUE
  /\ LeaveSources
  /\ UNCHANGED <<store, events, flags, loads, importVars, unseen, surpassed>>

InvestigationFails ==
  /\ answer # Unsent
  /\ investigating' = FALSE /\ answer' = Unsent
  /\ UNCHANGED <<store, screen, flags, loads, importVars, deletionVars, history>>

\* detections[].evidenceEventIds of the report on screen.
CitedEvidence == IF report = NoReport THEN {} ELSE Evidence[report]

-----------------------------------------------------------------------------
(* Imports.  The API saves line by line, so a failure leaves a part.       *)

SubmitImport ==
  /\ ~importing /\ Room
  /\ importing' = TRUE /\ import' = "sending"
  /\ UNCHANGED <<store, screen, flags, loads, investigation, deletionVars, history>>

ImportSaves(e) ==
  /\ import = "sending" /\ e \notin store
  /\ store' = store \union {e}
  /\ unseen' = TRUE
  /\ UNCHANGED <<screen, flags, loads, investigation, importVars, deletionVars, surpassed, narrowed>>

ImportAnswered_NoRefresh ==
  /\ import = "sending"
  /\ importing' = FALSE /\ import' = "none" /\ unseen' = FALSE
  /\ UNCHANGED <<store, screen, flags, loads, investigation, deletionVars, surpassed, narrowed>>

ImportAnswered ==
  /\ import = "sending"
  /\ import' = "refreshing"
  /\ StartLoad(Import)
  /\ UNCHANGED <<store, screen, connected, investigation, importing, deletionVars, surpassed, narrowed>>

\* The request is refused, breaks off, or its answer is lost: no refresh.
ImportFails ==
  /\ import = "sending"
  /\ importing' = FALSE /\ import' = "none"
  /\ UNCHANGED <<store, screen, flags, loads, investigation, deletionVars, history>>

-----------------------------------------------------------------------------
(* Deletions, in a dialog of the Sources view.                             *)

SourcesOnScreen == {SourceOf[e] : e \in events}

\* The view shows its content, and so the dialog, only while nothing loads.
SourcesShown == onSources /\ ~loading /\ events # {}

OpenDialog(t) ==
  /\ SourcesShown /\ target = Closed
  /\ t \in SourcesOnScreen \union {All}
  /\ target' = t
  /\ UNCHANGED <<store, screen, flags, loads, investigation, importVars, onSources, deleting,
                 deletion, doomed, history>>

\* Cancel, Escape or a click outside, none of which works while deleting.
CloseDialog ==
  /\ SourcesShown /\ target # Closed /\ ~deleting
  /\ target' = Closed
  /\ UNCHANGED <<store, screen, flags, loads, investigation, importVars, onSources, deleting,
                 deletion, doomed, history>>

Confirm_NoTarget ==
  /\ SourcesShown /\ ~deleting
  /\ deletion = "none" /\ Room
  /\ deleting' = TRUE /\ deletion' = "sending" /\ doomed' = target
  /\ UNCHANGED <<store, screen, flags, loads, investigation, importVars, onSources, target, history>>

\* Bound: one deletion at a time, also after the view was left and opened again.
Confirm ==
  /\ SourcesShown /\ target # Closed /\ ~deleting
  /\ deletion = "none" /\ Room
  /\ deleting' = TRUE /\ deletion' = "sending" /\ doomed' = target
  /\ UNCHANGED <<store, screen, flags, loads, investigation, importVars, onSources, target, history>>

Doomed == IF doomed = All THEN Events ELSE {e \in Events : SourceOf[e] = doomed}

Deletes ==
  /\ deletion = "sending"
  /\ deletion' = "done"
  /\ store' = store \ Doomed
  /\ unseen' = TRUE
  /\ UNCHANGED <<screen, flags, loads, investigation, importVars, onSources, target, deleting,
                 doomed, surpassed, narrowed>>

DeletionAnswered ==
  /\ deletion = "done"
  /\ deletion' = "refreshing"
  /\ StartLoad(Deletion)
  /\ UNCHANGED <<store, screen, connected, investigation, importVars, onSources, target, deleting,
                 doomed, surpassed, narrowed>>

\* removeEvents reports the failure and returns, so the dialog closes.
DeletionFails ==
  /\ deletion \in {"sending", "done"}
  /\ deletion' = "none" /\ doomed' = All /\ deleting' = FALSE
  /\ target' = IF deleting THEN Closed ELSE target
  /\ UNCHANGED <<store, screen, flags, loads, investigation, importVars, onSources, history>>

-----------------------------------------------------------------------------

\* The navigation and the back button; a dialog does not stop the latter.
Navigate ==
  /\ IF onSources
     THEN LeaveSources
     ELSE onSources' = TRUE /\ UNCHANGED <<target, deleting, deletion, doomed>>
  /\ UNCHANGED <<store, screen, flags, loads, investigation, importVars, history>>

\* The worker, or another client of the API.
WorkerSaves(e) ==
  /\ e \notin store
  /\ store' = store \union {e}
  /\ unseen' = TRUE
  /\ UNCHANGED <<screen, flags, loads, investigation, importVars, deletionVars, surpassed, narrowed>>

LoadStep(s) == AnswerList(s) \/ AnswerReport(s) \/ Loaded(s) \/ LoadFails(s)

InvestigationStep == AnswerInvestigation \/ ShowInvestigation \/ InvestigationFails

ImportReturns == ImportAnswered \/ ImportFails

DeletionStep == Deletes \/ DeletionAnswered \/ DeletionFails

Next ==
  \/ \E s \in Slots : LoadStep(s)
  \/ \E s \in Pages : Refresh(s)
  \/ StartInvestigation \/ InvestigationStep
  \/ SubmitImport \/ ImportReturns
  \/ \E e \in Events : ImportSaves(e) \/ WorkerSaves(e)
  \/ \E t \in Targets : OpenDialog(t)
  \/ CloseDialog \/ Confirm \/ DeletionStep
  \/ Navigate

Spec == Init /\ [][Next]_vars

\* Every request ends: the server answers it or the connection breaks.
FairSpec ==
  /\ Spec
  /\ \A s \in Slots : WF_vars(LoadStep(s))
  /\ WF_vars(InvestigationStep) /\ WF_vars(ImportReturns) /\ WF_vars(DeletionStep)

-----------------------------------------------------------------------------

\* A busy flag is never left behind: what disables a button, or hides a view,
\* has a request in flight that will end it (the finally blocks of App).
BusyMeansInFlight ==
  /\ loading => \E s \in Slots : loads[s].active /\ loads[s].mounted
  /\ investigating <=> answer # Unsent
  /\ importing <=> import # "none"
  /\ deleting => deletion # "none" /\ target = doomed
  /\ import = "refreshing" <=> loads[Import].active
  /\ deletion = "refreshing" <=> loads[Deletion].active

Quiet ==
  /\ \A s \in Slots : ~loads[s].active
  /\ import = "none" /\ deletion = "none"

\* After the dashboard's own imports and deletions the screen shows what is stored,
\* when nothing is in flight, the last load to settle was answered, and the store
\* has not changed behind the dashboard's back since.  The code keeps this only if
\* loads settle in the order in which they were started (App.tsx:240-249 shows
\* every answer): a screen that is stale although quiet and connected shows a load
\* that was answered after a newer one, which
\*   - had been shown, and was overwritten, or
\*   - had failed, and the older answer hides that.
\* Both are excepted here (surpassed).  There is no other way to such a screen, and
\* the next load that overlaps none ends it.
FreshWhenQuiet == Quiet /\ connected /\ ~unseen /\ ~surpassed => events = store

\* Then also the findings, which come with another request and are replaced by
\* those of the user's investigations, are about the events that are listed:
\* their evidence is what the rules find in the first Limit of these.  (Of a longer
\* list, the counters count events that no finding can speak of.)
FindingsMatchEvents ==
  Quiet /\ connected /\ ~unseen /\ ~surpassed /\ ~narrowed =>
    CitedEvidence = Evidence[Investigated(events)]

\* An import ends, through its request and the refresh behind it, whatever
\* other loads overlap it: "Importing..." never stays on the button.
ImportEnds == importing ~> ~importing
=============================================================================
