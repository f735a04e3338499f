-------------------------- MODULE Dashboard_proofs --------------------------
(***************************************************************************)
(* For any events, sources and number of overlapping loads: the state of   *)
(* the dashboard keeps its types, no busy flag is left behind, and after   *)
(* the dashboard's own changes the screen shows what is stored, with the   *)
(* findings that belong to it.                                             *)
(***************************************************************************)
EXTENDS Dashboard, TLAPS

\* The load started last, as long as none started after it has settled: what
\* the server has told it is still what is stored, if nothing has changed
\* behind the dashboard's back.
NewestIsCurrent ==
  ~unseen =>
    \A s \in Slots :
      /\ loads[s].active /\ ~loads[s].passed
      /\ \A t \in Slots : loads[t].active => s \notin loads[t].before
      => loads[s].list \in {Waiting, store} /\ loads[s].found \in {Waiting, Investigated(store)}

\* Only the first of the two loads of a development build is not mounted.
UnmountedIsFirst ==
  \A s \in Slots : loads[s].active /\ ~loads[s].mounted => loads[s].before = {}

NotBeforeItself == \A s \in Slots : loads[s].active => s \notin loads[s].before

\* FreshWhenQuiet, as soon as no load is left that could change the screen.
ShownIsCurrent ==
  /\ connected /\ ~unseen /\ ~surpassed
  /\ \A s \in Slots : loads[s].active => ~loads[s].mounted
  => events = store /\ (~narrowed => report = Investigated(store))

FreshInv == NewestIsCurrent /\ UnmountedIsFirst /\ NotBeforeItself /\ ShownIsCurrent

\* FreshWhenQuiet is not inductive: while loads overlap, it depends on which of
\* them will settle last, and on what that one has been told.
DashboardInv == TypeOK /\ BusyMeansInFlight /\ FreshInv

-----------------------------------------------------------------------------
(* What the operations on loads do.                                        *)

\* An investigation looks at some of the events it is asked about.
LEMMA InvestigatedPart == \A S \in SUBSET Events : Investigated(S) \in SUBSET Events
BY DEF Investigated

LEMMA SettledLoads ==
  ASSUME TypeOK, NEW s \in Slots
  PROVE  /\ Settled(s) \in [Slots -> Load]
         /\ ~Settled(s)[s].active
         /\ \A t \in Slots \ {s} :
              /\ Settled(s)[t].active = loads[t].active
              /\ Settled(s)[t].mounted = loads[t].mounted
              /\ Settled(s)[t].list = loads[t].list
              /\ Settled(s)[t].found = loads[t].found
              /\ Settled(s)[t].before = loads[t].before \ {s}
              /\ Settled(s)[t].passed = (loads[t].passed \/ t \in loads[s].before)
<1>1. NoLoad \in Load /\ ~NoLoad.active
  BY DEF NoLoad, Load
<1>2. ASSUME NEW t \in Slots \ {s}
      PROVE  /\ Settled(s)[t] \in Load
             /\ Settled(s)[t].active = loads[t].active
             /\ Settled(s)[t].mounted = loads[t].mounted
             /\ Settled(s)[t].list = loads[t].list
             /\ Settled(s)[t].found = loads[t].found
             /\ Settled(s)[t].before = loads[t].before \ {s}
             /\ Settled(s)[t].passed = (loads[t].passed \/ t \in loads[s].before)
  <2>1. loads[t] \in Load
    BY DEF TypeOK
  <2>2. Settled(s)[t] = [loads[t] EXCEPT !.before = @ \ {s},
                                         !.passed = @ \/ t \in loads[s].before]
    BY DEF Settled
  <2> QED BY <2>1, <2>2 DEF Load
<1>3. Settled(s)[s] = NoLoad
  BY DEF Settled
<1>4. Settled(s) \in [Slots -> Load]
  <2>1. Settled(s) = [t \in Slots |-> Settled(s)[t]]
    BY DEF Settled
  <2>2. \A t \in Slots : Settled(s)[t] \in Load
    BY <1>1, <1>2, <1>3
  <2> HIDE DEF Settled
  <2> QED BY <2>1, <2>2
<1> QED BY <1>1, <1>2, <1>3, <1>4

LEMMA StartedLoad ==
  ASSUME TypeOK, NEW s \in Slots, loads' = [loads EXCEPT ![s] = Started]
  PROVE  /\ loads' \in [Slots -> Load]
         /\ loads'[s].active /\ loads'[s].mounted /\ ~loads'[s].passed
         /\ loads'[s].list = Waiting /\ loads'[s].found = Waiting
         /\ loads'[s].before = InFlight
         /\ \A t \in Slots \ {s} : loads'[t] = loads[t]
<1>1. /\ Started \in Load /\ Started.active /\ Started.mounted /\ ~Started.passed
      /\ Started.list = Waiting /\ Started.found = Waiting
      /\ Started.before = InFlight
  BY DEF Started, NoLoad, Load, InFlight
<1> QED BY <1>1 DEF TypeOK

LEMMA AnsweredLoad ==
  ASSUME TypeOK, NEW s \in Slots,
         \/ loads' = [loads EXCEPT ![s].list = store]
         \/ loads' = [loads EXCEPT ![s].found = Investigated(store)]
  PROVE  /\ loads' \in [Slots -> Load]
         /\ \A t \in Slots :
              /\ loads'[t].active = loads[t].active
              /\ loads'[t].mounted = loads[t].mounted
              /\ loads'[t].before = loads[t].before
              /\ loads'[t].passed = loads[t].passed
              /\ loads'[t].list \in {loads[t].list, store}
              /\ loads'[t].found \in {loads[t].found, Investigated(store)}
<1>1. /\ loads[s] \in Load /\ store \in Snapshot /\ loads \in [Slots -> Load]
      /\ Investigated(store) \in Snapshot
  BY InvestigatedPart DEF TypeOK, Snapshot
<1>2. CASE loads' = [loads EXCEPT ![s].list = store]
  <2>1. [loads[s] EXCEPT !.list = store] \in Load
    BY <1>1 DEF Load
  <2>2. loads' = [loads EXCEPT ![s] = [loads[s] EXCEPT !.list = store]]
    BY <1>2
  <2> QED BY <1>1, <2>1, <2>2 DEF Load
<1>3. CASE loads' = [loads EXCEPT ![s].found = Investigated(store)]
  <2>1. [loads[s] EXCEPT !.found = Investigated(store)] \in Load
    BY <1>1 DEF Load
  <2>2. loads' = [loads EXCEPT ![s] = [loads[s] EXCEPT !.found = Investigated(store)]]
    BY <1>3
  <2> QED BY <1>1, <2>1, <2>2 DEF Load
<1> QED BY <1>2, <1>3

-----------------------------------------------------------------------------
(* What they do to the data on screen.                                     *)

LEMMA FreshKept ==
  ASSUME FreshInv, UNCHANGED <<store, events, connected, loads, unseen, surpassed>>,
         narrowed' = TRUE \/ UNCHANGED <<report, narrowed>>
  PROVE  FreshInv'
BY DEF FreshInv, NewestIsCurrent, UnmountedIsFirst, NotBeforeItself, ShownIsCurrent

\* A change of the store behind the dashboard's back promises nothing.
LEMMA FreshUnseen ==
  ASSUME FreshInv, unseen' = TRUE, loads' = loads
  PROVE  FreshInv'
BY DEF FreshInv, NewestIsCurrent, UnmountedIsFirst, NotBeforeItself, ShownIsCurrent

\* A new load is mounted, and every other one comes before it.
LEMMA FreshStarted ==
  ASSUME TypeOK, FreshInv, NEW s \in Slots, StartLoad(s), UNCHANGED store
  PROVE  FreshInv'
<1>1. /\ ~loads[s].active /\ loads' = [loads EXCEPT ![s] = Started]
  BY DEF StartLoad
<1>2. /\ loads'[s].active /\ loads'[s].mounted
      /\ loads'[s].list = Waiting /\ loads'[s].found = Waiting
      /\ loads'[s].before = InFlight
      /\ \A t \in Slots \ {s} : loads'[t] = loads[t]
  BY <1>1, StartedLoad
<1>3. NewestIsCurrent'
  <2> SUFFICES ASSUME NEW t \in Slots, loads'[t].active,
                      \A u \in Slots : loads'[u].active => t \notin loads'[u].before
               PROVE  loads'[t].list \in {Waiting, store'} /\ loads'[t].found \in {Waiting, Investigated(store')}
    BY DEF NewestIsCurrent
  <2>1. t \notin InFlight
    BY <1>2
  <2>2. t = s
    BY <1>2, <2>1 DEF InFlight
  <2> QED BY <1>2, <2>2
<1>4. UnmountedIsFirst' /\ NotBeforeItself'
  BY <1>1, <1>2 DEF FreshInv, UnmountedIsFirst, NotBeforeItself, InFlight
<1>5. ShownIsCurrent'
  BY <1>2 DEF ShownIsCurrent
<1> QED BY <1>3, <1>4, <1>5 DEF FreshInv

LEMMA FreshAnswered ==
  ASSUME TypeOK, FreshInv, NEW s \in Slots, AnswerList(s) \/ AnswerReport(s)
  PROVE  FreshInv'
<1>1. /\ UNCHANGED <<store, events, report, connected, unseen, surpassed, narrowed>>
      /\ \/ loads' = [loads EXCEPT ![s].list = store]
         \/ loads' = [loads EXCEPT ![s].found = Investigated(store)]
  BY DEF AnswerList, AnswerReport, screen, flags, history
<1>2. \A t \in Slots : /\ loads'[t].active = loads[t].active
                       /\ loads'[t].mounted = loads[t].mounted
                       /\ loads'[t].before = loads[t].before
                       /\ loads'[t].passed = loads[t].passed
                       /\ loads'[t].list \in {loads[t].list, store}
                       /\ loads'[t].found \in {loads[t].found, Investigated(store)}
  BY <1>1, AnsweredLoad
<1>3. NewestIsCurrent'
  <2> SUFFICES ASSUME ~unseen', NEW t \in Slots, loads'[t].active, ~loads'[t].passed,
                      \A u \in Slots : loads'[u].active => t \notin loads'[u].before
               PROVE  loads'[t].list \in {Waiting, store'} /\ loads'[t].found \in {Waiting, Investigated(store')}
    BY DEF NewestIsCurrent
  <2>1. \A u \in Slots : loads[u].active => t \notin loads[u].before
    BY <1>2
  <2>2. loads[t].list \in {Waiting, store} /\ loads[t].found \in {Waiting, Investigated(store)}
    BY <1>1, <1>2, <2>1 DEF FreshInv, NewestIsCurrent
  <2> QED BY <1>1, <1>2, <2>2
<1>4. UnmountedIsFirst' /\ NotBeforeItself'
  BY <1>2 DEF FreshInv, UnmountedIsFirst, NotBeforeItself
<1>5. ShownIsCurrent'
  BY <1>1, <1>2 DEF FreshInv, ShownIsCurrent
<1> QED BY <1>3, <1>4, <1>5 DEF FreshInv

\* A load settles, and with it what depends on its being the last one: those that
\* were started before it are passed, and it was current if none is left behind it.
LEMMA FreshSettled ==
  ASSUME TypeOK, FreshInv, NEW s \in Slots, loads[s].active, loads' = Settled(s),
         UNCHANGED <<store, unseen>>,
         \/ /\ loads[s].mounted /\ loads[s].list # Waiting /\ loads[s].found # Waiting
            /\ events' = loads[s].list /\ report' = loads[s].found
            /\ surpassed' = loads[s].passed
         \/ loads[s].mounted /\ connected' = FALSE
         \/ ~loads[s].mounted /\ UNCHANGED <<events, report, connected, surpassed, narrowed>>
  PROVE  FreshInv'
<1>1. /\ ~loads'[s].active
      /\ \A t \in Slots \ {s} :
           /\ loads'[t].active = loads[t].active
           /\ loads'[t].mounted = loads[t].mounted
           /\ loads'[t].list = loads[t].list
           /\ loads'[t].found = loads[t].found
           /\ loads'[t].before = loads[t].before \ {s}
           /\ loads'[t].passed = (loads[t].passed \/ t \in loads[s].before)
  BY SettledLoads
<1>2. NewestIsCurrent'
  <2> SUFFICES ASSUME ~unseen', NEW t \in Slots, loads'[t].active, ~loads'[t].passed,
                      \A u \in Slots : loads'[u].active => t \notin loads'[u].before
               PROVE  loads'[t].list \in {Waiting, store'} /\ loads'[t].found \in {Waiting, Investigated(store')}
    BY DEF NewestIsCurrent
  <2>1. t # s /\ loads[t].active /\ ~loads[t].passed /\ t \notin loads[s].before
    BY <1>1
  <2>2. \A u \in Slots : loads[u].active => t \notin loads[u].before
    BY <1>1, <2>1
  <2>3. loads[t].list \in {Waiting, store} /\ loads[t].found \in {Waiting, Investigated(store)}
    BY <2>1, <2>2 DEF FreshInv, NewestIsCurrent
  <2> QED BY <1>1, <2>1, <2>3
<1>3. UnmountedIsFirst' /\ NotBeforeItself'
  BY <1>1 DEF FreshInv, UnmountedIsFirst, NotBeforeItself
<1>4. ShownIsCurrent'
  <2> SUFFICES ASSUME connected', ~unseen', ~surpassed',
                      \A t \in Slots : loads'[t].active => ~loads'[t].mounted
               PROVE  events' = store' /\ (~narrowed' => report' = Investigated(store'))
    BY DEF ShownIsCurrent
  <2>1. \A t \in Slots \ {s} : loads[t].active => ~loads[t].mounted /\ loads[t].before = {}
    BY <1>1 DEF FreshInv, UnmountedIsFirst
  <2>2. CASE ~loads[s].mounted
    BY <2>1, <2>2 DEF FreshInv, ShownIsCurrent
  <2>3. CASE loads[s].mounted
    <3>1. /\ loads[s].list # Waiting /\ events' = loads[s].list /\ ~loads[s].passed
          /\ loads[s].found # Waiting /\ report' = loads[s].found
      BY <2>3
    <3>2. \A u \in Slots : loads[u].active => s \notin loads[u].before
      BY <2>1 DEF FreshInv, NotBeforeItself
    <3> QED BY <3>1, <3>2 DEF FreshInv, NewestIsCurrent
  <2> QED BY <2>2, <2>3
<1> QED BY <1>2, <1>3, <1>4 DEF FreshInv

-----------------------------------------------------------------------------
(* The actions.                                                            *)

LEMMA FirstIsPage == FirstPage \in Pages
BY SlotsAreDistinct DEF FirstPage

LEMMA Init_Inv == Init => DashboardInv
<1> SUFFICES ASSUME Init PROVE DashboardInv
  OBVIOUS
<1>1. PICK s \in Pages, s0 \in Pages \union {Import} :
        /\ s # s0
        /\ \/ loads = [t \in Slots |-> IF t = s THEN [NoLoad EXCEPT !.active = TRUE] ELSE NoLoad]
           \/ loads = [t \in Slots |->
                CASE t = s0 -> [NoLoad EXCEPT !.active = TRUE, !.mounted = FALSE]
                  [] t = s -> [NoLoad EXCEPT !.active = TRUE, !.before = {s0}]
                  [] OTHER -> NoLoad] /\ s0 \in Pages
  BY SlotsAreDistinct, FirstIsPage DEF Init
<1>2. /\ s \in Slots /\ s0 \in Slots /\ Import \in Slots /\ Deletion \in Slots
      /\ s \notin {Import, Deletion}
  BY SlotsAreDistinct DEF Slots
<1>3. /\ NoLoad \in Load /\ [NoLoad EXCEPT !.active = TRUE] \in Load
      /\ [NoLoad EXCEPT !.active = TRUE, !.mounted = FALSE] \in Load
      /\ [NoLoad EXCEPT !.active = TRUE, !.before = {s0}] \in Load
  BY <1>2 DEF NoLoad, Load
<1>4. loads \in [Slots -> Load]
  BY <1>1, <1>3
<1>5. /\ loads[s].active /\ loads[s].mounted
      /\ ~loads[Import].active /\ ~loads[Deletion].active
      /\ \A t \in Slots :
           /\ loads[t].list = Waiting /\ loads[t].found = Waiting /\ t \notin loads[t].before
           /\ ~loads[t].mounted => loads[t].before = {}
  <2>1. /\ NoLoad.list = Waiting /\ NoLoad.found = Waiting /\ NoLoad.before = {}
        /\ NoLoad.mounted /\ ~NoLoad.active
    BY DEF NoLoad
  <2>2. /\ [NoLoad EXCEPT !.active = TRUE].active
        /\ [NoLoad EXCEPT !.active = TRUE].mounted
        /\ [NoLoad EXCEPT !.active = TRUE].list = Waiting
        /\ [NoLoad EXCEPT !.active = TRUE].found = Waiting
        /\ [NoLoad EXCEPT !.active = TRUE].before = {}
    BY DEF NoLoad
  <2>3. /\ [NoLoad EXCEPT !.active = TRUE, !.mounted = FALSE].list = Waiting
        /\ [NoLoad EXCEPT !.active = TRUE, !.mounted = FALSE].found = Waiting
        /\ [NoLoad EXCEPT !.active = TRUE, !.mounted = FALSE].before = {}
    BY DEF NoLoad
  <2>4. /\ [NoLoad EXCEPT !.active = TRUE, !.before = {s0}].active
        /\ [NoLoad EXCEPT !.active = TRUE, !.before = {s0}].mounted
        /\ [NoLoad EXCEPT !.active = TRUE, !.before = {s0}].list = Waiting
        /\ [NoLoad EXCEPT !.active = TRUE, !.before = {s0}].found = Waiting
        /\ [NoLoad EXCEPT !.active = TRUE, !.before = {s0}].before = {s0}
    BY DEF NoLoad
  <2> HIDE DEF NoLoad
  <2>5. s0 \in Pages => s0 \notin {Import, Deletion}
    BY SlotsAreDistinct
  <2> QED BY <1>1, <1>2, <2>1, <2>2, <2>3, <2>4, <2>5
<1>6. TypeOK
  BY <1>4 DEF Init, TypeOK, Snapshot, Targets
<1>7. BusyMeansInFlight
  BY <1>2, <1>5 DEF Init, BusyMeansInFlight
<1>8. FreshInv
  BY <1>5 DEF Init, FreshInv, NewestIsCurrent, UnmountedIsFirst, NotBeforeItself, ShownIsCurrent
<1> QED BY <1>6, <1>7, <1>8 DEF DashboardInv

LEMMA Answer_Inv ==
  ASSUME DashboardInv, NEW s \in Slots, AnswerList(s) \/ AnswerReport(s)
  PROVE  DashboardInv'
<1> USE DEF DashboardInv
<1>1. /\ loads' \in [Slots -> Load]
      /\ \A t \in Slots : /\ loads'[t].active = loads[t].active
                          /\ loads'[t].mounted = loads[t].mounted
  BY AnsweredLoad DEF AnswerList, AnswerReport
<1>2. /\ UNCHANGED <<store, screen, flags, investigation, importVars, deletionVars, history>>
      /\ Import \in Slots /\ Deletion \in Slots
  BY DEF AnswerList, AnswerReport, Slots
<1> USE DEF screen, flags, investigation, importVars, deletionVars, history
<1>3. TypeOK'
  BY <1>1, <1>2 DEF TypeOK
<1>4. BusyMeansInFlight'
  BY <1>1, <1>2 DEF BusyMeansInFlight
<1> QED BY <1>3, <1>4, FreshAnswered

\* What waits for the load that has settled goes on.
LEMMA Settle_Inv ==
  ASSUME DashboardInv, NEW s \in Slots, Loaded(s) \/ LoadFails(s)
  PROVE  DashboardInv'
<1> USE DEF DashboardInv
<1>1. /\ loads[s].active /\ loads' = Settled(s) /\ Resume(s)
      /\ UNCHANGED <<store, investigation, unseen>>
      /\ \/ /\ loads[s].mounted /\ loads[s].list # Waiting /\ loads[s].found # Waiting
            /\ events' = loads[s].list /\ report' = loads[s].found
            /\ connected' = TRUE /\ loading' = FALSE /\ surpassed' = loads[s].passed
            /\ narrowed' = FALSE
         \/ /\ loads[s].mounted /\ connected' = FALSE /\ loading' = FALSE
            /\ UNCHANGED <<screen, surpassed, narrowed>>
         \/ ~loads[s].mounted /\ UNCHANGED <<screen, flags, surpassed, narrowed>>
  BY DEF Loaded, LoadFails, history, screen
<1>2. /\ loads' \in [Slots -> Load] /\ ~loads'[s].active
      /\ \A t \in Slots \ {s} : /\ loads'[t].active = loads[t].active
                                /\ loads'[t].mounted = loads[t].mounted
  BY <1>1, SettledLoads
<1>3. Import \in Slots /\ Deletion \in Slots /\ Import # Deletion
  BY SlotsAreDistinct DEF Slots
<1>4. loads[s] \in Load
  BY DEF TypeOK
<1>5. /\ importing' \in BOOLEAN /\ import' \in {"none", "sending", "refreshing"}
      /\ onSources' \in BOOLEAN /\ target' \in Targets \union {Closed}
      /\ deleting' \in BOOLEAN /\ deletion' \in {"none", "sending", "done", "refreshing"}
      /\ doomed' \in Targets
  BY <1>1 DEF Resume, TypeOK, importVars, deletionVars, Targets
<1>6. TypeOK'
  <2>1. loads[s].list \in {Waiting} \union Snapshot /\ loads[s].found \in {Waiting} \union Snapshot
        /\ loads[s].passed \in BOOLEAN
    BY <1>4 DEF Load
  <2> QED BY <1>1, <1>2, <1>5, <2>1 DEF TypeOK, screen, flags, investigation
<1>7. BusyMeansInFlight'
  <2>1. loading' => \E t \in Slots : loads'[t].active /\ loads'[t].mounted
    BY <1>1, <1>2 DEF BusyMeansInFlight, flags
  <2>2. /\ importing' <=> import' # "none"
        /\ import' = "refreshing" <=> loads'[Import].active
    BY <1>1, <1>2, <1>3 DEF BusyMeansInFlight, Resume, importVars, TypeOK
  <2>3. /\ deleting' => deletion' # "none" /\ target' = doomed'
        /\ deletion' = "refreshing" <=> loads'[Deletion].active
    BY <1>1, <1>2, <1>3 DEF BusyMeansInFlight, Resume, deletionVars, TypeOK
  <2> QED BY <1>1, <2>1, <2>2, <2>3 DEF BusyMeansInFlight, investigation
<1>8. FreshInv'
  BY <1>1, FreshSettled DEF screen, flags
<1> QED BY <1>6, <1>7, <1>8

\* A load that is started: by a button, or behind an import or a deletion.
LEMMA Start_Inv ==
  ASSUME DashboardInv,
         NEW s \in Slots, StartLoad(s),
         UNCHANGED <<store, screen, connected, investigation, importing, onSources, target,
                     deleting, doomed, surpassed, narrowed>>,
         \/ s \in Pages /\ UNCHANGED <<import, deletion>>
         \/ s = Import /\ import = "sending" /\ import' = "refreshing" /\ UNCHANGED deletion
         \/ s = Deletion /\ deletion = "done" /\ deletion' = "refreshing" /\ UNCHANGED import
  PROVE  DashboardInv'
<1> USE DEF DashboardInv
<1>1. loads' = [loads EXCEPT ![s] = Started] /\ loading' = TRUE /\ unseen' = FALSE
  BY DEF StartLoad
<1>2. /\ loads' \in [Slots -> Load] /\ loads'[s].active /\ loads'[s].mounted
      /\ \A t \in Slots \ {s} : loads'[t] = loads[t]
  BY <1>1, StartedLoad
<1>3. /\ Import \in Slots /\ Deletion \in Slots /\ Import # Deletion
      /\ Import \notin Pages /\ Deletion \notin Pages
  BY SlotsAreDistinct DEF Slots
<1> USE DEF screen, investigation
<1>4. TypeOK'
  <2>1. import' \in {"none", "sending", "refreshing"}
        /\ deletion' \in {"none", "sending", "done", "refreshing"}
    BY DEF TypeOK
  <2> QED BY <1>1, <1>2, <2>1 DEF TypeOK
<1>5. BusyMeansInFlight'
  BY <1>1, <1>2, <1>3 DEF BusyMeansInFlight, TypeOK
<1> QED BY <1>4, <1>5, FreshStarted

\* Steps that change no load and nothing on screen.
LEMMA Other_Inv ==
  ASSUME DashboardInv,
         \/ StartInvestigation \/ AnswerInvestigation \/ ShowInvestigation
         \/ InvestigationFails \/ SubmitImport \/ ImportFails \/ CloseDialog
         \/ \E t \in Targets : OpenDialog(t)
         \/ Confirm \/ DeletionFails \/ Navigate \/ UNCHANGED vars
  PROVE  DashboardInv'
<1> USE DEF DashboardInv, screen, flags, investigation, importVars, deletionVars, history
<1>1. /\ UNCHANGED <<store, events, connected, loading, loads, unseen, surpassed>>
      /\ narrowed' = TRUE \/ UNCHANGED <<report, narrowed>>
  BY DEF StartInvestigation, AnswerInvestigation, ShowInvestigation, InvestigationFails,
         SubmitImport, ImportFails, CloseDialog, OpenDialog, Confirm, DeletionFails, Navigate, vars
<1>2. FreshInv' /\ narrowed' \in BOOLEAN
  <2>1. FreshInv'
    BY <1>1, FreshKept
  <2>2. narrowed' \in BOOLEAN
    BY <1>1 DEF TypeOK
  <2> QED BY <2>1, <2>2
<1>3. /\ store \in SUBSET Events /\ \A S \in SUBSET Events : S # Unsent /\ S # Waiting
      /\ Waiting # Unsent
      /\ Closed \notin Targets
  BY MarkersAreDistinct DEF TypeOK, Snapshot, Targets
<1>4. CASE StartInvestigation \/ AnswerInvestigation \/ InvestigationFails
  <2>1. /\ UNCHANGED <<report, importing, import, onSources, target, deleting, deletion, doomed>>
        /\ \/ investigating' = TRUE /\ answer' = Waiting
           \/ /\ investigating' = investigating /\ answer = Waiting
              /\ answer' \in SUBSET Events
           \/ investigating' = FALSE /\ answer' = Unsent
    <3>1. CASE StartInvestigation
      BY <3>1 DEF StartInvestigation
    <3>2. CASE AnswerInvestigation
      <4>1. PICK matching \in Queries : answer' = Investigated(store \intersect matching)
        BY <3>2 DEF AnswerInvestigation
      <4>2. answer' \in SUBSET Events
        BY <1>3, <4>1, InvestigatedPart
      <4> QED BY <3>2, <4>2 DEF AnswerInvestigation
    <3>3. CASE InvestigationFails
      BY <3>3 DEF InvestigationFails
    <3> QED BY <1>4, <3>1, <3>2, <3>3
  <2>2. TypeOK'
    <3>1. investigating' \in BOOLEAN /\ answer' \in {Unsent, Waiting} \union Snapshot
      BY <2>1 DEF TypeOK, Snapshot
    <3> QED BY <1>1, <1>2, <2>1, <3>1 DEF TypeOK
  <2>3. BusyMeansInFlight'
    BY <1>1, <1>3, <2>1 DEF BusyMeansInFlight
  <2> QED BY <1>2, <2>2, <2>3
<1>5. CASE ShowInvestigation
  <2>1. /\ report' = answer /\ investigating' = FALSE /\ answer' = Unsent
        /\ answer \notin {Unsent, Waiting}
        /\ onSources' = FALSE /\ target' = Closed /\ deleting' = FALSE
        /\ UNCHANGED <<importing, import, deletion, doomed>>
    BY <1>5 DEF ShowInvestigation, LeaveSources
  <2>2. TypeOK'
    BY <1>1, <1>2, <2>1 DEF TypeOK
  <2>3. BusyMeansInFlight'
    BY <1>1, <2>1 DEF BusyMeansInFlight
  <2> QED BY <1>2, <2>2, <2>3
<1>6. CASE SubmitImport \/ ImportFails
  <2>1. /\ UNCHANGED <<report, investigating, answer, onSources, target, deleting, deletion, doomed>>
        /\ \/ importing' = TRUE /\ import' = "sending" /\ ~importing
           \/ importing' = FALSE /\ import' = "none" /\ import = "sending"
    <3>1. CASE SubmitImport
      BY <3>1 DEF SubmitImport
    <3>2. CASE ImportFails
      BY <3>2 DEF ImportFails
    <3> QED BY <1>6, <3>1, <3>2
  <2>2. TypeOK'
    <3>1. importing' \in BOOLEAN /\ import' \in {"none", "sending", "refreshing"}
      BY <2>1
    <3> QED BY <1>1, <1>2, <2>1, <3>1 DEF TypeOK
  <2>3. BusyMeansInFlight'
    BY <1>1, <2>1 DEF BusyMeansInFlight, TypeOK
  <2> QED BY <1>2, <2>2, <2>3
<1>7. CASE CloseDialog \/ (\E t \in Targets : OpenDialog(t))
  <2>1. /\ UNCHANGED <<report, investigating, answer, importing, import, onSources, deleting,
                       deletion, doomed>>
        /\ target' \in Targets \union {Closed}
        /\ ~deleting \/ target = Closed
    BY <1>7 DEF CloseDialog, OpenDialog
  <2>2. TypeOK'
    BY <1>1, <1>2, <2>1 DEF TypeOK
  <2>3. ~deleting
    BY <1>3, <2>1 DEF BusyMeansInFlight, TypeOK
  <2>4. BusyMeansInFlight'
    BY <1>1, <2>1, <2>3 DEF BusyMeansInFlight
  <2> QED BY <1>2, <2>2, <2>4
<1>8. CASE Confirm
  <2>1. /\ UNCHANGED <<report, investigating, answer, importing, import, onSources, target>>
        /\ target # Closed /\ deletion = "none"
        /\ deleting' = TRUE /\ deletion' = "sending" /\ doomed' = target
    BY <1>8 DEF Confirm
  <2>2. TypeOK'
    BY <1>1, <1>2, <2>1 DEF TypeOK
  <2>3. BusyMeansInFlight'
    BY <1>1, <2>1 DEF BusyMeansInFlight
  <2> QED BY <1>2, <2>2, <2>3
<1>9. CASE DeletionFails
  <2>1. /\ UNCHANGED <<report, investigating, answer, importing, import, onSources>>
        /\ deletion \in {"sending", "done"} /\ deletion' = "none" /\ doomed' = All
        /\ deleting' = FALSE /\ target' \in {target, Closed}
    BY <1>9 DEF DeletionFails
  <2>2. TypeOK'
    <3>1. target' \in Targets \union {Closed} /\ doomed' \in Targets
      BY <2>1 DEF TypeOK, Targets
    <3>2. deletion' \in {"none", "sending", "done", "refreshing"} /\ deleting' \in BOOLEAN
      BY <2>1
    <3> QED BY <1>1, <1>2, <2>1, <3>1, <3>2 DEF TypeOK
  <2>3. BusyMeansInFlight'
    BY <1>1, <2>1 DEF BusyMeansInFlight
  <2> QED BY <1>2, <2>2, <2>3
<1>10. CASE Navigate
  <2>1. /\ UNCHANGED <<report, investigating, answer, importing, import, deletion, doomed>>
        /\ onSources' \in BOOLEAN
        /\ \/ target' = Closed /\ deleting' = FALSE
           \/ UNCHANGED <<target, deleting>>
    <3>1. CASE onSources
      BY <1>10, <3>1 DEF Navigate, LeaveSources
    <3>2. CASE ~onSources
      BY <1>10, <3>2 DEF Navigate
    <3> QED BY <3>1, <3>2
  <2>2. TypeOK'
    <3>1. target' \in Targets \union {Closed} /\ deleting' \in BOOLEAN
      BY <2>1 DEF TypeOK
    <3> QED BY <1>1, <1>2, <2>1, <3>1 DEF TypeOK
  <2>3. BusyMeansInFlight'
    BY <1>1, <2>1 DEF BusyMeansInFlight
  <2> QED BY <1>2, <2>2, <2>3
<1>11. CASE UNCHANGED vars
  BY <1>2, <1>11 DEF vars, TypeOK, BusyMeansInFlight
<1> QED BY <1>4, <1>5, <1>6, <1>7, <1>8, <1>9, <1>10, <1>11

\* Steps of the server that change the store.
LEMMA Store_Inv ==
  ASSUME DashboardInv,
         \/ \E e \in Events : ImportSaves(e) \/ WorkerSaves(e)
         \/ Deletes
  PROVE  DashboardInv'
<1> USE DEF DashboardInv, screen, flags, investigation, importVars, deletionVars
<1>1. /\ unseen' = TRUE /\ store' \in Snapshot
      /\ UNCHANGED <<screen, flags, loads, investigation, importVars, onSources, target, deleting,
                     doomed, surpassed, narrowed>>
      /\ \/ UNCHANGED deletion
         \/ deletion = "sending" /\ deletion' = "done"
  BY DEF ImportSaves, WorkerSaves, Deletes, TypeOK, Snapshot
<1>2. TypeOK'
  BY <1>1 DEF TypeOK
<1>3. BusyMeansInFlight'
  BY <1>1 DEF BusyMeansInFlight
<1>4. FreshInv'
  BY <1>1, FreshUnseen
<1> QED BY <1>2, <1>3, <1>4

LEMMA Next_Inv == DashboardInv /\ [Next]_vars => DashboardInv'
<1> SUFFICES ASSUME DashboardInv, [Next]_vars PROVE DashboardInv'
  OBVIOUS
<1>1. ASSUME NEW s \in Slots, LoadStep(s) PROVE DashboardInv'
  BY <1>1, Answer_Inv, Settle_Inv DEF LoadStep
<1>2. ASSUME NEW s \in Pages, Refresh(s) PROVE DashboardInv'
  <2>1. s \in Slots
    BY DEF Slots
  <2>2. /\ StartLoad(s)
        /\ UNCHANGED <<store, screen, connected, investigation, importing, onSources, target,
                       deleting, doomed, surpassed, narrowed, import, deletion>>
    BY <1>2 DEF Refresh, importVars, deletionVars
  <2> QED BY <2>1, <2>2, Start_Inv
<1>3. CASE ImportAnswered
  <2>1. /\ StartLoad(Import) /\ Import \in Slots /\ import = "sending" /\ import' = "refreshing"
        /\ UNCHANGED <<store, screen, connected, investigation, importing, onSources, target,
                       deleting, doomed, surpassed, narrowed, deletion>>
    BY <1>3 DEF ImportAnswered, deletionVars, Slots
  <2> QED BY <2>1, Start_Inv
<1>4. CASE DeletionAnswered
  <2>1. /\ StartLoad(Deletion) /\ Deletion \in Slots
        /\ deletion = "done" /\ deletion' = "refreshing"
        /\ UNCHANGED <<store, screen, connected, investigation, importing, onSources, target,
                       deleting, doomed, surpassed, narrowed, import>>
    BY <1>4 DEF DeletionAnswered, importVars, Slots
  <2> QED BY <2>1, Start_Inv
<1>5. CASE \/ StartInvestigation \/ InvestigationStep \/ SubmitImport \/ ImportFails
           \/ CloseDialog \/ Confirm \/ DeletionFails \/ Navigate \/ UNCHANGED vars
           \/ \E t \in Targets : OpenDialog(t)
  BY <1>5, Other_Inv DEF InvestigationStep
<1>6. CASE Deletes \/ (\E e \in Events : ImportSaves(e) \/ WorkerSaves(e))
  BY <1>6, Store_Inv
<1> QED BY <1>1, <1>2, <1>3, <1>4, <1>5, <1>6 DEF Next, ImportReturns, DeletionStep

-----------------------------------------------------------------------------

LEMMA DashboardIsSound == Spec => []DashboardInv
BY Init_Inv, Next_Inv, PTL DEF Spec

\* The state of App and SourcesView keeps its types, whatever overlaps.
THEOREM DashboardTypes == Spec => []TypeOK
<1>1. DashboardInv => TypeOK
  BY DEF DashboardInv
<1> QED BY <1>1, DashboardIsSound, PTL

\* The flags that disable buttons and hide views (loading, investigating,
\* importing, deleting) are set only while a request is in flight to end them.
THEOREM NoFlagLeftBehind == Spec => []BusyMeansInFlight
<1>1. DashboardInv => BusyMeansInFlight
  BY DEF DashboardInv
<1> QED BY <1>1, DashboardIsSound, PTL

\* However many refreshes overlap and in whatever order they are answered or fail:
\* when all is quiet after the dashboard's own changes, the last load to settle was
\* answered, and none that was started after it had settled before it, answered or
\* failed, the screen shows what is stored.
THEOREM ScreenIsFresh == Spec => []FreshWhenQuiet
<1>1. DashboardInv => FreshWhenQuiet
  BY DEF DashboardInv, FreshInv, ShownIsCurrent, FreshWhenQuiet, Quiet
<1> QED BY <1>1, DashboardIsSound, PTL

\* Then the findings on screen, unless an investigation of the user's replaced
\* them, cite exactly what the rules cite of the first Limit events listed, for
\* any limit and any rules.
THEOREM FindingsAreOfTheEvents == Spec => []FindingsMatchEvents
<1>1. \A S \in SUBSET Events : S # NoReport
  BY MarkersAreDistinct
<1>2. TypeOK => Investigated(store) \in SUBSET Events
  BY InvestigatedPart DEF TypeOK, Snapshot
<1>3. DashboardInv => FindingsMatchEvents
  BY <1>1, <1>2 DEF DashboardInv, FreshInv, ShownIsCurrent, FindingsMatchEvents, CitedEvidence, Quiet
<1> QED BY <1>3, DashboardIsSound, PTL
=============================================================================
