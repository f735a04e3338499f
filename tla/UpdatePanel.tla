----------------------------- MODULE UpdatePanel -----------------------------
(***************************************************************************)
(* What the dashboard shows of the desktop updater: useAppUpdate polls its *)
(* status once a minute, a banner and a row of the Settings view offer a   *)
(* check and a restart.  A slow poll overlaps the next one, and the answer *)
(* of a check sets the same status.  The updater itself, which here moves  *)
(* as it likes, is modelled in DesktopUpdater.                             *)
(***************************************************************************)
EXTENDS Naturals, FiniteSets

CONSTANTS
  States,     \* what the updater can report, of "checking", "ready" and so on
  NoUpdater,  \* null: the web dashboard, where the route does not exist
  PollSlots,  \* bound: polls in flight at once
  CheckSlots  \* bound: checks in flight at once

ASSUME UpdateConstants ==
  /\ "idle" \in States /\ NoUpdater \notin States
  /\ PollSlots \intersect CheckSlots = {}

Requests == PollSlots \union CheckSlots
Buttons == {"banner", "row"}

VARIABLES
  updater,     \* the state the updater is in, or NoUpdater
  status,      \* the last one set on the page
  requests,    \* [Requests -> Request]
  rowShown,    \* the Settings view is mounted
  checking,    \* its "Check now" waits for an answer
  applying,    \* the banner's button has been pressed
  restarting   \* the restart requests in flight, by button

updateVars == <<updater, status, requests, rowShown, checking, applying, restarting>>

\* own: of a check, the row that sent it is still mounted.
Request == [phase : {"idle", "asked", "answered"}, value : States \union {NoUpdater}, own : BOOLEAN]

NoRequest == [phase |-> "idle", value |-> NoUpdater, own |-> FALSE]

Ask(r) == requests' = [requests EXCEPT ![r] = [NoRequest EXCEPT !.phase = "asked", !.own = TRUE]]

End(r) == requests' = [requests EXCEPT ![r] = NoRequest]

\* The page mounts and polls at once.  (In a development build the first of two
\* polls is dropped: its effect has been cleaned up.)
FirstPoll(r) ==
  [q \in Requests |-> IF q = r THEN [NoRequest EXCEPT !.phase = "asked", !.own = TRUE]
                               ELSE NoRequest]

UpdateInit ==
  /\ updater \in States \union {NoUpdater}
  /\ status = NoUpdater
  /\ \E r \in PollSlots : requests = FirstPoll(r)
  /\ rowShown = FALSE /\ checking = FALSE
  /\ applying = FALSE /\ restarting = {}

\* The interval: it does not wait for the poll before.
Poll_MountOnly(r) ==
  /\ r \in PollSlots /\ requests[r].phase = "idle" /\ status = NoUpdater
  /\ Ask(r)
  /\ UNCHANGED <<updater, status, rowShown, checking, applying, restarting>>

Poll(r) ==
  /\ r \in PollSlots /\ requests[r].phase = "idle"
  /\ Ask(r)
  /\ UNCHANGED <<updater, status, rowShown, checking, applying, restarting>>

\* GET /api/app/update, and POST /api/app/update/check when its check has ended.
Serve(r) ==
  /\ requests[r].phase = "asked"
  /\ requests' = [requests EXCEPT ![r].phase = "answered", ![r].value = updater]
  /\ UNCHANGED <<updater, status, rowShown, checking, applying, restarting>>

\* The finally block of check acts on the row that pressed the button.
Settle(r) ==
  /\ End(r)
  /\ checking' = IF r \in CheckSlots /\ requests[r].own THEN FALSE ELSE checking

Arrive(r) ==
  /\ requests[r].phase = "answered"
  /\ status' = requests[r].value
  /\ Settle(r)
  /\ UNCHANGED <<updater, rowShown, applying, restarting>>

\* A failed poll is ignored, a failed check only reported.
Fail(r) ==
  /\ requests[r].phase # "idle"
  /\ Settle(r)
  /\ UNCHANGED <<updater, status, rowShown, applying, restarting>>

\* "Check now".
CheckNow(r) ==
  /\ r \in CheckSlots /\ requests[r].phase = "idle"
  /\ rowShown /\ status # NoUpdater
  /\ ~checking /\ status \notin {"checking", "downloading", "disabled"}
  /\ checking' = TRUE
  /\ Ask(r)
  /\ UNCHANGED <<updater, status, rowShown, applying, restarting>>

\* Leaving the Settings view unmounts the row; a check it sent goes on.
ToggleSettings ==
  /\ rowShown' = ~rowShown
  /\ checking' = FALSE
  /\ requests' = [r \in Requests |->
                    IF r \in CheckSlots THEN [requests[r] EXCEPT !.own = FALSE] ELSE requests[r]]
  /\ UNCHANGED <<updater, status, applying, restarting>>

\* "Restart now", in the banner once and in the row any number of times.
Restart(button) ==
  /\ status = "ready" /\ button \notin restarting
  /\ IF button = "banner" THEN ~applying /\ applying' = TRUE
                          ELSE rowShown /\ UNCHANGED applying
  /\ restarting' = restarting \union {button}
  /\ UNCHANGED <<updater, status, requests, rowShown, checking>>

\* Refused, or the answer is lost.  The banner's button stays disabled.
RestartFails(button) ==
  /\ button \in restarting
  /\ restarting' = restarting \ {button}
  /\ UNCHANGED <<updater, status, requests, rowShown, checking, applying>>

\* The application restarts on the new version, with a new page.
Restarted(button) ==
  /\ button \in restarting /\ updater = "ready"
  /\ updater' = "idle"
  /\ status' = NoUpdater
  /\ \E r \in PollSlots : requests' = FirstPoll(r)
  /\ rowShown' = FALSE /\ checking' = FALSE
  /\ applying' = FALSE /\ restarting' = {}

UpdaterMoves ==
  /\ updater # NoUpdater
  /\ updater' \in States \ {updater}
  /\ UNCHANGED <<status, requests, rowShown, checking, applying, restarting>>

UpdateNext ==
  \/ \E r \in Requests : Poll(r) \/ Serve(r) \/ Arrive(r) \/ Fail(r) \/ CheckNow(r)
  \/ ToggleSettings
  \/ \E button \in Buttons : Restart(button) \/ RestartFails(button) \/ Restarted(button)
  \/ UpdaterMoves

\* The timer goes on, every request ends, and requests do not fail for ever.
UpdateFairness ==
  /\ WF_updateVars(\E r \in PollSlots : Poll(r))
  /\ \A r \in Requests : WF_updateVars(Arrive(r) \/ Fail(r))
  /\ SF_updateVars(\E r \in PollSlots : Serve(r))
  /\ SF_updateVars(\E r \in PollSlots : Arrive(r))

UpdateSpec == UpdateInit /\ [][UpdateNext]_updateVars /\ UpdateFairness

\* When the updater comes to rest, the page ends up showing the state it is in,
\* whatever older answers overtake newer ones, and however often polls fail: a
\* finished download is offered, and a button is not blocked by an old state.
PanelCatchesUp == \A s \in States : <>[](updater = s) => <>[](status = s)
=============================================================================
