---------------------------- MODULE DesktopUpdater ----------------------------
(***************************************************************************)
(* The updater of the desktop app (DesktopUpdater.cs), the worker that     *)
(* calls it every six hours, the HTTP routes that check on demand and      *)
(* restart (Program.cs), and the end of the process when its window is     *)
(* closed.  One process runs at a time; it may be killed and is started    *)
(* again.  The release feed and Velopack's UpdateManager are external: a   *)
(* request to them succeeds, fails, is cancelled or times out.             *)
(*                                                                         *)
(* Fields of the updater are written inside _gate but read without it, so  *)
(* each assignment that another thread could see halfway is a step.        *)
(* The moment of the last check and the text of an error are left out.     *)
(***************************************************************************)
EXTENDS Integers

CONSTANTS
    Requests,     \* POST /api/app/update/check requests that may be running
    Worker,       \* the DesktopUpdateWorker
    MaxVersion    \* bound: versions 1..MaxVersion are released after version 0

ASSUME CallersAssumption == Worker \notin Requests
ASSUME VersionAssumption == MaxVersion \in Nat

Callers == Requests \cup {Worker}
Version == 0..MaxVersion
NoVersion == -1
NoCaller == "nobody"
Halfway == 50

ASSUME NobodyAssumption == NoCaller \notin Callers

VARIABLES
    isInstalled,  \* _manager.IsInstalled: false for a development run
    current,      \* the installed version
    released,     \* the newest version in the feed
    downloaded,   \* versions of which the whole package is on the disk
    app,          \* "open", "stopping" (the window is closed) or "off"
    pc,           \* where each caller of CheckAndDownloadAsync is
    update,       \* what CheckForUpdatesAsync returned to each caller
    gate,         \* who holds _gate
    pending,      \* _pending
    state,        \* _state
    progress,     \* _progress
    error,        \* whether _error is set
    restarting,   \* "accepted" until the delayed task of a restart runs; "failed"
                  \* when that task has thrown; else "no"
    installer,    \* the version the external installer waits to install
    relaunch,     \* whether it starts the app again
    timedOut,     \* history: a request of this process's worker timed out
    killed        \* history: the last process was killed

external == <<isInstalled, released>>
process  == <<app, current, installer, relaunch, killed>>
status   == <<state, progress, error>>
vars == <<isInstalled, current, released, downloaded, app, pc, update, gate,
          pending, state, progress, error, restarting, installer, relaunch,
          timedOut, killed>>

\* Callers between WaitAsync and Release.
Inside == {"inside", "querying", "downloading", "storing", "leaving", "escaping"}

TypeOK ==
    /\ isInstalled \in BOOLEAN
    /\ current \in Version
    /\ released \in Version
    /\ downloaded \in SUBSET Version
    /\ app \in {"open", "stopping", "off"}
    /\ pc \in [Callers -> Inside \cup {"idle", "entering", "ended"}]
    /\ update \in [Callers -> Version \cup {NoVersion}]
    /\ gate \in Callers \cup {NoCaller}
    /\ pending \in Version \cup {NoVersion}
    /\ state \in {"disabled", "idle", "checking", "up-to-date", "downloading",
                  "ready", "error"}
    /\ progress \in {0, Halfway, 100}
    /\ error \in BOOLEAN
    /\ restarting \in {"no", "accepted", "failed"}
    /\ installer \in Version \cup {NoVersion}
    /\ relaunch \in BOOLEAN
    /\ timedOut \in BOOLEAN
    /\ killed \in BOOLEAN
    /\ \A c \in Callers : pc[c] \in {"downloading", "storing"} => update[c] \in Version

InitialState(installed) == IF installed THEN "idle" ELSE "disabled"

Init ==
    /\ isInstalled \in BOOLEAN
    /\ current = 0
    /\ released = 0
    /\ downloaded = {}
    /\ app = "open"
    /\ pc = [c \in Callers |-> "idle"]
    /\ update = [c \in Callers |-> NoVersion]
    /\ gate = NoCaller
    /\ pending = NoVersion
    /\ state = InitialState(isInstalled)
    /\ progress = 0
    /\ error = FALSE
    /\ restarting = "no"
    /\ installer = NoVersion
    /\ relaunch = FALSE
    /\ timedOut = FALSE
    /\ killed = FALSE

-----------------------------------------------------------------------------
(* CheckAndDownloadAsync. *)

Goto(c, label) == pc' = [pc EXCEPT ![c] = label]

\* The worker's timer ticks, or a request arrives.
Call(c) ==
    /\ app = "open"
    /\ pc[c] = "idle"
    /\ Goto(c, "entering")
    /\ UNCHANGED <<external, process, status, downloaded, update, gate, pending,
                   restarting, timedOut>>

\* Mutant: the gate is not asked for.
EnterGate_Unguarded(c) ==
    /\ pc[c] = "entering"
    /\ IF isInstalled
       THEN gate' = c /\ Goto(c, "inside")
       ELSE UNCHANGED gate /\ Goto(c, "idle")
    /\ UNCHANGED <<external, process, status, downloaded, update, pending,
                   restarting, timedOut>>

\* WaitAsync(0) does not wait: without the gate the call returns at once.
EnterGate(c) ==
    /\ pc[c] = "entering"
    /\ IF isInstalled /\ gate = NoCaller
       THEN gate' = c /\ Goto(c, "inside")
       ELSE UNCHANGED gate /\ Goto(c, "idle")
    /\ UNCHANGED <<external, process, status, downloaded, update, pending,
                   restarting, timedOut>>

\* Mutant: the state is set before _pending is looked at.
StartCheck_ClearsFirst(c) ==
    /\ pc[c] = "inside"
    /\ Goto(c, IF pending # NoVersion THEN "leaving" ELSE "querying")
    /\ state' = "checking"
    /\ error' = FALSE
    /\ UNCHANGED <<external, process, downloaded, update, gate, pending, progress,
                   restarting, timedOut>>

StartCheck(c) ==
    /\ pc[c] = "inside"
    /\ IF pending # NoVersion
       THEN Goto(c, "leaving") /\ UNCHANGED status
       ELSE /\ Goto(c, "querying")
            /\ state' = "checking"
            /\ error' = FALSE
            /\ UNCHANGED progress
    /\ UNCHANGED <<external, process, downloaded, update, gate, pending,
                   restarting, timedOut>>

\* Mutant: _pending is set before the download.
CheckAnswered_SetsPending(c) ==
    /\ pc[c] = "querying"
    /\ IF released > current
       THEN /\ update' = [update EXCEPT ![c] = released]
            /\ pending' = released
            /\ state' = "downloading"
            /\ Goto(c, "downloading")
       ELSE /\ state' = "up-to-date"
            /\ Goto(c, "leaving")
            /\ UNCHANGED <<update, pending>>
    /\ UNCHANGED <<external, process, downloaded, gate, progress, error,
                   restarting, timedOut>>

\* CheckForUpdatesAsync returns, with null when there is nothing newer.
CheckAnswered(c) ==
    /\ pc[c] = "querying"
    /\ IF released > current
       THEN /\ update' = [update EXCEPT ![c] = released]
            /\ state' = "downloading"
            /\ Goto(c, "downloading")
       ELSE /\ state' = "up-to-date"
            /\ Goto(c, "leaving")
            /\ UNCHANGED update
    /\ UNCHANGED <<external, process, downloaded, gate, pending, progress, error,
                   restarting, timedOut>>

\* The progress callback of DownloadUpdatesAsync.
ReportProgress(c) ==
    /\ pc[c] = "downloading"
    /\ progress' = Halfway
    /\ UNCHANGED <<external, process, downloaded, pc, update, gate, pending, state,
                   error, restarting, timedOut>>

\* DownloadUpdatesAsync returns and _pending is set.
Downloaded(c) ==
    /\ pc[c] = "downloading"
    /\ downloaded' = downloaded \cup {update[c]}
    /\ pending' = update[c]
    /\ Goto(c, "storing")
    /\ UNCHANGED <<external, process, status, update, gate, restarting, timedOut>>

\* Another thread can see _pending before it sees the new state.
Announce(c) ==
    /\ pc[c] = "storing"
    /\ progress' = 100
    /\ state' = "ready"
    /\ Goto(c, "leaving")
    /\ UNCHANGED <<external, process, downloaded, update, gate, pending, error,
                   restarting, timedOut>>

\* Mutant: the exception is thrown again.
Fails_Rethrows(c) ==
    /\ pc[c] \in {"querying", "downloading"}
    /\ state' = "error"
    /\ error' = TRUE
    /\ Goto(c, "escaping")
    /\ UNCHANGED <<external, process, downloaded, update, gate, pending, progress,
                   restarting, timedOut>>

\* Any exception but a cancellation is caught and shown.
Fails(c) ==
    /\ pc[c] \in {"querying", "downloading"}
    /\ state' = "error"
    /\ error' = TRUE
    /\ Goto(c, "leaving")
    /\ UNCHANGED <<external, process, downloaded, update, gate, pending, progress,
                   restarting, timedOut>>

\* A timeout of the HTTP client is an OperationCanceledException as well: the
\* catch clause lets it through, and the state stays what it was.
TimesOut(c) ==
    /\ pc[c] \in {"querying", "downloading"}
    /\ Goto(c, "escaping")
    /\ timedOut' = (timedOut \/ c = Worker)
    /\ UNCHANGED <<external, process, status, downloaded, update, gate, pending,
                   restarting>>

\* Only the download takes the token: of the request whose client has gone, or
\* of the worker that is stopped.
Cancelled(c) ==
    /\ pc[c] = "downloading"
    /\ c = Worker => app = "stopping"
    /\ Goto(c, "escaping")
    /\ UNCHANGED <<external, process, status, downloaded, update, gate, pending,
                   restarting, timedOut>>

\* Mutant: released at the end of the try block, not in a finally.
LeaveGate_WhenDone(c) ==
    /\ pc[c] \in {"leaving", "escaping"}
    /\ gate' = IF pc[c] = "leaving" THEN NoCaller ELSE gate
    /\ Goto(c, IF pc[c] = "escaping" /\ c = Worker THEN "ended" ELSE "idle")
    /\ UNCHANGED <<external, process, status, downloaded, update, pending,
                   restarting, timedOut>>

\* The finally block.  An exception that escapes ends the request, and the
\* loop of the worker for good.
LeaveGate(c) ==
    /\ pc[c] \in {"leaving", "escaping"}
    /\ gate' = NoCaller
    /\ Goto(c, IF pc[c] = "escaping" /\ c = Worker THEN "ended" ELSE "idle")
    /\ UNCHANGED <<external, process, status, downloaded, update, pending,
                   restarting, timedOut>>

-----------------------------------------------------------------------------
(* Restarting, closing the window, and the process. *)

\* The process ends, and with it every call it was running.
ProcessEnds ==
    /\ app' = "off"
    /\ pc' = [c \in Callers |-> "idle"]
    /\ update' = [c \in Callers |-> NoVersion]
    /\ gate' = NoCaller
    /\ pending' = NoVersion
    /\ state' = InitialState(isInstalled)
    /\ progress' = 0
    /\ error' = FALSE
    /\ restarting' = "no"
    /\ timedOut' = FALSE

\* Mutant: accepted from the moment a newer version is known.
RequestRestart_WhileDownloading ==
    /\ app = "open"
    /\ state \in {"downloading", "ready"}
    /\ restarting' = "accepted"
    /\ UNCHANGED <<external, process, status, downloaded, pc, update, gate,
                   pending, timedOut>>

\* POST /api/app/update/apply: accepted when the status says ready.
RequestRestart ==
    /\ app = "open"
    /\ state = "ready"
    /\ restarting' = "accepted"
    /\ UNCHANGED <<external, process, status, downloaded, pc, update, gate,
                   pending, timedOut>>

\* The delayed task: false when nothing is pending, else the process exits.
ApplyAndRestart ==
    /\ app # "off"
    /\ restarting = "accepted"
    /\ IF pending = NoVersion
       THEN /\ restarting' = "no"
            /\ UNCHANGED <<process, status, pc, update, gate, pending, timedOut>>
       ELSE /\ installer' = pending
            /\ relaunch' = TRUE
            /\ ProcessEnds
            /\ UNCHANGED <<current, killed>>
    /\ UNCHANGED <<external, downloaded>>

\* Velopack throws; nobody awaits the task, and the app goes on as it was.
ApplyFails ==
    /\ app # "off"
    /\ restarting = "accepted"
    /\ pending # NoVersion
    /\ restarting' = "failed"
    /\ UNCHANGED <<external, process, status, downloaded, pc, update, gate,
                   pending, timedOut>>

\* The window is closed: ApplyOnExit, then StopAsync.
Close ==
    /\ app = "open"
    /\ app' = "stopping"
    /\ installer' = IF pending # NoVersion THEN pending ELSE installer
    /\ UNCHANGED <<external, status, current, relaunch, killed, downloaded, pc,
                   update, gate, pending, restarting, timedOut>>

\* StopAsync has waited for what is running, or its time is up.
Exit ==
    /\ app = "stopping"
    /\ ProcessEnds
    /\ UNCHANGED <<external, current, installer, relaunch, killed, downloaded>>

Kill ==
    /\ app # "off"
    /\ ProcessEnds
    /\ killed' = TRUE
    /\ UNCHANGED <<external, current, installer, relaunch, downloaded>>

\* Velopack's installer waits for the process to exit.
Install ==
    /\ app = "off"
    /\ installer # NoVersion
    /\ current' = installer
    /\ installer' = NoVersion
    /\ relaunch' = FALSE
    /\ app' = IF relaunch THEN "open" ELSE "off"
    /\ killed' = (killed /\ ~relaunch)
    /\ UNCHANGED <<external, status, downloaded, pc, update, gate, pending,
                   restarting, timedOut>>

\* The user opens the app again.
Start ==
    /\ app = "off"
    /\ installer = NoVersion
    /\ app' = "open"
    /\ killed' = FALSE
    /\ UNCHANGED <<external, status, current, installer, relaunch, downloaded, pc,
                   update, gate, pending, restarting, timedOut>>

\* A newer version is released.
Release ==
    /\ released < MaxVersion
    /\ released' = released + 1
    /\ UNCHANGED <<isInstalled, process, status, downloaded, pc, update, gate,
                   pending, restarting, timedOut>>

CheckAndDownload(c) ==
    \/ Call(c)
    \/ EnterGate(c)
    \/ StartCheck(c)
    \/ CheckAnswered(c)
    \/ ReportProgress(c)
    \/ Downloaded(c)
    \/ Announce(c)
    \/ Fails(c)
    \/ TimesOut(c)
    \/ Cancelled(c)
    \/ LeaveGate(c)

Next ==
    \/ \E c \in Callers : CheckAndDownload(c)
    \/ RequestRestart
    \/ ApplyAndRestart
    \/ ApplyFails
    \/ Close
    \/ Exit
    \/ Kill
    \/ Install
    \/ Start
    \/ Release

Spec == Init /\ [][Next]_vars

\* Code that runs goes on; the timer ticks; the delayed task and the installer
\* run; the feed does not refuse one caller for ever.  Nobody has to open or
\* close the app, to click, or to release anything.
Fairness ==
    /\ WF_vars(Call(Worker))
    /\ \A c \in Callers :
        /\ WF_vars(EnterGate(c))
        /\ WF_vars(StartCheck(c))
        /\ SF_vars(CheckAnswered(c))
        /\ SF_vars(Downloaded(c))
        /\ WF_vars(Announce(c))
        /\ WF_vars(LeaveGate(c))
    /\ WF_vars(ApplyAndRestart)
    /\ WF_vars(Exit)
    /\ WF_vars(Install)

FairSpec == Spec /\ Fairness

-----------------------------------------------------------------------------
(* Properties *)

\* _gate admits one check at a time, whoever asks, and whoever ends a check,
\* also by an exception, gives the gate back (DesktopUpdater.cs, 58 and 94).
OneCheckAtATime ==
    \A c \in Callers : gate = c <=> pc[c] \in Inside

\* What the dashboard is told agrees with what can be installed: "ready" only
\* when an update is pending, and no later check takes a finished download's
\* "ready" or 100 % away.  A development run stays "disabled" (lines 42-88).
StatusAgrees ==
    /\ state = "ready" => pending # NoVersion /\ progress = 100
    /\ pending # NoVersion /\ gate = NoCaller => state = "ready"
    /\ error => state = "error"
    /\ ~isInstalled => state = "disabled" /\ pending = NoVersion

\* What is pending, or given to the installer, is newer than the installed
\* version and was downloaded to the end, so that an update that replaces the
\* app is never older or half there (lines 80-84 and 98-117).
InstallsOnlyDownloads ==
    /\ pending # NoVersion => pending > current /\ pending \in downloaded
    /\ installer # NoVersion => installer > current /\ installer \in downloaded

\* A released version is eventually downloaded while the app stays open, after
\* failed checks and cancelled ones too (line 88: "report and retry later"),
\* unless a timeout has ended the worker's loop.
UpdateArrives ==
    isInstalled /\ released > current
        ~> (pending # NoVersion \/ app # "open" \/ timedOut)

\* "checking" and "downloading" do not stay for ever: a cancelled request leaves
\* them behind (lines 70, 80 and 86), and the next check replaces them.
StatusSettles ==
    state \in {"checking", "downloading"}
        ~> (state \notin {"checking", "downloading"} \/ app # "open" \/ timedOut)

\* A restart that was accepted (Program.cs, 60-71) ends with the process gone and
\* the update in the installer's hands, also when the window is closed in the
\* half second before the delayed task runs, unless Velopack fails.
AcceptedRestarts ==
    restarting = "accepted"
        ~> (\/ app = "off" /\ installer # NoVersion
            \/ killed \/ restarting = "failed")

=============================================================================
