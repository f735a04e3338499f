------------------------- MODULE DesktopUpdater_proofs -------------------------
(***************************************************************************)
(* The safety properties of DesktopUpdater, for any set of requests and    *)
(* any number of releases.                                                 *)
(***************************************************************************)
EXTENDS DesktopUpdater, TLAPS

Fetching == {"querying", "downloading"}
HasUpdate == {"downloading", "storing"}

\* What a check knows at each of its steps: it has found nothing pending, its
\* update is newer than the app, and what it has stored is that update.
DuringCheck ==
    \A c \in Callers :
        /\ pc[c] \in Fetching => pending = NoVersion
        /\ pc[c] \in HasUpdate => update[c] > current
        /\ pc[c] = "storing" => pending = update[c]
        /\ pc[c] \in Fetching \cup HasUpdate => ~error
        /\ pc[c] \in Inside => isInstalled

\* Only a check that has not announced its update hides it.
PendingShown ==
    pending # NoVersion /\ (\A c \in Callers : pc[c] # "storing") => state = "ready"

\* Nothing runs, and nothing is remembered, between two processes.
NothingWhileOff ==
    app = "off" => /\ pending = NoVersion
                   /\ \A c \in Callers : pc[c] = "idle"

UpdaterInv ==
    /\ TypeOK
    /\ OneCheckAtATime
    /\ StatusAgrees
    /\ InstallsOnlyDownloads
    /\ DuringCheck
    /\ PendingShown
    /\ NothingWhileOff

\* A new process knows nothing and has done nothing.
LEMMA InitInv == Init => UpdaterInv
<1> SUFFICES ASSUME Init PROVE UpdaterInv
  OBVIOUS
<1> USE DEF Init
<1>a. state \in {"idle", "disabled"} /\ 0 \in Version
  BY VersionAssumption DEF InitialState, Version
<1>b. /\ pc \in [Callers -> Inside \cup {"idle", "entering", "ended"}]
      /\ update \in [Callers -> Version \cup {NoVersion}]
      /\ \A c \in Callers : pc[c] = "idle"
  OBVIOUS
<1>1. TypeOK
  BY <1>a, <1>b DEF TypeOK
<1>2. OneCheckAtATime
  BY NobodyAssumption DEF OneCheckAtATime, Inside
<1>3. StatusAgrees /\ InstallsOnlyDownloads
  BY DEF StatusAgrees, InstallsOnlyDownloads, InitialState
<1>4. DuringCheck /\ PendingShown /\ NothingWhileOff
  BY DEF DuringCheck, PendingShown, NothingWhileOff, Fetching, HasUpdate, Inside
<1>5. QED
  BY <1>1, <1>2, <1>3, <1>4 DEF UpdaterInv

\* The end of the process, however it comes, forgets all but what was downloaded
\* and what the installer has.
LEMMA ProcessEndsInv ==
  ASSUME UpdaterInv, ProcessEnds, UNCHANGED <<external, downloaded, current>>,
         installer' \in Version \cup {NoVersion},
         installer' # NoVersion => installer' > current /\ installer' \in downloaded,
         relaunch' \in BOOLEAN, killed' \in BOOLEAN
  PROVE  UpdaterInv'
<1> USE DEF external, ProcessEnds
<1>0. TypeOK /\ UNCHANGED <<isInstalled, released, downloaded, current>>
  BY DEF UpdaterInv
<1>1. /\ pc' \in [Callers -> Inside \cup {"idle", "entering", "ended"}]
      /\ update' \in [Callers -> Version \cup {NoVersion}]
      /\ \A c \in Callers : pc'[c] = "idle"
  OBVIOUS
<1>2. TypeOK'
  BY <1>0, <1>1 DEF TypeOK, InitialState
<1>3. OneCheckAtATime'
  BY <1>1, NobodyAssumption DEF OneCheckAtATime, Inside
<1>4. StatusAgrees'
  BY <1>0 DEF StatusAgrees, InitialState
<1>5. InstallsOnlyDownloads'
  BY <1>0 DEF InstallsOnlyDownloads
<1>6. DuringCheck'
  BY <1>1 DEF DuringCheck, Fetching, HasUpdate, Inside
<1>7. PendingShown' /\ NothingWhileOff'
  BY <1>1 DEF PendingShown, NothingWhileOff
<1>8. QED
  BY <1>2, <1>3, <1>4, <1>5, <1>6, <1>7 DEF UpdaterInv

\* Every step of a check keeps the invariant.
LEMMA CheckInv ==
  ASSUME UpdaterInv, NEW c \in Callers, CheckAndDownload(c)
  PROVE  UpdaterInv'
<1> USE NobodyAssumption DEF external, process, status, Goto, NoVersion
<1>0. /\ TypeOK /\ OneCheckAtATime /\ StatusAgrees /\ InstallsOnlyDownloads
      /\ DuringCheck /\ PendingShown /\ NothingWhileOff
  BY DEF UpdaterInv
<1>1. CASE Call(c)
  <2>1. TypeOK'
    BY <1>1, <1>0 DEF Call, TypeOK
  <2>2. OneCheckAtATime'
    BY <1>1, <1>0 DEF Call, OneCheckAtATime, Inside
  <2>3. StatusAgrees'
    BY <1>1, <1>0 DEF Call, StatusAgrees
  <2>4. InstallsOnlyDownloads'
    BY <1>1, <1>0 DEF Call, InstallsOnlyDownloads
  <2>5. DuringCheck'
    BY <1>1, <1>0 DEF Call, DuringCheck, Inside, Fetching, HasUpdate
  <2>6. PendingShown' /\ NothingWhileOff'
    BY <1>1, <1>0 DEF Call, PendingShown, NothingWhileOff
  <2>7. QED
    BY <2>1, <2>2, <2>3, <2>4, <2>5, <2>6 DEF UpdaterInv
<1>2. CASE EnterGate(c)
  <2>1. TypeOK'
    BY <1>2, <1>0 DEF EnterGate, TypeOK, Inside
  <2>2. OneCheckAtATime'
    BY <1>2, <1>0 DEF EnterGate, TypeOK, OneCheckAtATime, Inside
  <2>3. StatusAgrees'
    BY <1>2, <1>0 DEF EnterGate, StatusAgrees
  <2>4. InstallsOnlyDownloads'
    BY <1>2, <1>0 DEF EnterGate, InstallsOnlyDownloads
  <2>5. DuringCheck'
    BY <1>2, <1>0 DEF EnterGate, TypeOK, DuringCheck, Inside, Fetching,
       HasUpdate
  <2>6. PendingShown' /\ NothingWhileOff'
    BY <1>2, <1>0 DEF EnterGate, TypeOK, PendingShown, NothingWhileOff
  <2>7. QED
    BY <2>1, <2>2, <2>3, <2>4, <2>5, <2>6 DEF UpdaterInv
<1>3. CASE StartCheck(c)
  <2>1. TypeOK'
    <3>1. /\ state' \in {state, "checking"}
          /\ error' \in BOOLEAN
          /\ UNCHANGED progress
      BY <1>3, <1>0 DEF StartCheck, TypeOK
    <3>2. /\ pc' \in [Callers -> Inside \cup {"idle", "entering", "ended"}]
          /\ \A d \in Callers : pc'[d] \in HasUpdate => pc[d] \in HasUpdate
      BY <1>3, <1>0 DEF StartCheck, TypeOK, Inside, HasUpdate
    <3>3. QED
      BY <1>3, <1>0, <3>1, <3>2 DEF StartCheck, TypeOK, HasUpdate
  <2>2. OneCheckAtATime'
    BY <1>3, <1>0 DEF StartCheck, TypeOK, OneCheckAtATime, Inside
  <2>3. StatusAgrees'
    BY <1>3, <1>0 DEF StartCheck, TypeOK, StatusAgrees, DuringCheck
  <2>4. InstallsOnlyDownloads'
    BY <1>3, <1>0 DEF StartCheck, InstallsOnlyDownloads
  <2>5. DuringCheck'
    BY <1>3, <1>0 DEF StartCheck, TypeOK, DuringCheck, Fetching, HasUpdate
  <2>6. PendingShown' /\ NothingWhileOff'
    BY <1>3, <1>0 DEF StartCheck, TypeOK, PendingShown, NothingWhileOff
  <2>7. QED
    BY <2>1, <2>2, <2>3, <2>4, <2>5, <2>6 DEF UpdaterInv
<1>4. CASE CheckAnswered(c)
  <2>1. TypeOK'
    BY <1>4, <1>0 DEF CheckAnswered, TypeOK, Inside
  <2>2. OneCheckAtATime'
    BY <1>4, <1>0 DEF CheckAnswered, TypeOK, OneCheckAtATime, Inside
  <2>3. StatusAgrees'
    BY <1>4, <1>0 DEF CheckAnswered, TypeOK, StatusAgrees, DuringCheck, Fetching
  <2>4. InstallsOnlyDownloads'
    BY <1>4, <1>0 DEF CheckAnswered, InstallsOnlyDownloads
  <2>5. DuringCheck'
    BY <1>4, <1>0 DEF CheckAnswered, TypeOK, DuringCheck, Fetching, HasUpdate
  <2>6. PendingShown' /\ NothingWhileOff'
    BY <1>4, <1>0 DEF CheckAnswered, PendingShown, DuringCheck,
       NothingWhileOff, Fetching
  <2>7. QED
    BY <2>1, <2>2, <2>3, <2>4, <2>5, <2>6 DEF UpdaterInv
<1>5. CASE ReportProgress(c)
  <2>1. TypeOK'
    BY <1>5, <1>0 DEF ReportProgress, TypeOK
  <2>2. OneCheckAtATime'
    BY <1>5, <1>0 DEF ReportProgress, OneCheckAtATime
  <2>3. StatusAgrees'
    BY <1>5, <1>0 DEF ReportProgress, StatusAgrees, DuringCheck, Fetching
  <2>4. InstallsOnlyDownloads'
    BY <1>5, <1>0 DEF ReportProgress, InstallsOnlyDownloads
  <2>5. DuringCheck'
    BY <1>5, <1>0 DEF ReportProgress, DuringCheck
  <2>6. PendingShown' /\ NothingWhileOff'
    BY <1>5, <1>0 DEF ReportProgress, PendingShown, NothingWhileOff
  <2>7. QED
    BY <2>1, <2>2, <2>3, <2>4, <2>5, <2>6 DEF UpdaterInv
<1>6. CASE Downloaded(c)
  <2>1. TypeOK'
    BY <1>6, <1>0 DEF Downloaded, TypeOK, Inside
  <2>2. OneCheckAtATime'
    BY <1>6, <1>0 DEF Downloaded, OneCheckAtATime, Inside
  <2>3. StatusAgrees'
    BY <1>6, <1>0 DEF Downloaded, TypeOK, OneCheckAtATime, StatusAgrees,
       DuringCheck, Fetching
  <2>4. InstallsOnlyDownloads'
    BY <1>6, <1>0 DEF Downloaded, InstallsOnlyDownloads, DuringCheck, HasUpdate
  <2>5. DuringCheck'
    BY <1>6, <1>0 DEF Downloaded, TypeOK, OneCheckAtATime, DuringCheck,
       Fetching, HasUpdate
  <2>6. PendingShown' /\ NothingWhileOff'
    BY <1>6, <1>0 DEF Downloaded, TypeOK, PendingShown, NothingWhileOff
  <2>7. QED
    BY <2>1, <2>2, <2>3, <2>4, <2>5, <2>6 DEF UpdaterInv
<1>7. CASE Announce(c)
  <2>1. TypeOK'
    BY <1>7, <1>0 DEF Announce, TypeOK, Inside
  <2>2. OneCheckAtATime'
    BY <1>7, <1>0 DEF Announce, OneCheckAtATime, Inside
  <2>3. StatusAgrees'
    BY <1>7, <1>0 DEF Announce, TypeOK, StatusAgrees, DuringCheck, Version,
       HasUpdate
  <2>4. InstallsOnlyDownloads'
    BY <1>7, <1>0 DEF Announce, InstallsOnlyDownloads
  <2>5. DuringCheck'
    BY <1>7, <1>0 DEF Announce, TypeOK, DuringCheck, Fetching, HasUpdate
  <2>6. PendingShown' /\ NothingWhileOff'
    BY <1>7, <1>0 DEF Announce, PendingShown, NothingWhileOff
  <2>7. QED
    BY <2>1, <2>2, <2>3, <2>4, <2>5, <2>6 DEF UpdaterInv
<1>8. CASE Fails(c)
  <2>1. TypeOK'
    BY <1>8, <1>0 DEF Fails, TypeOK, Inside
  <2>2. OneCheckAtATime'
    BY <1>8, <1>0 DEF Fails, OneCheckAtATime, Inside
  <2>3. StatusAgrees'
    BY <1>8, <1>0 DEF Fails, TypeOK, OneCheckAtATime, StatusAgrees, DuringCheck
  <2>4. InstallsOnlyDownloads'
    BY <1>8, <1>0 DEF Fails, InstallsOnlyDownloads
  <2>5. DuringCheck'
    BY <1>8, <1>0 DEF Fails, TypeOK, OneCheckAtATime, DuringCheck,
       Fetching, HasUpdate
  <2>6. PendingShown' /\ NothingWhileOff'
    BY <1>8, <1>0 DEF Fails, PendingShown, DuringCheck, NothingWhileOff,
       Fetching
  <2>7. QED
    BY <2>1, <2>2, <2>3, <2>4, <2>5, <2>6 DEF UpdaterInv
<1>9. CASE TimesOut(c)
  <2>1. TypeOK'
    BY <1>9, <1>0 DEF TimesOut, TypeOK, Inside
  <2>2. OneCheckAtATime'
    BY <1>9, <1>0 DEF TimesOut, OneCheckAtATime, Inside
  <2>3. StatusAgrees'
    BY <1>9, <1>0 DEF TimesOut, StatusAgrees
  <2>4. InstallsOnlyDownloads'
    BY <1>9, <1>0 DEF TimesOut, InstallsOnlyDownloads
  <2>5. DuringCheck'
    BY <1>9, <1>0 DEF TimesOut, TypeOK, DuringCheck, Fetching, HasUpdate
  <2>6. PendingShown' /\ NothingWhileOff'
    BY <1>9, <1>0 DEF TimesOut, PendingShown, NothingWhileOff
  <2>7. QED
    BY <2>1, <2>2, <2>3, <2>4, <2>5, <2>6 DEF UpdaterInv
<1>10. CASE Cancelled(c)
  <2>1. TypeOK'
    BY <1>10, <1>0 DEF Cancelled, TypeOK, Inside
  <2>2. OneCheckAtATime'
    BY <1>10, <1>0 DEF Cancelled, OneCheckAtATime, Inside
  <2>3. StatusAgrees'
    BY <1>10, <1>0 DEF Cancelled, StatusAgrees
  <2>4. InstallsOnlyDownloads'
    BY <1>10, <1>0 DEF Cancelled, InstallsOnlyDownloads
  <2>5. DuringCheck'
    BY <1>10, <1>0 DEF Cancelled, TypeOK, DuringCheck, Fetching, HasUpdate
  <2>6. PendingShown' /\ NothingWhileOff'
    BY <1>10, <1>0 DEF Cancelled, PendingShown, NothingWhileOff
  <2>7. QED
    BY <2>1, <2>2, <2>3, <2>4, <2>5, <2>6 DEF UpdaterInv
<1>11. CASE LeaveGate(c)
  <2>1. TypeOK'
    BY <1>11, <1>0 DEF LeaveGate, TypeOK
  <2>2. OneCheckAtATime'
    BY <1>11, <1>0 DEF LeaveGate, TypeOK, OneCheckAtATime, Inside
  <2>3. StatusAgrees'
    BY <1>11, <1>0 DEF LeaveGate, TypeOK, OneCheckAtATime, StatusAgrees,
       PendingShown
  <2>4. InstallsOnlyDownloads'
    BY <1>11, <1>0 DEF LeaveGate, InstallsOnlyDownloads
  <2>5. DuringCheck'
    BY <1>11, <1>0 DEF LeaveGate, TypeOK, DuringCheck, Fetching, HasUpdate
  <2>6. PendingShown' /\ NothingWhileOff'
    BY <1>11, <1>0 DEF LeaveGate, PendingShown, NothingWhileOff
  <2>7. QED
    BY <2>1, <2>2, <2>3, <2>4, <2>5, <2>6 DEF UpdaterInv
<1>12. QED
  BY <1>1, <1>2, <1>3, <1>4, <1>5, <1>6, <1>7, <1>8, <1>9, <1>10, <1>11
  DEF CheckAndDownload

\* So does every other step.
LEMMA OtherInv ==
  ASSUME UpdaterInv,
         \/ RequestRestart \/ ApplyAndRestart \/ ApplyFails \/ Close \/ Exit \/ Kill
         \/ Install \/ Start \/ Release
  PROVE  UpdaterInv'
<1> USE DEF external, process, status, NoVersion
<1>0. /\ TypeOK /\ OneCheckAtATime /\ StatusAgrees /\ InstallsOnlyDownloads
      /\ DuringCheck /\ PendingShown /\ NothingWhileOff
  BY DEF UpdaterInv
<1>1. CASE RequestRestart
  BY <1>1, <1>0 DEF RequestRestart, UpdaterInv, TypeOK, OneCheckAtATime,
     StatusAgrees,
     InstallsOnlyDownloads, DuringCheck, PendingShown, NothingWhileOff
<1>2. CASE ApplyAndRestart
  <2>1. CASE pending = NoVersion
    <3>1. /\ restarting' \in {"no", "accepted", "failed"}
          /\ UNCHANGED <<external, process, status, downloaded, pc, update, gate,
                         pending, timedOut>>
      BY <1>2, <2>1 DEF ApplyAndRestart
    <3>2. TypeOK'
      BY <1>0, <3>1 DEF TypeOK
    <3>3. QED
      BY <1>0, <3>1, <3>2 DEF UpdaterInv, OneCheckAtATime, StatusAgrees,
         InstallsOnlyDownloads, DuringCheck, PendingShown, NothingWhileOff
  <2>2. CASE pending # NoVersion
    <3>1. ProcessEnds /\ installer' = pending /\ relaunch' = TRUE
          /\ UNCHANGED <<external, downloaded, current, killed>>
      BY <1>2, <2>2 DEF ApplyAndRestart
    <3>2. /\ installer' \in Version \cup {NoVersion}
          /\ installer' > current /\ installer' \in downloaded
      BY <3>1, <2>2, <1>0 DEF TypeOK, InstallsOnlyDownloads
    <3>3. relaunch' \in BOOLEAN /\ killed' \in BOOLEAN
      BY <3>1, <1>0 DEF TypeOK
    <3>4. QED
      BY <3>1, <3>2, <3>3, ProcessEndsInv
  <2>3. QED
    BY <2>1, <2>2
<1>3. CASE ApplyFails
  BY <1>3, <1>0 DEF ApplyFails, UpdaterInv, TypeOK, OneCheckAtATime, StatusAgrees,
     InstallsOnlyDownloads, DuringCheck, PendingShown, NothingWhileOff
<1>4. CASE Close
  BY <1>4, <1>0 DEF Close, UpdaterInv, TypeOK, OneCheckAtATime, StatusAgrees,
     InstallsOnlyDownloads, DuringCheck, PendingShown, NothingWhileOff
<1>5. CASE Exit
  BY <1>5, <1>0, ProcessEndsInv DEF Exit, TypeOK, InstallsOnlyDownloads
<1>6. CASE Kill
  BY <1>6, <1>0, ProcessEndsInv DEF Kill, TypeOK, InstallsOnlyDownloads
<1>7. CASE Install
  BY <1>7, <1>0 DEF Install, UpdaterInv, TypeOK, OneCheckAtATime, StatusAgrees,
     InstallsOnlyDownloads, DuringCheck, PendingShown, NothingWhileOff, Inside,
     Fetching, HasUpdate
<1>8. CASE Start
  BY <1>8, <1>0 DEF Start, UpdaterInv, TypeOK, OneCheckAtATime, StatusAgrees,
     InstallsOnlyDownloads, DuringCheck, PendingShown, NothingWhileOff
<1>9. CASE Release
  <2>1. released' \in Version
    BY <1>9, <1>0, VersionAssumption DEF Release, TypeOK, Version
  <2>2. QED
    BY <1>9, <1>0, <2>1 DEF Release, UpdaterInv, TypeOK, OneCheckAtATime,
       StatusAgrees,
       InstallsOnlyDownloads, DuringCheck, PendingShown, NothingWhileOff
<1>10. QED
  BY <1>1, <1>2, <1>3, <1>4, <1>5, <1>6, <1>7, <1>8, <1>9

\* The invariant holds in every state of every behaviour.
LEMMA Invariance == Spec => []UpdaterInv
<1>1. UpdaterInv /\ UNCHANGED vars => UpdaterInv'
  BY DEF vars, external, process, status, UpdaterInv, TypeOK, OneCheckAtATime,
     StatusAgrees, InstallsOnlyDownloads, DuringCheck, PendingShown, NothingWhileOff
<1>2. UpdaterInv /\ [Next]_vars => UpdaterInv'
  BY <1>1, CheckInv, OtherInv DEF Next
<1>3. QED
  BY InitInv, <1>2, PTL DEF Spec

\* Every variable keeps its type, and a download always knows what it loads.
THEOREM UpdaterTypes == Spec => []TypeOK
  BY Invariance, PTL DEF UpdaterInv

\* One check runs at a time, and the gate is free exactly when none does, for
\* any number of requests (DesktopUpdater.cs, lines 58 and 94).
THEOREM UpdaterGate == Spec => []OneCheckAtATime
  BY Invariance, PTL DEF UpdaterInv

\* The status never says "ready" without an update that is downloaded and
\* pending, nor hides one once the gate is free again (lines 42-88).
THEOREM StatusIsTrue == Spec => []StatusAgrees
  BY Invariance, PTL DEF UpdaterInv

\* What is installed is newer than what it replaces and was downloaded whole,
\* however checks, restarts, closes and kills interleave (lines 80-84, 98-117).
THEOREM UpdatesAreWhole == Spec => []InstallsOnlyDownloads
  BY Invariance, PTL DEF UpdaterInv

=============================================================================
