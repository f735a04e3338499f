---------------------------- MODULE MCWebPanels ----------------------------
(***************************************************************************)
(* The parts of the dashboard that share no state with each other, checked *)
(* side by side.  Every behaviour is one of a single part: the others keep *)
(* one of their initial states, so their numbers of states add up instead  *)
(* of multiplying.  For the charts a load brings any of many samples; the  *)
(* other parts of the views get by with three lists.                       *)
(***************************************************************************)
EXTENDS ImportDialog, LogChat, Theme, UpdatePanel, SettingsView, Views, TLC

CONSTANTS f1, f2, typed, l1, l2, l3, q0, q1

VARIABLE part   \* the part that is looked at

-----------------------------------------------------------------------------
(* Values for the constants.                                               *)

ImportLines == f1 :> {l1} @@ f2 :> {l2} @@ typed :> {l3}

StepTable == <<1, 3, 6, 12>>

Event(id, time, words) == [id |-> id, time |-> time, source |-> id % 2, words |-> words]

Results == <<{"fail"}, {"warn", "success"}, {"success"}, {"error", "warn"}, {}>>

StoredEvents == {Event(id, 7 * id, Results[id]) : id \in 1..5}

ShortAndLong == {{}, {e \in StoredEvents : e.id < 4}, StoredEvents}

\* Samples of up to three events, in the order of their times: spans from none
\* to more than MaxBuckets days, aligned and not.
LastTime == 40

Samples ==
  {{}} \union
  {{Event(1, t1, w1), Event(2, t2, w2), Event(3, t3, {})} :
     t1 \in 0..15, t2 \in {3, 9, 16, 17}, t3 \in 17..LastTime,
     w1 \in {{"fail", "warn"}, {"warn"}}, w2 \in {{"error"}, {"success"}}}

AllLists == ShortAndLong \union Samples

EventsWith(ids) ==
  [id : ids, time : 0..LastTime, source : {0, 1}, words : SUBSET Words]

MatchTable == q0 :> EventsWith(1..5) @@ q1 :> EventsWith(2..5)

-----------------------------------------------------------------------------

\* The parts that are not looked at have nothing to choose.
PartsInit ==
  /\ part \in {"import", "chat", "theme", "update", "settings", "views", "charts"}
  /\ ImportInit
  /\ ChatInit     /\ (part # "chat" => ~chatShown)
  /\ ThemeInit    /\ (part # "theme" => storage = "none" /\ system = "dark")
  /\ UpdateInit   /\ (part # "update" => updater = NoUpdater
                                       /\ requests = FirstPoll(CHOOSE r \in PollSlots : TRUE))
  /\ SettingsInit /\ (part # "settings" => configuration = "deterministic")
  /\ ViewsInit    /\ (part # "views" => Hash = "overview")

KeepImport == UNCHANGED importVars
KeepChat == UNCHANGED chatVars
KeepTheme == UNCHANGED themeVars
KeepUpdate == UNCHANGED updateVars
KeepSettings == UNCHANGED settingsVars
KeepViews == UNCHANGED viewVars

ImportPart ==
  /\ part = "import" /\ ImportNext
  /\ KeepChat /\ KeepTheme /\ KeepUpdate /\ KeepSettings /\ KeepViews /\ UNCHANGED part

ChatPart ==
  /\ part = "chat" /\ ChatNext
  /\ KeepImport /\ KeepTheme /\ KeepUpdate /\ KeepSettings /\ KeepViews /\ UNCHANGED part

ThemePart ==
  /\ part = "theme" /\ ThemeNext
  /\ KeepImport /\ KeepChat /\ KeepUpdate /\ KeepSettings /\ KeepViews /\ UNCHANGED part

UpdatePart ==
  /\ part = "update" /\ UpdateNext
  /\ KeepImport /\ KeepChat /\ KeepTheme /\ KeepSettings /\ KeepViews /\ UNCHANGED part

SettingsPart ==
  /\ part = "settings" /\ SettingsNext
  /\ KeepImport /\ KeepChat /\ KeepTheme /\ KeepUpdate /\ KeepViews /\ UNCHANGED part

ViewsPart ==
  /\ part = "views"
  /\ ViewsStep \/ \E events \in ShortAndLong : ListArrives(events)
  /\ KeepImport /\ KeepChat /\ KeepTheme /\ KeepUpdate /\ KeepSettings /\ UNCHANGED part

ChartsPart ==
  /\ part = "charts" /\ \E events \in Samples : ListArrives(events)
  /\ KeepImport /\ KeepChat /\ KeepTheme /\ KeepUpdate /\ KeepSettings /\ UNCHANGED part

PartsNext ==
  ImportPart \/ ChatPart \/ ThemePart \/ UpdatePart \/ SettingsPart \/ ViewsPart \/ ChartsPart

allVars == <<importVars, chatVars, themeVars, updateVars, settingsVars, viewVars, part>>

\* The fairness of UpdatePanel, for the behaviours that look at it.
PartsSpec ==
  /\ PartsInit /\ [][PartsNext]_allVars
  /\ WF_updateVars(UpdatePart /\ \E r \in PollSlots : Poll(r))
  /\ \A r \in Requests : WF_updateVars(UpdatePart /\ (Arrive(r) \/ Fail(r)))
  /\ SF_updateVars(UpdatePart /\ \E r \in PollSlots : Serve(r))
  /\ SF_updateVars(UpdatePart /\ \E r \in PollSlots : Arrive(r))
=============================================================================
