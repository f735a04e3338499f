---------------------------- MODULE SettingsView ----------------------------
(***************************************************************************)
(* The Settings view (settings-view.tsx): a snapshot of the configuration  *)
(* of the API and of its language model.  Every load is two requests; that *)
(* of the model may fail on its own, which counts as "no answer".  A view  *)
(* that is left and opened again starts anew, and the loads of the old one *)
(* are lost.  The update row inside it is in UpdatePanel.                  *)
(***************************************************************************)
EXTENDS Naturals, FiniteSets

CONSTANTS
  Unset,      \* null, in settings and llm
  Unanswered, \* a request in flight
  Refused     \* a request that failed

\* What /api/settings reports: whether a language model is configured.
Configurations == {"llm", "deterministic"}

\* What /api/llm/status reports: disabled, or the state of the provider.
LlmStates == {"disabled", "available", "missing", "unreachable"}

ASSUME SettingsConstants ==
  /\ Cardinality({Unset, Unanswered, Refused}) = 3
  /\ {Unset, Unanswered, Refused} \intersect (Configurations \union LlmStates) = {}

VARIABLES
  configuration,   \* of the API, which changes when it is started again
  provider,        \* the state of the language model
  settingsShown,   \* the view is mounted
  settings, llm,   \* the last answers
  settingsLoading,
  settingsError,
  settingsLoad,    \* the load in flight, or Unset
  since            \* history: the provider states since that load began

world == <<configuration, provider>>
view == <<settings, llm, settingsLoading, settingsError>>
settingsVars == <<world, view, settingsShown, settingsLoad, since>>

NewLoad == [api |-> Unanswered, llm |-> Unanswered]

SettingsInit ==
  /\ configuration \in Configurations
  /\ provider = IF configuration = "llm" THEN "available" ELSE "disabled"
  /\ settingsShown = FALSE
  /\ settings = Unset /\ llm = Unset
  /\ settingsLoading = TRUE /\ settingsError = FALSE
  /\ settingsLoad = Unset
  /\ since = {}

\* The view is mounted, and its effect starts a load.
OpenSettings ==
  /\ ~settingsShown
  /\ settingsShown' = TRUE
  /\ settings' = Unset /\ llm' = Unset
  /\ settingsLoading' = TRUE /\ settingsError' = FALSE
  /\ settingsLoad' = NewLoad /\ since' = {provider}
  /\ UNCHANGED world

\* Answers to the old view find it unmounted, and change nothing.
LeaveSettings ==
  /\ settingsShown
  /\ settingsShown' = FALSE
  /\ settingsLoad' = Unset
  /\ UNCHANGED <<world, view, since>>

\* "Refresh settings", disabled while loading.
RefreshSettings ==
  /\ settingsShown /\ ~settingsLoading
  /\ settingsLoading' = TRUE
  /\ settingsLoad' = NewLoad /\ since' = {provider}
  /\ UNCHANGED <<world, settings, llm, settingsError, settingsShown>>

AnswerSettings ==
  /\ settingsLoad # Unset /\ settingsLoad.api = Unanswered
  /\ \E answer \in {configuration, Refused} : settingsLoad' = [settingsLoad EXCEPT !.api = answer]
  /\ UNCHANGED <<world, view, settingsShown, since>>

\* getLlmStatus().catch(() => null)
AnswerLlm ==
  /\ settingsLoad # Unset /\ settingsLoad.llm = Unanswered
  /\ \E answer \in {provider, Unset} : settingsLoad' = [settingsLoad EXCEPT !.llm = answer]
  /\ UNCHANGED <<world, view, settingsShown, since>>

\* Both requests are answered.
ShowSettings_KeepsLlm ==
  /\ settingsLoad # Unset
  /\ settingsLoad.api \notin {Unanswered, Refused} /\ settingsLoad.llm # Unanswered
  /\ settings' = settingsLoad.api
  /\ llm' = IF settingsLoad.llm = Unset THEN llm ELSE settingsLoad.llm
  /\ settingsError' = FALSE /\ settingsLoading' = FALSE
  /\ settingsLoad' = Unset
  /\ UNCHANGED <<world, settingsShown, since>>

ShowSettings ==
  /\ settingsLoad # Unset
  /\ settingsLoad.api \notin {Unanswered, Refused} /\ settingsLoad.llm # Unanswered
  /\ settings' = settingsLoad.api /\ llm' = settingsLoad.llm
  /\ settingsError' = FALSE /\ settingsLoading' = FALSE
  /\ settingsLoad' = Unset
  /\ UNCHANGED <<world, settingsShown, since>>

\* Only the settings can fail the load; the values of before stay on screen.
SettingsFail ==
  /\ settingsLoad # Unset /\ settingsLoad.api = Refused
  /\ settingsError' = TRUE /\ settingsLoading' = FALSE
  /\ settingsLoad' = Unset
  /\ UNCHANGED <<world, settings, llm, settingsShown, since>>

\* The API is started again, with another configuration.
RestartApi ==
  /\ configuration' \in Configurations
  /\ provider' = IF configuration' = "llm" THEN "available" ELSE "disabled"
  /\ since' = since \union {provider'}
  /\ UNCHANGED <<view, settingsShown, settingsLoad>>

ProviderChanges ==
  /\ provider # "disabled"
  /\ provider' \in LlmStates \ {"disabled", provider}
  /\ since' = since \union {provider'}
  /\ UNCHANGED <<configuration, view, settingsShown, settingsLoad>>

SettingsNext ==
  \/ OpenSettings \/ LeaveSettings \/ RefreshSettings
  \/ AnswerSettings \/ AnswerLlm \/ ShowSettings \/ SettingsFail
  \/ RestartApi \/ ProviderChanges

SettingsSpec == SettingsInit /\ [][SettingsNext]_settingsVars

\* What the badge of the language model says.
LlmBadge ==
  IF settingsLoading THEN "Checking"
  ELSE CASE llm \in {Unset, "disabled"} -> "Not configured"
         [] llm = "available"   -> "Ready"
         [] llm = "missing"     -> "Model missing"
         [] llm = "unreachable" -> "Unreachable"

\* The badge never outlives its load: unless an error is shown, a state of the
\* language model on screen is one it has been in since the last load began,
\* over failures of either request, leaving the view and restarts of the API.
\* (It says "Not configured" also when only the request for its state failed.)
BadgeIsCurrent ==
  settingsShown /\ ~settingsError =>
    /\ LlmBadge = "Ready" => "available" \in since
    /\ LlmBadge = "Model missing" => "missing" \in since
    /\ LlmBadge = "Unreachable" => "unreachable" \in since
=============================================================================
