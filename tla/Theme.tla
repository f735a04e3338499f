------------------------------- MODULE Theme -------------------------------
(***************************************************************************)
(* The colour theme (theme-provider.tsx).  Every tab keeps its theme as    *)
(* React state and as a class on the page; the key "d" toggles it and      *)
(* writes it to localStorage, from where the other tabs learn of it by     *)
(* storage events, each in its own time.  The theme "system" follows the   *)
(* colour scheme of the operating system.                                  *)
(***************************************************************************)
EXTENDS Naturals, Sequences

CONSTANTS
  Tabs,       \* tabs of the dashboard in one browser
  Default     \* defaultTheme: "dark" in main.tsx

Themes == {"dark", "light", "system"}

\* What localStorage can hold: nothing, a theme, or anything else.
Stored == Themes \union {"none", "other"}

ASSUME ThemeConstants == Default \in Themes

VARIABLES
  storage,    \* the item in localStorage
  theme,      \* [Tabs -> Themes]
  applied,    \* [Tabs -> {"dark", "light"}]: the class on the page
  inbox,      \* [Tabs -> sequences of storage events not yet delivered]
  system,     \* the colour scheme of the operating system
  crossed     \* history, [Tabs -> BOOLEAN]: the last key press in the tab came
              \* before an event that was on its way, and no event was sent since

themeVars == <<storage, theme, applied, inbox, system, crossed>>

\* isTheme, and what a tab makes of a stored value.
FromStorage(value) == IF value \in Themes THEN value ELSE Default

\* The class that applyTheme sets.
Resolved(value, scheme) == IF value = "system" THEN scheme ELSE value

\* The theme after a key press.
Toggled(value) ==
  CASE value = "dark"   -> "light"
    [] value = "light"  -> "dark"
    [] value = "system" -> IF system = "dark" THEN "light" ELSE "dark"

ThemeInit ==
  /\ storage \in Stored
  /\ system \in {"dark", "light"}
  /\ theme = [t \in Tabs |-> FromStorage(storage)]
  /\ applied = [t \in Tabs |-> Resolved(FromStorage(storage), system)]
  /\ inbox = [t \in Tabs |-> <<>>]
  /\ crossed = [t \in Tabs |-> FALSE]

\* setThemeState, and the effect that applies the theme.
Adopt(tab, value) ==
  /\ theme' = [theme EXCEPT ![tab] = value]
  /\ applied' = [applied EXCEPT ![tab] = Resolved(value, system)]

\* The tabs that hear of a new value of the item.
Told(writer, value) == {t \in Tabs : t # writer /\ value # storage}

\* Writing the item tells every other tab, if it changes anything.
Write(writer, value) ==
  /\ storage' = value
  /\ inbox' = [t \in Tabs |-> IF t \in Told(writer, value)
                              THEN Append(inbox[t], value) ELSE inbox[t]]

\* The keys that toggle the theme: "d" pressed once, alone, outside an input.
Presses == [key : {"d", "other"}, repeat : BOOLEAN, modifier : BOOLEAN, editable : BOOLEAN]

Toggles(press) ==
  press.key = "d" /\ ~press.repeat /\ ~press.modifier /\ ~press.editable

KeyDown_NotStored(tab, press) ==
  /\ Toggles(press)
  /\ Adopt(tab, Toggled(theme[tab]))
  /\ UNCHANGED <<storage, inbox, system, crossed>>

\* The tab toggles the theme it has, whatever the events still on their way to it
\* will tell it.
KeyDown(tab, press) ==
  /\ Toggles(press)
  /\ Adopt(tab, Toggled(theme[tab]))
  /\ Write(tab, Toggled(theme[tab]))
  /\ crossed' = [t \in Tabs |->
       IF t = tab THEN inbox[t] # <<>>
       ELSE crossed[t] /\ t \notin Told(tab, Toggled(theme[tab]))]
  /\ UNCHANGED system

StorageEvent(tab) ==
  /\ inbox[tab] # <<>>
  /\ Adopt(tab, FromStorage(Head(inbox[tab])))
  /\ inbox' = [inbox EXCEPT ![tab] = Tail(@)]
  /\ UNCHANGED <<storage, system, crossed>>

\* A tab is opened or loaded again: the initial state of its provider.
OpenTab(tab) ==
  /\ Adopt(tab, FromStorage(storage))
  /\ inbox' = [inbox EXCEPT ![tab] = <<>>]
  /\ crossed' = [crossed EXCEPT ![tab] = FALSE]
  /\ UNCHANGED <<storage, system>>

\* Only a tab whose theme is "system" listens to the colour scheme.
SchemeChanges ==
  /\ system' \in {"dark", "light"} \ {system}
  /\ applied' = [t \in Tabs |-> IF theme[t] = "system" THEN system' ELSE applied[t]]
  /\ UNCHANGED <<storage, theme, inbox, crossed>>

\* Another page of the same origin writes or removes the item.
OtherPageWrites(value) ==
  /\ value # storage
  /\ storage' = value
  /\ inbox' = [t \in Tabs |-> Append(inbox[t], value)]
  /\ crossed' = [t \in Tabs |-> FALSE]
  /\ UNCHANGED <<theme, applied, system>>

\* Bound: undelivered events of a tab.
MaxInbox == 2
Room == \A t \in Tabs : Len(inbox[t]) < MaxInbox

ThemeNext ==
  \/ \E tab \in Tabs, press \in Presses : Room /\ KeyDown(tab, press)
  \/ \E tab \in Tabs : StorageEvent(tab) \/ OpenTab(tab)
  \/ SchemeChanges
  \/ \E value \in Stored : Room /\ OtherPageWrites(value)

ThemeSpec == ThemeInit /\ [][ThemeNext]_themeVars

\* The type invariant of the theme.
ThemeTypeOK ==
  /\ storage \in Stored
  /\ theme \in [Tabs -> Themes]
  /\ applied \in [Tabs -> {"dark", "light"}]
  /\ inbox \in [Tabs -> Seq(Stored)]
  /\ system \in {"dark", "light"}
  /\ crossed \in [Tabs -> BOOLEAN]

\* A tab that has handled its events shows the stored theme, resolved against
\* the colour scheme of now: the tabs agree, and stay so over a reload.  The one
\* exception is a tab whose key press crossed an event on its way to it: it has
\* stored its own theme and then adopts the one the event brings, and disagrees
\* with the storage and with the other tabs until the next write of another page,
\* the next key press in it, or a reload.
TabsAgree ==
  \A t \in Tabs :
    inbox[t] = <<>> /\ ~crossed[t] =>
      applied[t] = Resolved(FromStorage(storage), system)
=============================================================================
