--------------------------- MODULE WebPanels_proofs --------------------------
(***************************************************************************)
(* Theorems about the parts of the dashboard that MCWebPanels checks side  *)
(* by side: the conversation, the theme, the import dialog, the Settings   *)
(* view, the views of the events and the charts, each for every value of   *)
(* its constants.  Every part has an invariant and a lemma for each of its *)
(* actions; no part's proof uses another's.                                *)
(***************************************************************************)
EXTENDS LogChat, Theme, ImportDialog, SettingsView, Views,
        NaturalLemmas, FiniteSetTheorems, SequenceTheorems, TLAPS

-----------------------------------------------------------------------------
(* The conversation (LogChat) *)

\* Identifiers in use are below the next one.
IdsBelowNext == \A i \in DOMAIN messages : messages[i].id < nextId

\* AnswersInPlace is not inductive alone: a new message gets nextId.
ChatInv == ChatTypeOK /\ AnswersInPlace /\ IdsBelowNext

\* A message that is appended keeps the others, their order and their
\* identifiers, and gets a larger one.
LEMMA SaidOnce ==
  ASSUME ChatTypeOK, IdsBelowNext,
         \A i, j \in DOMAIN messages : i < j => messages[i].id < messages[j].id,
         NEW role \in {"user", "assistant", "error"}, NEW about \in Text,
         Say(role, about)
  PROVE  /\ messages' \in Seq(Message) /\ nextId' \in Nat
         /\ Len(messages') = Len(messages) + 1
         /\ \A i \in DOMAIN messages : messages'[i] = messages[i]
         /\ messages'[Len(messages')].role = role
         /\ messages'[Len(messages')].about = about
         /\ \A i, j \in DOMAIN messages' : i < j => messages'[i].id < messages'[j].id
         /\ IdsBelowNext'
<1>1. PICK calls \in UpdaterCalls :
        /\ messages' = Append(messages, [id |-> nextId + (calls - 1), role |-> role,
                                         about |-> about])
        /\ nextId' = nextId + calls
  BY DEF Say
<1> DEFINE m == [id |-> nextId + (calls - 1), role |-> role, about |-> about]
<1>2. /\ messages \in Seq(Message) /\ nextId \in Nat
      /\ calls \in Nat /\ calls > 0
  BY ChatConstants DEF ChatTypeOK
<1>3. /\ m \in Message /\ m.id \in Nat /\ m.id >= nextId /\ m.id < nextId + calls
      /\ m.role = role /\ m.about = about
  BY <1>2 DEF Message
<1>4. messages' = Append(messages, m)
  BY <1>1
<1> HIDE DEF m
<1>5. /\ messages' \in Seq(Message)
      /\ Len(messages') = Len(messages) + 1
      /\ DOMAIN messages' = 1..(Len(messages) + 1)
      /\ DOMAIN messages = 1..Len(messages) /\ Len(messages) \in Nat
      /\ \A i \in DOMAIN messages : messages'[i] = messages[i]
      /\ messages'[Len(messages) + 1] = m
  BY <1>2, <1>3, <1>4
<1>6. \A i \in DOMAIN messages : messages[i].id \in Nat
  <2>1. \A i \in DOMAIN messages : messages[i] \in Message
    BY <1>2
  <2> QED BY <2>1 DEF Message
<1>7. ASSUME NEW i \in DOMAIN messages', NEW j \in DOMAIN messages', i < j
      PROVE  messages'[i].id < messages'[j].id
  <2>1. i \in DOMAIN messages
    BY <1>5, <1>7
  <2>2. CASE j \in DOMAIN messages
    BY <2>1, <2>2, <1>5, <1>7
  <2>3. CASE j = Len(messages) + 1
    <3>1. messages[i].id < nextId
      BY <2>1 DEF IdsBelowNext
    <3> QED BY <3>1, <2>1, <2>3, <1>2, <1>3, <1>5, <1>6
  <2> QED BY <2>2, <2>3, <1>5
<1>8. IdsBelowNext'
  <2> SUFFICES ASSUME NEW i \in DOMAIN messages' PROVE messages'[i].id < nextId'
    BY DEF IdsBelowNext
  <2>1. CASE i \in DOMAIN messages
    BY <2>1, <1>1, <1>2, <1>5, <1>6 DEF IdsBelowNext
  <2>2. CASE i = Len(messages) + 1
    BY <2>2, <1>1, <1>3, <1>5
  <2> QED BY <2>1, <2>2, <1>5
<1> QED BY <1>1, <1>2, <1>3, <1>5, <1>7, <1>8

LEMMA ChatInit_Inv == ChatInit => ChatInv
<1> SUFFICES ASSUME ChatInit PROVE ChatInv
  OBVIOUS
<1>1. messages = <<>> /\ messages \in Seq(Message) /\ Len(messages) = 0 /\ DOMAIN messages = {}
  BY DEF ChatInit
<1>2. ChatTypeOK
  BY <1>1 DEF ChatInit, ChatTypeOK
<1>3. AnswersInPlace /\ IdsBelowNext
  BY <1>1 DEF ChatInit, AnswersInPlace, IdsBelowNext
<1> QED BY <1>2, <1>3 DEF ChatInv

\* A question goes to an odd place and makes the conversation wait for it.
LEMMA Send_Inv ==
  ASSUME ChatInv, NEW text \in Text, Send(text)
  PROVE  ChatInv'
<1>1. /\ messages \in Seq(Message) /\ ~pending /\ Len(messages) % 2 = 0
      /\ text # NoText
      /\ DOMAIN messages = 1..Len(messages) /\ Len(messages) \in Nat
  BY DEF ChatInv, ChatTypeOK, AnswersInPlace, Send
<1>2. /\ question' = NoText /\ pending' = TRUE /\ asked' = text /\ chatShown' = chatShown
      /\ Say("user", text)
  BY DEF Send
<1>3. /\ messages' \in Seq(Message) /\ nextId' \in Nat
      /\ Len(messages') = Len(messages) + 1
      /\ \A i \in DOMAIN messages : messages'[i] = messages[i]
      /\ messages'[Len(messages')].role = "user"
      /\ messages'[Len(messages')].about = text
      /\ \A i, j \in DOMAIN messages' : i < j => messages'[i].id < messages'[j].id
      /\ IdsBelowNext'
  BY <1>2, SaidOnce DEF ChatInv, AnswersInPlace
<1>4. DOMAIN messages' = 1..(Len(messages) + 1)
  BY <1>3
<1>5. \A i \in DOMAIN messages' :
        /\ messages'[i].role = "user" <=> i % 2 = 1
        /\ messages'[i].role # "user" => messages'[i].about = messages'[i - 1].about
  <2> SUFFICES ASSUME NEW i \in DOMAIN messages'
               PROVE  /\ messages'[i].role = "user" <=> i % 2 = 1
                      /\ messages'[i].role # "user" =>
                           messages'[i].about = messages'[i - 1].about
    OBVIOUS
  <2>1. CASE i \in DOMAIN messages
    <3>1. /\ messages[i].role = "user" <=> i % 2 = 1
          /\ messages[i].role # "user" => messages[i].about = messages[i - 1].about
      BY <2>1 DEF ChatInv, AnswersInPlace
    <3>2. i % 2 # 1 => i - 1 \in DOMAIN messages
      BY <2>1, <1>1
    <3> QED BY <3>1, <3>2, <2>1, <1>3
  <2>2. CASE i = Len(messages) + 1
    <3>1. i % 2 = 1
      BY <2>2, <1>1
    <3> QED BY <3>1, <2>2, <1>3
  <2>3. i \in DOMAIN messages \/ i = Len(messages) + 1
    BY <1>1, <1>4
  <2> QED BY <2>1, <2>2, <2>3
<1>6. Len(messages') % 2 = 1
  BY <1>1, <1>3
<1>7. AnswersInPlace'
  BY <1>2, <1>3, <1>5, <1>6 DEF AnswersInPlace
<1>8. ChatTypeOK'
  BY <1>2, <1>3 DEF ChatInv, ChatTypeOK
<1> QED BY <1>3, <1>7, <1>8 DEF ChatInv

\* An answer goes to the place behind its question.
LEMMA Reply_Inv ==
  ASSUME ChatInv, NEW role \in {"assistant", "error"}, Reply(role)
  PROVE  ChatInv'
<1>1. /\ messages \in Seq(Message) /\ pending = TRUE
      /\ Len(messages) % 2 = 1 /\ Len(messages) \in Nat
      /\ DOMAIN messages = 1..Len(messages)
      /\ asked = messages[Len(messages)].about /\ asked \in Text
  BY DEF ChatInv, ChatTypeOK, AnswersInPlace, Reply
<1>2. /\ pending' = FALSE /\ asked' = NoText /\ question' = question
      /\ chatShown' = chatShown /\ Say(role, asked)
  BY DEF Reply
<1>3. /\ messages' \in Seq(Message) /\ nextId' \in Nat
      /\ Len(messages') = Len(messages) + 1
      /\ \A i \in DOMAIN messages : messages'[i] = messages[i]
      /\ messages'[Len(messages')].role = role
      /\ messages'[Len(messages')].about = asked
      /\ \A i, j \in DOMAIN messages' : i < j => messages'[i].id < messages'[j].id
      /\ IdsBelowNext'
  BY <1>1, <1>2, SaidOnce DEF ChatInv, AnswersInPlace
<1>4. DOMAIN messages' = 1..(Len(messages) + 1)
  BY <1>3
<1>5. \A i \in DOMAIN messages' :
        /\ messages'[i].role = "user" <=> i % 2 = 1
        /\ messages'[i].role # "user" => messages'[i].about = messages'[i - 1].about
  <2> SUFFICES ASSUME NEW i \in DOMAIN messages'
               PROVE  /\ messages'[i].role = "user" <=> i % 2 = 1
                      /\ messages'[i].role # "user" =>
                           messages'[i].about = messages'[i - 1].about
    OBVIOUS
  <2>1. CASE i \in DOMAIN messages
    <3>1. /\ messages[i].role = "user" <=> i % 2 = 1
          /\ messages[i].role # "user" => messages[i].about = messages[i - 1].about
      BY <2>1 DEF ChatInv, AnswersInPlace
    <3>2. i % 2 # 1 => i - 1 \in DOMAIN messages
      BY <2>1, <1>1
    <3> QED BY <3>1, <3>2, <2>1, <1>3
  <2>2. CASE i = Len(messages) + 1
    <3>1. i % 2 = 0 /\ i - 1 = Len(messages) /\ i - 1 \in DOMAIN messages
      BY <2>2, <1>1
    <3>2. messages'[i - 1] = messages[Len(messages)]
      BY <3>1, <1>3
    <3> QED BY <3>1, <3>2, <2>2, <1>1, <1>3
  <2>3. i \in DOMAIN messages \/ i = Len(messages) + 1
    BY <1>1, <1>4
  <2> QED BY <2>1, <2>2, <2>3
<1>6. Len(messages') % 2 = 0
  BY <1>1, <1>3
<1>7. AnswersInPlace'
  BY <1>2, <1>3, <1>5, <1>6 DEF AnswersInPlace
<1>8. ChatTypeOK'
  BY <1>2, <1>3 DEF ChatInv, ChatTypeOK
<1> QED BY <1>3, <1>7, <1>8 DEF ChatInv

LEMMA ChatNext_Inv == ChatInv /\ [ChatNext]_chatVars => ChatInv'
<1> SUFFICES ASSUME ChatInv, [ChatNext]_chatVars PROVE ChatInv'
  OBVIOUS
<1> USE DEF ChatInv
<1>1. ASSUME NEW text \in Questions \union {NoText}, TypeQuestion(text) PROVE ChatInv'
  BY <1>1 DEF TypeQuestion, ChatTypeOK, AnswersInPlace, IdsBelowNext
<1>2. CASE SubmitQuestion
  <2>1. question \in Text /\ Send(question)
    BY <1>2 DEF SubmitQuestion, Send, ChatTypeOK, Text
  <2> QED BY <2>1, Send_Inv
<1>3. ASSUME NEW text \in Suggestions, Suggest(text) PROVE ChatInv'
  BY <1>3, Send_Inv DEF Suggest, Text
<1>4. ASSUME NEW role \in {"assistant", "error"}, Reply(role) PROVE ChatInv'
  BY <1>4, Reply_Inv
<1>5. CASE SwitchView
  BY <1>5 DEF SwitchView, ChatTypeOK, AnswersInPlace, IdsBelowNext
<1>6. CASE UNCHANGED chatVars
  BY <1>6 DEF chatVars, ChatTypeOK, AnswersInPlace, IdsBelowNext
<1> QED BY <1>1, <1>2, <1>3, <1>4, <1>5, <1>6 DEF ChatNext

\* The conversation of log-chat.tsx: every variable keeps its type, every
\* question is followed by its own answer or error, identifiers never repeat,
\* and the input is blocked exactly while an answer is due.
THEOREM AnswersAreInPlace == ChatSpec => [](ChatTypeOK /\ AnswersInPlace)
<1>1. ChatInv => ChatTypeOK /\ AnswersInPlace
  BY DEF ChatInv
<1> QED BY <1>1, ChatInit_Inv, ChatNext_Inv, PTL DEF ChatSpec

-----------------------------------------------------------------------------
(* The theme (Theme) *)

\* What a tab will have made of its storage events is what is stored: the last
\* event in an inbox stands for the stored value, and with an empty inbox the
\* theme itself does.  A press that crossed an event breaks both, and the next
\* event mends them.
Informed(t) ==
  ~crossed[t] =>
    IF inbox[t] = <<>> THEN theme[t] = FromStorage(storage)
    ELSE FromStorage(inbox[t][Len(inbox[t])]) = FromStorage(storage)

\* The class on the page follows the theme and the colour scheme.
Applied(t) == applied[t] = Resolved(theme[t], system)

\* TabsAgree says nothing of a tab with events to come; this does.
ThemeInv == ThemeTypeOK /\ \A t \in Tabs : Informed(t) /\ Applied(t)

LEMMA LastOfAppend ==
  ASSUME NEW S, NEW s \in Seq(S), NEW v \in S
  PROVE  Append(s, v) # <<>> /\ Append(s, v)[Len(Append(s, v))] = v
<1>1. Len(s) \in Nat /\ Len(Append(s, v)) = Len(s) + 1 /\ Append(s, v)[Len(s) + 1] = v
  OBVIOUS
<1>2. Append(s, v) # <<>>
  BY <1>1
<1> QED BY <1>1, <1>2

LEMMA LastOfTail ==
  ASSUME NEW S, NEW s \in Seq(S), Len(s) > 1
  PROVE  Tail(s) # <<>> /\ Tail(s)[Len(Tail(s))] = s[Len(s)]
<1>1. /\ Len(s) \in Nat /\ s # <<>> /\ Len(Tail(s)) = Len(s) - 1
      /\ \A i \in 1..Len(s) - 1 : Tail(s)[i] = s[i + 1]
  OBVIOUS
<1>2. Len(s) - 1 \in 1..Len(s) - 1 /\ (Len(s) - 1) + 1 = Len(s)
  BY <1>1
<1>3. Tail(s) # <<>>
  <2>1. Len(Tail(s)) # 0 /\ Len(<<>>) = 0
    BY <1>1
  <2> SUFFICES ASSUME Tail(s) = <<>> PROVE FALSE
    OBVIOUS
  <2> QED BY <2>1
<1> QED BY <1>1, <1>2, <1>3

LEMMA StoredThemes ==
  /\ \A value : FromStorage(value) \in Themes
  /\ \A value \in Themes, scheme \in {"dark", "light"} :
       Resolved(value, scheme) \in {"dark", "light"}
  /\ \A value \in Themes : value \in Stored /\ FromStorage(value) = value
  /\ system \in {"dark", "light"} => \A value \in Themes : Toggled(value) \in Themes
BY ThemeConstants DEF FromStorage, Resolved, Toggled, Themes, Stored

LEMMA ThemeInit_Inv == ThemeInit => ThemeInv
<1> SUFFICES ASSUME ThemeInit PROVE ThemeInv
  OBVIOUS
<1>1. ThemeTypeOK
  BY StoredThemes DEF ThemeInit, ThemeTypeOK
<1>2. \A t \in Tabs : Informed(t) /\ Applied(t)
  BY DEF ThemeInit, Informed, Applied
<1> QED BY <1>1, <1>2 DEF ThemeInv

\* A key press stores the new theme and tells every other tab.
LEMMA KeyDown_Inv ==
  ASSUME ThemeInv, NEW tab \in Tabs, NEW press \in Presses, KeyDown(tab, press)
  PROVE  ThemeInv'
<1> DEFINE v == Toggled(theme[tab])
<1>1. /\ system' = system /\ v \in Themes /\ v \in Stored
      /\ FromStorage(v) = v
      /\ theme' = [theme EXCEPT ![tab] = v]
      /\ applied' = [applied EXCEPT ![tab] = Resolved(v, system)]
      /\ storage' = v
      /\ inbox' = [t \in Tabs |-> IF t \in Told(tab, v)
                                  THEN Append(inbox[t], v) ELSE inbox[t]]
      /\ crossed' = [t \in Tabs |-> IF t = tab THEN inbox[t] # <<>>
                                    ELSE crossed[t] /\ t \notin Told(tab, v)]
  BY StoredThemes DEF KeyDown, Adopt, Write, ThemeInv, ThemeTypeOK
<1> HIDE DEF v
<1>2. /\ theme \in [Tabs -> Themes] /\ applied \in [Tabs -> {"dark", "light"}]
      /\ inbox \in [Tabs -> Seq(Stored)] /\ system \in {"dark", "light"}
      /\ crossed \in [Tabs -> BOOLEAN]
      /\ Told(tab, v) = {t \in Tabs : t # tab /\ v # storage}
  BY DEF ThemeInv, ThemeTypeOK, Told
<1>3. \A t \in Tabs : inbox'[t] \in Seq(Stored)
  BY <1>1, <1>2
<1>4. ThemeTypeOK'
  <2>1. Resolved(v, system) \in {"dark", "light"}
    BY <1>1, <1>2, StoredThemes
  <2>2. crossed' \in [Tabs -> BOOLEAN]
    BY <1>1, <1>2
  <2> QED BY <1>1, <1>2, <1>3, <2>1, <2>2 DEF ThemeTypeOK
<1>5. ASSUME NEW t \in Tabs PROVE Applied(t)'
  <2>1. Applied(t)
    BY DEF ThemeInv
  <2> QED BY <1>1, <1>2, <2>1 DEF Applied
<1>6. ASSUME NEW t \in Tabs PROVE Informed(t)'
  <2>0. Informed(t)
    BY DEF ThemeInv
  <2>1. CASE t = tab
    <3>1. inbox'[t] = inbox[t] /\ theme'[t] = v /\ crossed'[t] = (inbox[t] # <<>>)
      BY <1>1, <1>2, <2>1
    <3> QED BY <3>1, <1>1 DEF Informed
  <2>2. CASE t # tab /\ v = storage
    <3>1. inbox'[t] = inbox[t] /\ theme'[t] = theme[t] /\ storage' = storage
          /\ crossed'[t] = crossed[t]
      BY <1>1, <1>2, <2>2
    <3> QED BY <3>1, <2>0 DEF Informed
  <2>3. CASE t # tab /\ v # storage
    <3>1. inbox'[t] = Append(inbox[t], v) /\ inbox[t] \in Seq(Stored)
      BY <1>1, <1>2, <2>3
    <3>2. inbox'[t] # <<>> /\ inbox'[t][Len(inbox'[t])] = v
      BY <3>1, <1>1, LastOfAppend
    <3> QED BY <3>2, <1>1 DEF Informed
  <2> QED BY <2>1, <2>2, <2>3
<1> QED BY <1>4, <1>5, <1>6 DEF ThemeInv

\* The last event of an inbox brings its tab up to date.
LEMMA StorageEvent_Inv ==
  ASSUME ThemeInv, NEW tab \in Tabs, StorageEvent(tab)
  PROVE  ThemeInv'
<1> DEFINE v == FromStorage(Head(inbox[tab]))
<1>1. /\ inbox[tab] # <<>> /\ system' = system /\ storage' = storage /\ v \in Themes
      /\ theme' = [theme EXCEPT ![tab] = v]
      /\ applied' = [applied EXCEPT ![tab] = Resolved(v, system)]
      /\ inbox' = [inbox EXCEPT ![tab] = Tail(@)]
      /\ crossed' = crossed
  BY StoredThemes DEF StorageEvent, Adopt
<1>2. /\ theme \in [Tabs -> Themes] /\ applied \in [Tabs -> {"dark", "light"}]
      /\ inbox \in [Tabs -> Seq(Stored)] /\ system \in {"dark", "light"}
      /\ storage \in Stored /\ crossed \in [Tabs -> BOOLEAN]
  BY DEF ThemeInv, ThemeTypeOK
<1>3. /\ inbox[tab] \in Seq(Stored) /\ Len(inbox[tab]) \in Nat \ {0}
      /\ Tail(inbox[tab]) \in Seq(Stored)
      /\ Len(Tail(inbox[tab])) = Len(inbox[tab]) - 1
  BY <1>1, <1>2
<1>4. ThemeTypeOK'
  <2>1. Resolved(v, system) \in {"dark", "light"}
    BY <1>1, <1>2, StoredThemes
  <2> QED BY <1>1, <1>2, <1>3, <2>1 DEF ThemeTypeOK
<1>5. ASSUME NEW t \in Tabs PROVE Applied(t)'
  <2>1. Applied(t)
    BY DEF ThemeInv
  <2> QED BY <1>1, <1>2, <2>1 DEF Applied
<1>6. ~crossed[tab] => FromStorage(inbox[tab][Len(inbox[tab])]) = FromStorage(storage)
  BY <1>1 DEF ThemeInv, Informed
<1>7. ASSUME NEW t \in Tabs PROVE Informed(t)'
  <2>1. CASE t # tab
    <3>1. inbox'[t] = inbox[t] /\ theme'[t] = theme[t] /\ Informed(t)
      BY <1>1, <1>2, <2>1 DEF ThemeInv
    <3> QED BY <3>1, <1>1 DEF Informed
  <2>2. CASE t = tab /\ Len(inbox[tab]) = 1
    <3>1. inbox'[t] = <<>> /\ theme'[t] = v
      BY <1>1, <1>2, <1>3, <2>2
    <3>2. ~crossed[tab] => v = FromStorage(storage)
      BY <1>3, <1>6, <2>2
    <3> QED BY <2>2, <3>1, <3>2, <1>1 DEF Informed
  <2>3. CASE t = tab /\ Len(inbox[tab]) # 1
    <3>1. inbox'[t] = Tail(inbox[tab])
      BY <1>1, <1>2, <2>3
    <3>2. /\ Tail(inbox[tab]) # <<>>
          /\ Tail(inbox[tab])[Len(Tail(inbox[tab]))] = inbox[tab][Len(inbox[tab])]
      <4> DEFINE n == Len(inbox[tab])
      <4>0. n \in Nat \ {0} /\ n # 1
        BY <1>3, <2>3
      <4> HIDE DEF n
      <4>2. n > 1
        BY <4>0
      <4>1. Len(inbox[tab]) > 1
        BY <4>2 DEF n
      <4> QED BY <4>1, <1>3, LastOfTail
    <3> QED BY <3>1, <3>2, <2>3, <1>1, <1>6 DEF Informed
  <2> QED BY <2>1, <2>2, <2>3
<1> QED BY <1>4, <1>5, <1>7 DEF ThemeInv

LEMMA OpenTab_Inv ==
  ASSUME ThemeInv, NEW tab \in Tabs, OpenTab(tab)
  PROVE  ThemeInv'
<1> DEFINE v == FromStorage(storage)
<1>1. /\ system' = system /\ storage' = storage /\ v \in Themes
      /\ theme' = [theme EXCEPT ![tab] = v]
      /\ applied' = [applied EXCEPT ![tab] = Resolved(v, system)]
      /\ inbox' = [inbox EXCEPT ![tab] = <<>>]
      /\ crossed' = [crossed EXCEPT ![tab] = FALSE]
  BY StoredThemes DEF OpenTab, Adopt
<1>2. /\ theme \in [Tabs -> Themes] /\ applied \in [Tabs -> {"dark", "light"}]
      /\ inbox \in [Tabs -> Seq(Stored)] /\ system \in {"dark", "light"}
      /\ storage \in Stored /\ crossed \in [Tabs -> BOOLEAN]
  BY DEF ThemeInv, ThemeTypeOK
<1>3. ThemeTypeOK'
  <2>1. Resolved(v, system) \in {"dark", "light"} /\ <<>> \in Seq(Stored)
    BY <1>1, <1>2, StoredThemes
  <2> QED BY <1>1, <1>2, <2>1 DEF ThemeTypeOK
<1>4. ASSUME NEW t \in Tabs PROVE Applied(t)' /\ Informed(t)'
  <2>1. Applied(t) /\ Informed(t)
    BY DEF ThemeInv
  <2> QED BY <1>1, <1>2, <2>1 DEF Applied, Informed
<1> QED BY <1>3, <1>4 DEF ThemeInv

LEMMA SchemeChanges_Inv ==
  ASSUME ThemeInv, SchemeChanges
  PROVE  ThemeInv'
<1>1. /\ system' \in {"dark", "light"} /\ storage' = storage /\ theme' = theme
      /\ inbox' = inbox /\ crossed' = crossed
      /\ applied' = [t \in Tabs |-> IF theme[t] = "system" THEN system' ELSE applied[t]]
  BY DEF SchemeChanges
<1>2. ThemeTypeOK'
  BY <1>1 DEF ThemeInv, ThemeTypeOK
<1>3. ASSUME NEW t \in Tabs PROVE Applied(t)' /\ Informed(t)'
  <2>1. Applied(t) /\ Informed(t)
    BY DEF ThemeInv
  <2> QED BY <1>1, <2>1 DEF Applied, Informed, Resolved
<1> QED BY <1>2, <1>3 DEF ThemeInv

LEMMA OtherPageWrites_Inv ==
  ASSUME ThemeInv, NEW value \in Stored, OtherPageWrites(value)
  PROVE  ThemeInv'
<1>1. /\ storage' = value /\ inbox' = [t \in Tabs |-> Append(inbox[t], value)]
      /\ theme' = theme /\ applied' = applied /\ system' = system
      /\ crossed' = [t \in Tabs |-> FALSE]
  BY DEF OtherPageWrites
<1>2. ASSUME NEW t \in Tabs
      PROVE  /\ inbox[t] \in Seq(Stored) /\ inbox'[t] \in Seq(Stored)
             /\ inbox'[t] # <<>> /\ inbox'[t][Len(inbox'[t])] = value
  <2>1. inbox[t] \in Seq(Stored) /\ inbox'[t] = Append(inbox[t], value)
    BY <1>1 DEF ThemeInv, ThemeTypeOK
  <2>2. Append(inbox[t], value) \in Seq(Stored)
    BY <2>1
  <2> QED BY <2>1, <2>2, LastOfAppend
<1>3. ThemeTypeOK'
  BY <1>1, <1>2 DEF ThemeInv, ThemeTypeOK
<1>4. ASSUME NEW t \in Tabs PROVE Applied(t)' /\ Informed(t)'
  <2>1. Applied(t)
    BY DEF ThemeInv
  <2> QED BY <1>1, <1>2, <2>1 DEF Applied, Informed
<1> QED BY <1>3, <1>4 DEF ThemeInv

LEMMA ThemeNext_Inv == ThemeInv /\ [ThemeNext]_themeVars => ThemeInv'
<1> SUFFICES ASSUME ThemeInv, [ThemeNext]_themeVars PROVE ThemeInv'
  OBVIOUS
<1>1. ASSUME NEW tab \in Tabs, NEW press \in Presses, KeyDown(tab, press) PROVE ThemeInv'
  BY <1>1, KeyDown_Inv
<1>2. ASSUME NEW tab \in Tabs, StorageEvent(tab) PROVE ThemeInv'
  BY <1>2, StorageEvent_Inv
<1>3. ASSUME NEW tab \in Tabs, OpenTab(tab) PROVE ThemeInv'
  BY <1>3, OpenTab_Inv
<1>4. CASE SchemeChanges
  BY <1>4, SchemeChanges_Inv
<1>5. ASSUME NEW value \in Stored, OtherPageWrites(value) PROVE ThemeInv'
  BY <1>5, OtherPageWrites_Inv
<1>6. CASE UNCHANGED themeVars
  BY <1>6 DEF themeVars, ThemeInv, ThemeTypeOK, Informed, Applied
<1> QED BY <1>1, <1>2, <1>3, <1>4, <1>5, <1>6 DEF ThemeNext

\* The tabs of theme-provider.tsx: in a tab that has handled its storage events
\* the page shows the stored theme, whatever keys are pressed in which tabs and
\* however late the events arrive, unless its own last press came before one of them.
THEOREM TabsEndUpEqual == ThemeSpec => []TabsAgree
<1>1. ThemeInv => TabsAgree
  <2> SUFFICES ASSUME ThemeInv, NEW t \in Tabs, inbox[t] = <<>>, ~crossed[t]
               PROVE  applied[t] = Resolved(FromStorage(storage), system)
    BY DEF TabsAgree
  <2> QED BY DEF ThemeInv, Informed, Applied
<1> QED BY <1>1, ThemeInit_Inv, ThemeNext_Inv, PTL DEF ThemeSpec

-----------------------------------------------------------------------------
(* The import dialog (ImportDialog) *)

\* Reading a file ends: the others stay, in their order.
LEMMA OneReadLess ==
  ASSUME NEW S, NEW s \in Seq(S), NEW i \in DOMAIN s
  PROVE  /\ RemoveAt(s, i) \in Seq(S)
         /\ Len(RemoveAt(s, i)) = Len(s) - 1
         /\ i = 1 /\ Len(s) > 1 => RemoveAt(s, i)[Len(s) - 1] = s[Len(s)]
<1>1. Len(s) \in Nat /\ i \in 1..Len(s)
  OBVIOUS
<1>2. /\ SubSeq(s, 1, i - 1) \in Seq(S) /\ Len(SubSeq(s, 1, i - 1)) = i - 1
      /\ SubSeq(s, i + 1, Len(s)) \in Seq(S) /\ Len(SubSeq(s, i + 1, Len(s))) = Len(s) - i
  BY <1>1
<1>3. RemoveAt(s, i) \in Seq(S) /\ Len(RemoveAt(s, i)) = Len(s) - 1
  <2> DEFINE left == SubSeq(s, 1, i - 1)
             right == SubSeq(s, i + 1, Len(s))
  <2>1. left \in Seq(S) /\ Len(left) = i - 1 /\ right \in Seq(S) /\ Len(right) = Len(s) - i
    BY <1>2
  <2>2. RemoveAt(s, i) = left \o right
    BY DEF RemoveAt
  <2> HIDE DEF left, right
  <2>3. left \o right \in Seq(S) /\ Len(left \o right) = Len(left) + Len(right)
    BY <2>1, ConcatProperties
  <2> QED BY <1>1, <2>1, <2>2, <2>3
<1>4. ASSUME i = 1, Len(s) > 1
      PROVE  RemoveAt(s, i)[Len(s) - 1] = s[Len(s)]
  <2>1. SubSeq(s, 2, Len(s))[Len(s) - 1] = s[Len(s)]
    BY <1>1, <1>4
  <2>2. RemoveAt(s, 1) = <<>> \o SubSeq(s, 2, Len(s))
    BY <1>1 DEF RemoveAt
  <2>3. SubSeq(s, 2, Len(s)) \in Seq(S)
    BY <1>2, <1>4
  <2> QED BY <1>4, <2>1, <2>2, <2>3
<1> QED BY <1>3, <1>4

ImportTypeOK ==
  /\ importOpen \in BOOLEAN /\ excused \in BOOLEAN
  /\ content \in Texts \union {Blank}
  /\ reads \in Seq(Files)
  /\ phase \in {"idle", "sending", "refreshing"}

\* The name in the dialog is that of the file that was chosen last, which is the
\* one whose text is there when no file is being read.
NameFitsText ==
  IF reads = <<>> THEN content \in Files => source = content
  ELSE source = reads[Len(reads)]

\* What is being sent has a text and, if that is a file's, the file's name.
SentFits == phase = "sending" /\ sent.text \in Files => sent.name = sent.text

OwnNames ==
  \A f \in Files : \A l \in LinesOf[f] : \A n : <<n, l>> \in stored => n = f

\* Until the user edits the name, or a read fails or ends out of its order.
Attributed == ~excused => NameFitsText /\ SentFits /\ OwnNames

\* The lines of an import that the API has dealt with are stored.
Progress ==
  phase = "sending" =>
    /\ sent.text \in Texts
    /\ unsaved \subseteq LinesOf[sent.text]
    /\ \A l \in LinesOf[sent.text] \ Malformed : l \in unsaved \/ <<sent.name, l>> \in stored

ImportInv == ImportTypeOK /\ Attributed /\ Progress

LEMMA ImportInit_Inv == ImportInit => ImportInv
<1> SUFFICES ASSUME ImportInit PROVE ImportInv
  OBVIOUS
<1>1. ImportTypeOK
  <2>1. <<>> \in Seq(Files)
    OBVIOUS
  <2> QED BY <2>1 DEF ImportInit, ImportTypeOK
<1>2. Attributed
  BY ImportConstants DEF ImportInit, Attributed, NameFitsText, SentFits, OwnNames, Texts
<1>3. Progress
  BY DEF ImportInit, Progress
<1> QED BY <1>1, <1>2, <1>3 DEF ImportInv

\* A file's name comes with it, and with the first of those being read its text.
LEMMA Reading_Inv ==
  ASSUME ImportInv,
         \/ \E f \in Files : ChooseFile(f)
         \/ \E i \in 1..MaxReads : ReadEnds(i) \/ ReadFails(i)
  PROVE  ImportInv'
<1> USE DEF ImportInv
<1>1. UNCHANGED <<phase, sent, unsaved, stored>> /\ importOpen' = importOpen
  BY DEF ChooseFile, ReadEnds, ReadFails
<1>2. Progress'
  BY <1>1 DEF Progress
<1>3. (SentFits' <=> SentFits) /\ (OwnNames' <=> OwnNames)
  BY <1>1 DEF SentFits, OwnNames
<1>4. reads \in Seq(Files) /\ excused \in BOOLEAN /\ Len(reads) \in Nat
  BY DEF ImportTypeOK
<1>5. ASSUME NEW f \in Files, ChooseFile(f)
      PROVE  ImportTypeOK' /\ (~excused' => NameFitsText' /\ ~excused)
  <2>1. reads' = Append(reads, f) /\ source' = f /\ content' = content /\ excused' = excused
    BY <1>5 DEF ChooseFile
  <2>2. /\ reads' \in Seq(Files) /\ Len(reads') = Len(reads) + 1
        /\ reads'[Len(reads) + 1] = f /\ reads' # <<>>
    BY <1>4, <2>1
  <2>3. ImportTypeOK'
    BY <1>1, <2>1, <2>2 DEF ImportTypeOK
  <2> QED BY <2>1, <2>2, <2>3 DEF NameFitsText
<1>6. ASSUME NEW i \in 1..MaxReads, ReadEnds(i)
      PROVE  ImportTypeOK' /\ (~excused' => NameFitsText' /\ ~excused)
  <2>1. /\ i \in DOMAIN reads /\ reads' = RemoveAt(reads, i)
        /\ content' = reads[i] /\ source' = source
        /\ excused' = (excused \/ i # 1)
    BY <1>6 DEF ReadEnds
  <2>2. /\ reads' \in Seq(Files) /\ Len(reads') = Len(reads) - 1
        /\ i = 1 /\ Len(reads) > 1 => reads'[Len(reads) - 1] = reads[Len(reads)]
        /\ reads[i] \in Files /\ reads # <<>> /\ Len(reads) > 0
    BY <1>4, <2>1, OneReadLess
  <2>3. ImportTypeOK'
    BY <1>1, <1>4, <2>1, <2>2 DEF ImportTypeOK, Texts
  <2>4. ASSUME ~excused'
        PROVE  NameFitsText'
    <3>1. ~excused /\ i = 1 /\ source = reads[Len(reads)]
      BY <1>4, <2>1, <2>2, <2>4 DEF Attributed, NameFitsText
    <3>2. CASE Len(reads) = 1
      <4>1. Len(reads') = 0 /\ reads' = <<>>
        BY <2>2, <3>2
      <4> QED BY <2>1, <3>1, <3>2, <4>1 DEF NameFitsText
    <3>3. CASE Len(reads) > 1
      <4>1. Len(reads') > 0 /\ Len(<<>>) = 0
        BY <1>4, <2>2, <3>3
      <4>2. reads' # <<>>
        BY <4>1
      <4> QED BY <2>1, <2>2, <3>1, <3>3, <4>2 DEF NameFitsText
    <3> QED BY <1>4, <2>2, <3>2, <3>3
  <2> QED BY <1>4, <2>1, <2>3, <2>4
<1>7. ASSUME NEW i \in 1..MaxReads, ReadFails(i)
      PROVE  ImportTypeOK' /\ excused'
  <2>1. /\ i \in DOMAIN reads /\ reads' = RemoveAt(reads, i) /\ content' = content /\ excused'
    BY <1>7 DEF ReadFails
  <2>2. reads' \in Seq(Files) /\ excused' \in BOOLEAN
    BY <1>4, <1>7, <2>1, OneReadLess DEF ReadFails
  <2> QED BY <1>1, <2>1, <2>2 DEF ImportTypeOK
<1>8. ImportTypeOK' /\ (~excused' => NameFitsText' /\ ~excused)
  BY <1>5, <1>6, <1>7
<1> QED BY <1>2, <1>3, <1>8 DEF Attributed

\* Editing an empty or a typed text over a file's needs no other name, and a name
\* that the user has edited is not checked.
LEMMA Editing_Inv ==
  ASSUME ImportInv,
         \/ OpenImport \/ CloseImport \/ EditContent \/ ClearImport
         \/ \E name \in Names : EditSource(name)
  PROVE  ImportInv'
<1> USE DEF ImportInv
<1>1. UNCHANGED <<phase, sent, unsaved, stored, reads>>
  BY DEF OpenImport, CloseImport, EditContent, ClearImport, EditSource
<1>2. Progress'
  BY <1>1 DEF Progress
<1>3. (SentFits' <=> SentFits) /\ (OwnNames' <=> OwnNames)
  BY <1>1 DEF SentFits, OwnNames
<1>4. ImportTypeOK'
  BY <1>1 DEF ImportTypeOK, Texts, OpenImport, CloseImport, EditContent, ClearImport, EditSource
<1>5. Typed \notin Files /\ Blank \notin Files
  BY ImportConstants DEF Texts
<1>6. \/ /\ excused' = excused /\ source' = source
         /\ content' = content \/ content' \notin Files
      \/ /\ excused' = (excused \/ reads # <<>>) /\ content' = Blank
      \/ excused'
  BY <1>5 DEF OpenImport, CloseImport, EditContent, ClearImport, EditSource
<1>7. ~excused' => ~excused /\ NameFitsText'
  BY <1>1, <1>5, <1>6 DEF Attributed, NameFitsText, ImportTypeOK
<1> QED BY <1>2, <1>3, <1>4, <1>7 DEF Attributed

\* What is sent is the text in the dialog, under the name in the dialog.
LEMMA Submit_Inv ==
  ASSUME ImportInv, Submit
  PROVE  ImportInv'
<1> USE DEF ImportInv
<1>1. /\ content # Blank /\ content \in Texts
      /\ phase' = "sending" /\ sent'.text = content
      /\ sent'.name = IF source = Blank THEN Manual ELSE source
      /\ unsaved' = LinesOf[content]
      /\ excused' = (excused \/ reads # <<>>)
      /\ UNCHANGED <<importOpen, content, source, reads, stored>>
  BY DEF Submit, ImportTypeOK
<1>2. ImportTypeOK'
  BY <1>1 DEF ImportTypeOK
<1>3. Progress'
  BY <1>1 DEF Progress
<1>4. ASSUME ~excused'
      PROVE  NameFitsText' /\ SentFits' /\ OwnNames'
  <2>1. ~excused /\ reads = <<>>
    BY <1>1, <1>4 DEF ImportTypeOK
  <2>2. NameFitsText' /\ OwnNames'
    BY <1>1, <2>1 DEF Attributed, NameFitsText, OwnNames
  <2>3. SentFits'
    BY <1>1, <2>1 DEF Attributed, NameFitsText, SentFits
  <2> QED BY <2>2, <2>3
<1> QED BY <1>2, <1>3, <1>4 DEF Attributed

\* A line is stored under the name it is sent with, and only its own file has it.
LEMMA IngestLine_Inv ==
  ASSUME ImportInv, NEW l, IngestLine(l)
  PROVE  ImportInv'
<1> USE DEF ImportInv
<1>1. /\ phase = "sending" /\ l \in unsaved /\ unsaved' = unsaved \ {l}
      /\ stored' = IF l \in Malformed THEN stored ELSE stored \union {<<sent.name, l>>}
      /\ UNCHANGED <<importOpen, content, source, reads, excused, phase, sent>>
  BY DEF IngestLine, dialogVars
<1>2. ImportTypeOK'
  BY <1>1 DEF ImportTypeOK
<1>3. Progress'
  BY <1>1 DEF Progress
<1>4. sent.text \in Texts /\ l \in LinesOf[sent.text]
  BY <1>1 DEF Progress
<1>5. ASSUME ~excused'
      PROVE  NameFitsText' /\ SentFits' /\ OwnNames'
  <2>1. NameFitsText' /\ SentFits'
    BY <1>1, <1>5 DEF Attributed, NameFitsText, SentFits
  <2>2. ASSUME NEW f \in Files, NEW k \in LinesOf[f], NEW n, <<n, k>> \in stored'
        PROVE  n = f
    <3>1. CASE <<n, k>> \in stored
      BY <1>1, <1>5, <3>1 DEF Attributed, OwnNames
    <3>2. CASE <<n, k>> = <<sent.name, l>>
      <4>1. n = sent.name /\ k = l
        BY <3>2
      <4>2. f \in Texts
        BY DEF Texts
      <4>3. f = sent.text
        BY <1>4, <4>1, <4>2, ImportConstants
      <4> QED BY <1>1, <1>5, <4>1, <4>3 DEF Attributed, SentFits
    <3> QED BY <1>1, <2>2, <3>1, <3>2
  <2>3. OwnNames'
    BY <2>2 DEF OwnNames
  <2> QED BY <2>1, <2>3
<1> QED BY <1>2, <1>3, <1>5 DEF Attributed

\* However an import ends, nothing is being sent.
LEMMA ImportEnds_Inv ==
  ASSUME ImportInv, ImportAccepted \/ ImportRefused \/ ImportDone
  PROVE  ImportInv'
<1> USE DEF ImportInv
<1>1. /\ UNCHANGED <<source, reads, excused, stored>> /\ phase' \in {"idle", "refreshing"}
      /\ content' = content \/ content' = Blank
      /\ importOpen' \in BOOLEAN
  BY DEF ImportAccepted, ImportRefused, ImportDone, dialogVars, ImportTypeOK
<1>2. phase' # "sending"
  BY <1>1
<1>3. ImportTypeOK' /\ Progress'
  BY <1>1, <1>2 DEF ImportTypeOK, Progress
<1>4. Blank \notin Files
  BY ImportConstants DEF Texts
<1>5. Attributed'
  BY <1>1, <1>2, <1>4 DEF Attributed, NameFitsText, SentFits, OwnNames
<1> QED BY <1>3, <1>5

LEMMA ImportNext_Inv == ImportInv /\ [ImportNext]_importVars => ImportInv'
<1> SUFFICES ASSUME ImportInv, [ImportNext]_importVars PROVE ImportInv'
  OBVIOUS
<1>1. CASE UNCHANGED importVars
  BY <1>1 DEF importVars, dialogVars, ImportInv, ImportTypeOK, Attributed, NameFitsText,
     SentFits, OwnNames, Progress
<1> QED BY <1>1, Reading_Inv, Editing_Inv, Submit_Inv, IngestLine_Inv, ImportEnds_Inv DEF ImportNext

\* The imports of App.tsx, for any files and lines: as long as the user lets the
\* name follow the file and no read fails or is overtaken, every line of a file
\* is stored under that file's name only, so importing it again adds nothing.
THEOREM LinesGoUnderTheirFile == ImportSpec => []StoredUnderOwnName
<1>1. ImportInv => StoredUnderOwnName
  BY DEF ImportInv, ImportTypeOK, Attributed, OwnNames, StoredUnderOwnName
<1> QED BY <1>1, ImportInit_Inv, ImportNext_Inv, PTL DEF ImportSpec

\* Whatever fails, and whenever: an import takes the text out of the dialog only
\* when each of its valid lines has been stored.
THEOREM TextStaysUntilStored == ImportSpec => FailedImportKeepsText
<1>1. ASSUME ImportInv, [ImportNext]_importVars
      PROVE  [phase' # phase /\ content' # content =>
                \A l \in LinesOf[sent.text] \ Malformed : <<sent.name, l>> \in stored']_importVars
  <2> SUFFICES ASSUME ImportNext, phase' # phase, content' # content
               PROVE  \A l \in LinesOf[sent.text] \ Malformed : <<sent.name, l>> \in stored'
    BY <1>1
  <2>1. ImportAccepted
    BY DEF ImportNext, OpenImport, CloseImport, ChooseFile, ReadEnds, ReadFails, EditContent,
       EditSource, ClearImport, Submit, IngestLine, ImportRefused, ImportDone, dialogVars
  <2> QED BY <1>1, <2>1 DEF ImportAccepted, ImportInv, Progress
<1> QED BY <1>1, ImportInit_Inv, ImportNext_Inv, PTL DEF ImportSpec, FailedImportKeepsText

-----------------------------------------------------------------------------
(* The Settings view (SettingsView) *)

\* The states of the language model that the badge names.
Named == {"available", "missing", "unreachable"}

Loads ==
  [api : {Unanswered, Refused} \union Configurations, llm : {Unanswered, Unset} \union LlmStates]

\* A state on screen, or on its way there, is one since the last load began; while
\* a load is in flight so is the present one, which the next answer brings.
SettingsInv ==
  /\ configuration \in Configurations /\ provider \in LlmStates
  /\ llm \in {Unset} \union LlmStates
  /\ settingsShown /\ ~settingsLoading /\ ~settingsError /\ llm \in Named => llm \in since
  /\ settingsLoad # Unset =>
       /\ settingsLoad \in Loads
       /\ provider \in since
       /\ settingsLoad.llm \in Named => settingsLoad.llm \in since

LEMMA SettingsInit_Inv == SettingsInit => SettingsInv
BY DEF SettingsInit, SettingsInv, Configurations, LlmStates

\* A load begins, or the view is left.
LEMMA Loading_Inv ==
  ASSUME SettingsInv, OpenSettings \/ RefreshSettings \/ LeaveSettings
  PROVE  SettingsInv'
<1>1. UNCHANGED <<configuration, provider>>
  BY DEF OpenSettings, RefreshSettings, LeaveSettings, world
<1>2. ASSUME OpenSettings \/ RefreshSettings
      PROVE  SettingsInv'
  <2>1. /\ settingsLoading' = TRUE /\ settingsLoad' = NewLoad /\ since' = {provider}
        /\ llm' \in {llm, Unset}
    BY <1>2 DEF OpenSettings, RefreshSettings
  <2>2. NewLoad \in Loads /\ NewLoad.llm \notin Named
    BY SettingsConstants DEF NewLoad, Loads, Named, LlmStates
  <2> QED BY <1>1, <2>1, <2>2 DEF SettingsInv
<1>3. CASE LeaveSettings
  BY <1>1, <1>3 DEF LeaveSettings, SettingsInv, view
<1> QED BY <1>2, <1>3

\* A request is answered: with the provider's present state, if with any.
LEMMA Answer_Inv ==
  ASSUME SettingsInv, AnswerSettings \/ AnswerLlm
  PROVE  SettingsInv'
<1>1. /\ UNCHANGED <<configuration, provider, settingsShown, settingsLoading, settingsError, llm, since>>
      /\ settingsLoad # Unset
      /\ settingsLoad \in Loads /\ provider \in since
      /\ configuration \in Configurations /\ provider \in LlmStates
  BY DEF AnswerSettings, AnswerLlm, world, view, SettingsInv
<1>2. CASE AnswerSettings
  <2>1. PICK answer \in {configuration, Refused} :
          settingsLoad' = [settingsLoad EXCEPT !.api = answer]
    BY <1>2 DEF AnswerSettings
  <2>2. settingsLoad' \in Loads /\ settingsLoad'.llm = settingsLoad.llm
    BY <1>1, <2>1 DEF Loads
  <2> QED BY <1>1, <2>2 DEF SettingsInv
<1>3. CASE AnswerLlm
  <2>1. PICK answer \in {provider, Unset} :
          settingsLoad' = [settingsLoad EXCEPT !.llm = answer]
    BY <1>3 DEF AnswerLlm
  <2>2. settingsLoad' \in Loads /\ settingsLoad'.llm = answer
    BY <1>1, <2>1 DEF Loads
  <2>3. Unset \notin Named
    BY SettingsConstants DEF Named, LlmStates
  <2> QED BY <1>1, <2>2, <2>3 DEF SettingsInv
<1> QED BY <1>2, <1>3

\* A load ends, and what it brought was gathered since it began.
LEMMA LoadEnds_Inv ==
  ASSUME SettingsInv, ShowSettings \/ SettingsFail
  PROVE  SettingsInv'
BY DEF SettingsInv, ShowSettings, SettingsFail, world, Loads

\* The world changes, and what it is then counts as being since the load began.
LEMMA World_Inv ==
  ASSUME SettingsInv, RestartApi \/ ProviderChanges
  PROVE  SettingsInv'
<1>1. /\ configuration' \in Configurations /\ provider' \in LlmStates
      /\ since' = since \union {provider'}
      /\ UNCHANGED <<settingsShown, settingsLoading, settingsError, llm, settingsLoad>>
  BY DEF RestartApi, ProviderChanges, view, SettingsInv, LlmStates
<1> QED BY <1>1 DEF SettingsInv

LEMMA SettingsNext_Inv == SettingsInv /\ [SettingsNext]_settingsVars => SettingsInv'
<1> SUFFICES ASSUME SettingsInv, [SettingsNext]_settingsVars PROVE SettingsInv'
  OBVIOUS
<1>1. CASE UNCHANGED settingsVars
  BY <1>1 DEF settingsVars, world, view, SettingsInv
<1> QED BY <1>1, Loading_Inv, Answer_Inv, LoadEnds_Inv, World_Inv DEF SettingsNext

\* The badge of settings-view.tsx, however the two requests of a load fail or
\* cross changes of the provider, restarts and leaving the view: without an error
\* beside it, a state it names is one since the last load began.
THEOREM BadgeShowsTheLoad == SettingsSpec => []BadgeIsCurrent
<1>1. SettingsInv => BadgeIsCurrent
  <2> SUFFICES ASSUME SettingsInv, settingsShown, ~settingsError
               PROVE  /\ LlmBadge = "Ready" => "available" \in since
                      /\ LlmBadge = "Model missing" => "missing" \in since
                      /\ LlmBadge = "Unreachable" => "unreachable" \in since
    BY DEF BadgeIsCurrent
  <2>1. CASE settingsLoading
    BY <2>1 DEF LlmBadge
  <2>2. CASE ~settingsLoading /\ llm \in {Unset, "disabled"}
    <3>1. llm \notin Named
      BY <2>2, SettingsConstants DEF Named, LlmStates
    <3>2. LlmBadge = "Not configured"
      BY <2>2, <3>1 DEF LlmBadge, Named
    <3> QED BY <3>2
  <2>3. CASE ~settingsLoading /\ llm \in Named
    <3>1. llm \in since /\ llm \notin {Unset, "disabled"}
      BY <2>3, SettingsConstants DEF SettingsInv, Named, LlmStates
    <3>2. CASE llm = "available"
      BY <2>3, <3>1, <3>2 DEF LlmBadge
    <3>3. CASE llm = "missing"
      BY <2>3, <3>1, <3>3 DEF LlmBadge
    <3>4. CASE llm = "unreachable"
      BY <2>3, <3>1, <3>4 DEF LlmBadge
    <3> QED BY <2>3, <3>2, <3>3, <3>4 DEF Named
  <2> QED BY <2>1, <2>2, <2>3 DEF SettingsInv, LlmStates, Named
<1> QED BY <1>1, SettingsInit_Inv, SettingsNext_Inv, PTL DEF SettingsSpec

-----------------------------------------------------------------------------
(* The views of the events (Views) *)

Hashes == Views \union {"other"}

\* The active view is that of the current entry of the history.
AddressInv ==
  /\ urls \in Seq(Hashes)
  /\ at \in 1..Len(urls)
  /\ activeView = ReadViewFromHash(urls[at])

\* What the pages are computed from.
ListInv ==
  /\ listed = {} \/ listed \in Lists
  /\ query \in Searches /\ resultFilter \in Filters
  /\ page \in Nat \ {0}

ViewsInv == AddressInv /\ ListInv

\* Going to a hash: the entry is there, or is added behind the current one.
LEMMA HashPushed ==
  ASSUME AddressInv, NEW hash \in Hashes, PushHash(hash)
  PROVE  urls' \in Seq(Hashes) /\ at' \in 1..Len(urls') /\ urls'[at'] = hash
<1>1. urls \in Seq(Hashes) /\ Len(urls) \in Nat /\ at \in 1..Len(urls)
  BY DEF AddressInv
<1>2. CASE Hash = hash
  BY <1>1, <1>2 DEF PushHash, Hash
<1>3. CASE Hash # hash
  <2> DEFINE kept == SubSeq(urls, 1, at)
  <2>1. kept \in Seq(Hashes) /\ Len(kept) = at
    BY <1>1
  <2>2. urls' = Append(kept, hash) /\ at' = at + 1
    BY <1>3 DEF PushHash
  <2> HIDE DEF kept
  <2>3. /\ Append(kept, hash) \in Seq(Hashes) /\ Len(Append(kept, hash)) = at + 1
        /\ Append(kept, hash)[at + 1] = hash
    BY <1>1, <2>1
  <2> QED BY <1>1, <2>2, <2>3
<1> QED BY <1>2, <1>3

\* The code's own navigation: the view and its hash change together.
LEMMA ViewChosen ==
  ASSUME AddressInv, NEW v \in Views, SetActiveView(v)
  PROVE  AddressInv' /\ page' \in {page, 1}
<1>1. PushHash(v) /\ activeView' = v /\ v \in Hashes
  BY DEF SetActiveView, Hashes
<1>2. urls' \in Seq(Hashes) /\ at' \in 1..Len(urls') /\ urls'[at'] = v
  BY <1>1, HashPushed
<1> QED BY <1>1, <1>2 DEF AddressInv, ReadViewFromHash, SetActiveView, Mount

\* The browser's: the listener of hash changes follows.
LEMMA BrowserMoves ==
  ASSUME AddressInv,
         \/ \E step \in {-1, 1} : Travel(step)
         \/ \E hash \in Hashes : FollowLink(hash)
  PROVE  AddressInv' /\ page' \in {page, 1} /\ UNCHANGED <<listed, query, resultFilter>>
<1>1. ASSUME NEW step \in {-1, 1}, Travel(step)
      PROVE  AddressInv' /\ page' \in {page, 1} /\ UNCHANGED <<listed, query, resultFilter>>
  <2>1. /\ at' \in DOMAIN urls /\ urls' = urls
        /\ activeView' = ReadViewFromHash(urls[at'])
        /\ page' \in {page, 1} /\ UNCHANGED <<listed, query, resultFilter>>
    BY <1>1 DEF Travel, Mount, list, choice
  <2> QED BY <2>1 DEF AddressInv
<1>2. ASSUME NEW hash \in Hashes, FollowLink(hash)
      PROVE  AddressInv' /\ page' \in {page, 1} /\ UNCHANGED <<listed, query, resultFilter>>
  <2>1. /\ PushHash(hash) /\ activeView' = ReadViewFromHash(hash)
        /\ page' \in {page, 1} /\ UNCHANGED <<listed, query, resultFilter>>
    BY <1>2 DEF FollowLink, Mount, list, choice
  <2>2. urls' \in Seq(Hashes) /\ at' \in 1..Len(urls') /\ urls'[at'] = hash
    BY <2>1, HashPushed
  <2> QED BY <2>1, <2>2 DEF AddressInv
<1> QED BY <1>1, <1>2

LEMMA ViewsInit_Inv == ViewsInit => ViewsInv
<1> SUFFICES ASSUME ViewsInit PROVE ViewsInv
  OBVIOUS
<1>1. PICK hash \in Hashes : urls = <<hash>> /\ at = 1 /\ activeView = ReadViewFromHash(urls[at])
  BY DEF ViewsInit, Hashes, Hash
<1>2. <<hash>> \in Seq(Hashes) /\ Len(<<hash>>) = 1
  OBVIOUS
<1>3. AddressInv
  BY <1>1, <1>2 DEF AddressInv
<1>4. ListInv
  BY ViewsConstants DEF ViewsInit, ListInv, Filters
<1> QED BY <1>3, <1>4 DEF ViewsInv

\* Steps that go to a view.
LEMMA Showing_Inv ==
  ASSUME ViewsInv,
         \/ \E v \in Views : Navigate(v)
         \/ InvestigationCompleted \/ ShowFromSearch
         \/ \E text \in Searches : ShowEntity(text) \/ FilterFromDetail(text)
         \/ \E filter \in {"all", "failure"} : ShowFromOverview(filter)
  PROVE  ViewsInv'
<1>1. /\ \E v \in Views : SetActiveView(v)
      /\ listed' = listed
      /\ query' \in Searches \union {query} /\ resultFilter' \in {resultFilter, "all", "failure"}
  BY DEF Navigate, InvestigationCompleted, ShowFromSearch, ShowEntity, FilterFromDetail,
     ShowFromOverview, ShowEvents, Views, list, choice
<1>2. AddressInv' /\ page' \in {page, 1}
  BY <1>1, ViewChosen DEF ViewsInv
<1> QED BY <1>1, <1>2 DEF ViewsInv, ListInv, Filters

\* Steps that stay in the view.
LEMMA Staying_Inv ==
  ASSUME ViewsInv, UNCHANGED <<activeView, urls, at>>,
         listed' \in Lists \union {{}, listed}, query' \in Searches, resultFilter' \in Filters,
         page' \in Nat \ {0}
  PROVE  ViewsInv'
BY DEF ViewsInv, AddressInv, ListInv

\* The number of rows and of pages.
LEMMA Counts ==
  ASSUME ListInv
  PROVE  /\ IsFiniteSet(listed) /\ IsFiniteSet(VisibleEvents)
         /\ Cardinality(VisibleEvents) \in Nat
         /\ (Cardinality(VisibleEvents) + PageSize - 1) \div PageSize \in Nat
         /\ PageCount \in Nat \ {0}
         /\ CurrentPage \in 1..PageCount /\ CurrentPage <= page
         /\ CurrentPage \in {page, PageCount}
         /\ PageCount \in {1, (Cardinality(VisibleEvents) + PageSize - 1) \div PageSize}
<1>1. IsFiniteSet(listed)
  BY ViewsConstants, FS_EmptySet DEF ListInv
<1>2. IsFiniteSet(VisibleEvents) /\ Cardinality(VisibleEvents) \in Nat
  BY <1>1, FS_Subset, FS_CardinalityType DEF VisibleEvents, SearchedEvents
<1> DEFINE quotient == (Cardinality(VisibleEvents) + PageSize - 1) \div PageSize
<1>3. quotient \in Nat
  BY <1>2, ViewsConstants
<1>4. \A m, n \in Nat : Min({m, n}) \in {m, n} /\ Min({m, n}) <= m /\ Min({m, n}) <= n
  BY DEF Min
<1>5. \A m, n \in Nat : Max({m, n}) \in {m, n} /\ Max({m, n}) >= m /\ Max({m, n}) >= n
  BY DEF Max
<1> HIDE DEF quotient
<1>6. PageCount = Max({1, quotient})
  BY DEF PageCount, quotient
<1>7. PageCount \in Nat \ {0} /\ PageCount \in {1, quotient}
  BY <1>3, <1>5, <1>6
<1>8. page \in Nat \ {0}
  BY DEF ListInv
<1>9. CurrentPage \in 1..PageCount /\ CurrentPage <= page /\ CurrentPage \in {page, PageCount}
  BY <1>4, <1>7, <1>8 DEF CurrentPage
<1> QED BY <1>1, <1>2, <1>3, <1>7, <1>9 DEF quotient

\* Previous and Next start at the page on screen, and end on one that exists.
LEMMA PagesTurn ==
  ASSUME ViewsInv, Previous \/ NextPage
  PROVE  /\ UNCHANGED <<list, address, choice>>
         /\ page' \in Nat \ {0}
         /\ CurrentPage' = page' /\ page' \in {CurrentPage - 1, CurrentPage + 1}
<1>1. UNCHANGED <<list, address, choice>>
  BY DEF Previous, NextPage
<1>2. PageCount' = PageCount
  BY <1>1 DEF PageCount, VisibleEvents, SearchedEvents, list, choice
<1>3. CurrentPage \in 1..PageCount /\ PageCount \in Nat \ {0}
  BY Counts DEF ViewsInv
<1>4. \A m, n \in Nat : m <= n => Min({m, n}) = m /\ Min({n, m}) = m /\ Max({m, n}) = n
  BY DEF Min, Max
<1>5. CASE Previous
  <2>1. CurrentPage # 1 /\ page' = Max({1, CurrentPage - 1})
    BY <1>5 DEF Previous
  <2>2. CurrentPage - 1 \in Nat /\ 1 <= CurrentPage - 1 /\ CurrentPage - 1 <= PageCount
    BY <1>3, <2>1
  <2>3. page' = CurrentPage - 1
    BY <1>4, <2>1, <2>2
  <2>4. CurrentPage' = Min({page', PageCount})
    BY <1>2 DEF CurrentPage
  <2>5. CurrentPage' = page'
    BY <1>3, <1>4, <2>2, <2>3, <2>4
  <2> QED BY <1>1, <2>2, <2>3, <2>5
<1>6. CASE NextPage
  <2>1. CurrentPage # PageCount /\ page' = Min({PageCount, CurrentPage + 1})
    BY <1>6 DEF NextPage
  <2>2. CurrentPage + 1 \in Nat \ {0} /\ CurrentPage + 1 <= PageCount
    BY <1>3, <2>1
  <2>3. page' = CurrentPage + 1
    BY <1>3, <1>4, <2>1, <2>2
  <2>4. CurrentPage' = Min({page', PageCount})
    BY <1>2 DEF CurrentPage
  <2>5. CurrentPage' = page'
    BY <1>3, <1>4, <2>2, <2>3, <2>4
  <2> QED BY <1>1, <2>2, <2>3, <2>5
<1> QED BY <1>5, <1>6

\* Every step keeps the invariant, and those that are not of the pager stay on the
\* page or go to the first.
LEMMA EveryViewsStep ==
  ASSUME ViewsInv, [ViewsNext]_viewVars
  PROVE  ViewsInv' /\ (Previous \/ NextPage \/ page' \in {page, 1})
<1> USE DEF ViewsInv
<1>1. CASE \/ \E v \in Views : Navigate(v)
           \/ InvestigationCompleted \/ ShowFromSearch
           \/ \E text \in Searches : ShowEntity(text) \/ FilterFromDetail(text)
           \/ \E filter \in {"all", "failure"} : ShowFromOverview(filter)
  <2>1. \E v \in Views : SetActiveView(v)
    BY <1>1 DEF Navigate, InvestigationCompleted, ShowFromSearch, ShowEntity, FilterFromDetail,
       ShowFromOverview, ShowEvents, Views
  <2> QED BY <1>1, <2>1, Showing_Inv, ViewChosen
<1>2. CASE \/ \E step \in {-1, 1} : Travel(step)
           \/ \E hash \in Hashes : FollowLink(hash)
  <2>1. AddressInv' /\ page' \in {page, 1} /\ UNCHANGED <<listed, query, resultFilter>>
    BY <1>2, BrowserMoves
  <2> QED BY <2>1 DEF ListInv
<1>3. CASE Reload
  <2>1. /\ activeView' = activeView /\ UNCHANGED <<urls, at>>
        /\ listed' = {} /\ query' = NoSearch /\ resultFilter' = "all" /\ page' = 1
    BY <1>3 DEF Reload, AddressInv, Hash
  <2>2. NoSearch \in Searches /\ "all" \in Filters
    BY ViewsConstants DEF Filters
  <2> QED BY <2>1, <2>2, Staying_Inv
<1>4. CASE \/ \E text \in Searches : Search(text)
           \/ \E filter \in Filters : ChangeFilter(filter)
           \/ ClearFilters \/ ClearFromTable \/ SelectEvent \/ CloseDetail \/ RefreshList
           \/ \E events \in Lists : ListArrives(events)
           \/ UNCHANGED viewVars
  <2>1. /\ UNCHANGED <<activeView, urls, at>>
        /\ listed' \in Lists \union {{}, listed} /\ page' \in {page, 1}
        /\ query' \in Searches \union {query} \union {NoSearch}
        /\ resultFilter' \in Filters \union {resultFilter}
    BY <1>4 DEF Search, ChangeFilter, ClearFilters, ClearFromTable, SelectEvent, CloseDetail,
       RefreshList, ListArrives, viewVars, list, address, choice, Filters
  <2>2. query' \in Searches /\ resultFilter' \in Filters /\ page' \in Nat \ {0}
    BY <2>1, ViewsConstants DEF ListInv
  <2> QED BY <2>1, <2>2, Staying_Inv
<1>5. CASE Previous \/ NextPage
  <2>1. UNCHANGED <<activeView, urls, at, listed, query, resultFilter>> /\ page' \in Nat \ {0}
    BY <1>5, PagesTurn DEF list, address, choice
  <2> QED BY <1>5, <2>1, Staying_Inv DEF ListInv
<1> QED BY <1>1, <1>2, <1>3, <1>4, <1>5 DEF ViewsNext, ViewsStep, Hashes

LEMMA ViewsNext_Inv == ViewsInv /\ [ViewsNext]_viewVars => ViewsInv'
BY EveryViewsStep

\* App.tsx's comment, "The active view lives in the URL hash so reloads, links and
\* the back button keep it", for any history of navigation, links, back, forward
\* and investigations that end in between.
THEOREM UrlNamesTheView == ViewsSpec => []ActiveViewInUrl
<1>1. ViewsInv => ActiveViewInUrl
  BY DEF ViewsInv, AddressInv, ActiveViewInUrl, Hash
<1> QED BY <1>1, ViewsInit_Inv, ViewsNext_Inv, PTL DEF ViewsSpec

\* The pager of the Events view, for any lists and page size: it moves by one from
\* the page on screen, also when that is not the page that was chosen.
THEOREM PagerMovesByOne == ViewsSpec => PagingMoves
<1>1. ASSUME ViewsInv, [ViewsNext]_viewVars
      PROVE  [page' # page /\ UNCHANGED <<activeView, choice, listed>> =>
                page' = 1 \/ CurrentPage' \in {CurrentPage - 1, CurrentPage + 1}]_viewVars
  BY <1>1, EveryViewsStep, PagesTurn
<1> QED BY <1>1, ViewsInit_Inv, ViewsNext_Inv, PTL DEF ViewsSpec, PagingMoves

\* What is on screen: events with times, and with identifiers of their own.
LEMMA VisibleType ==
  ASSUME ListInv
  PROVE  /\ VisibleEvents \subseteq listed
         /\ \A e \in listed : e.id \in Int /\ e.time \in Int /\ e.words \subseteq Words
         /\ \A d, e \in listed : d.id = e.id => d = e
         /\ query = NoSearch => SearchedEvents = listed
<1>1. VisibleEvents \subseteq listed
  BY DEF VisibleEvents, SearchedEvents
<1>2. CASE listed = {}
  BY <1>1, <1>2 DEF SearchedEvents
<1>3. CASE listed \in Lists
  BY <1>1, <1>3, ViewsConstants DEF SearchedEvents
<1> QED BY <1>2, <1>3 DEF ListInv

\* The first position of the page on screen is that of a row, if there are any.
LEMMA PageStarts ==
  ASSUME NEW count \in Nat \ {0}, NEW size \in Nat \ {0},
         NEW current \in Nat \ {0}, NEW last \in Nat,
         current <= last, last \in {1, (count + size - 1) \div size}
  PROVE  (current - 1) * size \in 0..(count - 1)
<1> DEFINE quotient == (count + size - 1) \div size
<1>1. quotient \in Nat /\ quotient * size <= count + size - 1
  OBVIOUS
<1>2. (current - 1) * size \in Nat
  OBVIOUS
<1>3. CASE last = 1
  <2>1. current - 1 = 0
    BY <1>3
  <2> QED BY <2>1
<1>4. CASE last = quotient
  <2> HIDE DEF quotient
  <2>1. current - 1 \in Nat /\ quotient - 1 \in Nat /\ current - 1 <= quotient - 1
    BY <1>1, <1>4
  <2>2. \A a, b, c \in Nat : a <= b => a * c <= b * c
    OBVIOUS
  <2>3. (current - 1) * size <= (quotient - 1) * size
    BY <2>1, <2>2
  <2>4. (quotient - 1) * size = quotient * size - size
    BY <1>1
  <2>5. quotient * size \in Int /\ (quotient - 1) * size \in Int
    BY <1>1
  <2> QED BY <1>1, <1>2, <2>3, <2>4, <2>5
<1> QED BY <1>3, <1>4

\* Every position below their number is that of one of the rows.
LEMMA RowAt ==
  ASSUME ListInv, NEW n \in 0..(Cardinality(VisibleEvents) - 1)
  PROVE  \E e \in VisibleEvents : Position(e) = n
<1> DEFINE rows == VisibleEvents
           before == [e \in rows |-> {d \in rows : Before(d, e)}]
<1>1. /\ \A e \in rows : e.id \in Int /\ e.time \in Int
      /\ \A d, e \in rows : d.id = e.id => d = e
      /\ IsFiniteSet(rows)
  BY VisibleType, Counts
<1> HIDE DEF rows
<1>2. before \in [rows -> SUBSET rows]
  OBVIOUS
<1>3. \A e \in rows : e \notin before[e]
  BY <1>1 DEF Before
<1>4. \A d, e \in rows : d \in before[e] => before[d] \subseteq before[e]
  BY <1>1 DEF Before
<1>5. \A d, e \in rows : d # e => d \in before[e] \/ e \in before[d]
  BY <1>1 DEF Before
<1>6. \A e \in rows : Cardinality(before[e]) = Position(e)
  BY DEF rows, Position
<1> HIDE DEF before
<1>7. \A k \in 0..(Cardinality(rows) - 1) : \E e \in rows : Cardinality(before[e]) = k
  BY <1>1, <1>2, <1>3, <1>4, <1>5, Places
<1> QED BY <1>6, <1>7 DEF rows

\* The Events view of App.tsx, for any lists, searches and page size: when an event
\* fits there are rows on the page, and the numbers on the buttons and on the card
\* of the overview are those of the rows.
THEOREM EventsAreShown == ViewsSpec => []PageShowsEvents
<1>1. ViewsInv => PageShowsEvents
  <2> SUFFICES ASSUME ViewsInv PROVE PageShowsEvents
    OBVIOUS
  <2> USE DEF ViewsInv
  <2>1. ASSUME VisibleEvents # {}
        PROVE  PageEvents # {}
    <3> DEFINE start == (CurrentPage - 1) * PageSize
    <3>1. Cardinality(VisibleEvents) \in Nat \ {0}
      BY <2>1, Counts, FS_EmptySet
    <3>2. /\ CurrentPage \in Nat \ {0} /\ PageCount \in Nat /\ CurrentPage <= PageCount
          /\ PageCount \in {1, (Cardinality(VisibleEvents) + PageSize - 1) \div PageSize}
      BY Counts
    <3>3. start \in 0..(Cardinality(VisibleEvents) - 1)
      BY <3>1, <3>2, PageStarts, ViewsConstants
    <3>4. PICK e \in VisibleEvents : Position(e) = start
      BY <3>3, RowAt
    <3>5. start + PageSize = CurrentPage * PageSize
      BY <3>2, ViewsConstants
    <3>6. start \in start..(CurrentPage * PageSize - 1)
      BY <3>1, <3>3, <3>5, ViewsConstants
    <3> QED BY <3>4, <3>6 DEF PageEvents
  <2>2. ResultCounts[resultFilter] = Cardinality(VisibleEvents)
    BY DEF ResultCounts, VisibleEvents, ListInv
  <2>3. ASSUME query = NoSearch
        PROVE  ResultCounts["failure"] = FailureCount(listed)
    <3>1. \A e : MatchesResultFilter(e, "failure") <=> ResultTone(e.words) = "danger"
      BY DEF MatchesResultFilter
    <3>2. SearchedEvents = listed
      BY <2>3, VisibleType
    <3>3. {e \in SearchedEvents : MatchesResultFilter(e, "failure")}
            = {e \in listed : ResultTone(e.words) = "danger"}
      BY <3>1, <3>2
    <3>4. ResultCounts["failure"] = Cardinality({e \in SearchedEvents : MatchesResultFilter(e, "failure")})
      BY DEF ResultCounts, Filters
    <3> QED BY <3>3, <3>4 DEF FailureCount
  <2> QED BY <2>1, <2>2, <2>3 DEF PageShowsEvents
<1> QED BY <1>1, ViewsInit_Inv, ViewsNext_Inv, PTL DEF ViewsSpec
-----------------------------------------------------------------------------
(* The charts (Activity)                                                   *)

\* What SumFunction computes on the way: a function of the sets of indices.
IsSum(g, f, I) ==
  g = [s \in SUBSET I |-> IF s = {} THEN 0
                          ELSE f[CHOOSE x \in s : TRUE] + g[s \ {CHOOSE x \in s : TRUE}]]

\* SumFunction is what its recursion says, when any function is.
LEMMA SumOfParts ==
  ASSUME NEW f, NEW total, IsSum(total, f, DOMAIN f)
  PROVE  \E g : IsSum(g, f, DOMAIN f) /\ SumFunction(f) = g[DOMAIN f]
<1> DEFINE sum == CHOOSE g : IsSum(g, f, DOMAIN f)
<1>1. IsSum(sum, f, DOMAIN f)
  BY Zenon
<1>2. SumFunction(f) = sum[DOMAIN f]
  BY Zenon DEF SumFunction, SumFunctionOnSet, FoldFunctionOnSet, MapThenFoldSet, IsSum
<1> QED BY <1>1, <1>2, Zenon

\* The sizes of the parts of a finite set add up to its own, for parts that are
\* numbered by any finite set of indices, some of them empty.
LEMMA PartsAddUp ==
  ASSUME NEW E, IsFiniteSet(E), NEW f, IsFiniteSet(DOMAIN f),
         NEW k \in [E -> DOMAIN f], f \in [DOMAIN f -> Nat],
         \A i \in DOMAIN f : f[i] = Cardinality({e \in E : k[e] = i})
  PROVE  SumFunction(f) = Cardinality(E)
<1> DEFINE I == DOMAIN f
           Part(s) == {e \in E : k[e] \in s}
           total == [s \in SUBSET I |-> Cardinality(Part(s))]
<1>1. ASSUME NEW s \in SUBSET I
      PROVE  IsFiniteSet(Part(s)) /\ Cardinality(Part(s)) \in Nat
  BY FS_Subset, FS_CardinalityType
<1>2. ASSUME NEW s \in SUBSET I, NEW x \in s
      PROVE  Cardinality(Part(s)) = f[x] + Cardinality(Part(s \ {x}))
  <2> DEFINE own == {e \in E : k[e] = x}
  <2>1. Part(s) = own \union Part(s \ {x}) /\ own \intersect Part(s \ {x}) = {}
    OBVIOUS
  <2>2. IsFiniteSet(own) /\ IsFiniteSet(Part(s \ {x}))
    BY FS_Subset
  <2>3. /\ Cardinality(own) \in Nat /\ Cardinality(Part(s \ {x})) \in Nat
        /\ f[x] = Cardinality(own)
    BY <2>2, FS_CardinalityType
  <2> HIDE DEF own, Part
  <2>4. Cardinality(own \union Part(s \ {x}))
          = Cardinality(own) + Cardinality(Part(s \ {x})) - Cardinality(own \intersect Part(s \ {x}))
    BY <2>2, FS_Union
  <2>5. Cardinality(own \intersect Part(s \ {x})) = 0
    BY <2>1, FS_EmptySet
  <2>6. Cardinality(Part(s)) = Cardinality(own \union Part(s \ {x}))
    BY <2>1
  <2> QED BY <2>3, <2>4, <2>5, <2>6
<1>3. Part({}) = {} /\ Part(I) = E /\ I \in SUBSET I
  OBVIOUS
<1> HIDE DEF Part
<1>4. IsSum(total, f, I)
  <2>1. ASSUME NEW s \in SUBSET I
        PROVE  total[s] = IF s = {} THEN 0
                          ELSE f[CHOOSE x \in s : TRUE] + total[s \ {CHOOSE x \in s : TRUE}]
    <3>1. CASE s = {}
      BY <1>3, <3>1, FS_EmptySet
    <3>2. CASE s # {}
      <4>1. (CHOOSE x \in s : TRUE) \in s
        BY <3>2
      <4> DEFINE x == CHOOSE y \in s : TRUE
      <4> HIDE DEF x
      <4>2. x \in s /\ s \ {x} \in SUBSET I
        BY <4>1 DEF x
      <4>3. total[s] = f[x] + total[s \ {x}]
        BY <1>2, <4>2
      <4> QED BY <3>2, <4>3 DEF x
    <3> QED BY <3>1, <3>2
  <2> QED BY <2>1, Zenon DEF IsSum
<1>5. PICK g : IsSum(g, f, I) /\ SumFunction(f) = g[I]
  <2> HIDE DEF total
  <2> QED BY <1>4, SumOfParts
<1> DEFINE Right == {n \in Nat : \A s \in SUBSET I : Cardinality(s) = n => g[s] = total[s]}
<1>6. ASSUME NEW s \in SUBSET I
      PROVE  /\ s = {} => g[s] = 0 /\ total[s] = 0
             /\ s # {} => \E x \in s : /\ g[s] = f[x] + g[s \ {x}]
                                       /\ total[s] = f[x] + total[s \ {x}]
  <2> HIDE DEF total
  <2> DEFINE x == CHOOSE y \in s : TRUE
  <2>1. s # {} => x \in s
    OBVIOUS
  <2>2. /\ g[s] = IF s = {} THEN 0 ELSE f[x] + g[s \ {x}]
        /\ total[s] = IF s = {} THEN 0 ELSE f[x] + total[s \ {x}]
    BY <1>4, <1>5, Zenon DEF IsSum
  <2> HIDE DEF x
  <2> QED BY <2>1, <2>2
<1> HIDE DEF total
<1>7. 0 \in Right
  <2>1. ASSUME NEW s \in SUBSET I, Cardinality(s) = 0
        PROVE  s = {}
    BY <2>1, FS_Subset, FS_EmptySet
  <2> QED BY <2>1, <1>6
<1>8. ASSUME NEW n \in Right
      PROVE  n + 1 \in Right
  <2>1. SUFFICES ASSUME NEW s \in SUBSET I, Cardinality(s) = n + 1
                 PROVE  g[s] = total[s]
    OBVIOUS
  <2>2. IsFiniteSet(s) /\ s # {}
    BY <2>1, FS_Subset, FS_EmptySet
  <2>3. PICK x \in s : g[s] = f[x] + g[s \ {x}] /\ total[s] = f[x] + total[s \ {x}]
    BY <1>6, <2>2
  <2>4. Cardinality(s \ {x}) = n /\ n \in Nat
    <3>1. Cardinality(s \ {x}) = Cardinality(s) - 1
      BY <2>2, FS_RemoveElement
    <3> QED BY <2>1, <3>1
  <2>5. g[s \ {x}] = total[s \ {x}]
    BY <2>4
  <2> QED BY <2>3, <2>5
<1>9. Right = Nat
  <2> HIDE DEF Right
  <2>1. Right \subseteq Nat
    BY DEF Right
  <2> QED BY <1>7, <1>8, <2>1, SetInduction
<1>10. Cardinality(I) \in Nat
  BY FS_CardinalityType
<1>11. g[I] = total[I]
  BY <1>3, <1>9, <1>10
<1> QED BY <1>3, <1>5, <1>11 DEF total

\* The values of a function of a finite set.
LEMMA ImageIsFinite ==
  ASSUME NEW S, IsFiniteSet(S), NEW h, DOMAIN h = S
  PROVE  IsFiniteSet({h[x] : x \in S})
<1> DEFINE T == {h[x] : x \in S}
           g == [x \in S |-> h[x]]
<1>1. g \in [S -> T] /\ \A t \in T : \E x \in S : g[x] = t
  OBVIOUS
<1> HIDE DEF g, T
<1>2. g \in Surjection(S, T)
  BY <1>1, Fun_IsSurj
<1>3. IsFiniteSet(T)
  BY <1>2, FS_Surjection
<1> QED BY <1>3 DEF T

\* A finite set of numbers has a first and a last.
LEMMA EndsOf ==
  ASSUME NEW T, IsFiniteSet(T), T # {}, T \subseteq Int
  PROVE  /\ Min(T) \in T /\ Max(T) \in T
         /\ \A t \in T : Min(T) <= t /\ t <= Max(T)
<1>1. ASSUME NEW before \in [T -> SUBSET T],
             \A e \in T : e \notin before[e],
             \A d, e \in T : d \in before[e] => before[d] \subseteq before[e],
             \A d, e \in T : d /= e => d \in before[e] \/ e \in before[d]
      PROVE  \E e \in T : before[e] = {}
  <2>1. Cardinality(T) \in Nat /\ Cardinality(T) # 0
    BY FS_CardinalityType, FS_EmptySet
  <2>2. 0 \in 0..(Cardinality(T) - 1)
    BY <2>1
  <2>3. /\ \A e \in T : IsFiniteSet(before[e])
        /\ \A n \in 0..(Cardinality(T) - 1) : \E e \in T : Cardinality(before[e]) = n
    BY <1>1, Places
  <2>4. PICK e \in T : Cardinality(before[e]) = 0 /\ IsFiniteSet(before[e])
    BY <2>2, <2>3
  <2> QED BY <2>4, FS_EmptySet
<1>2. \E t \in T : \A u \in T : t <= u
  <2> DEFINE below == [t \in T |-> {u \in T : u < t}]
  <2>1. below \in [T -> SUBSET T] /\ \A t \in T : below[t] = {u \in T : u < t}
    OBVIOUS
  <2> HIDE DEF below
  <2>2. \A d, e \in T : d \in below[e] <=> d < e
    BY <2>1
  <2>3. /\ \A e \in T : e \notin below[e]
        /\ \A d, e \in T : d /= e => d \in below[e] \/ e \in below[d]
    <3>1. ASSUME NEW d \in T, NEW e \in T
          PROVE  ~(e < e) /\ (d /= e => d < e \/ e < d)
      <4>1. d \in Int /\ e \in Int
        OBVIOUS
      <4> QED BY <4>1
    <3>2. \A e \in T : e \notin below[e]
      BY <2>2, <3>1
    <3> QED BY <2>2, <3>1, <3>2
  <2>4. \A d, e \in T : d \in below[e] => below[d] \subseteq below[e]
    <3>1. ASSUME NEW d \in T, NEW e \in T, NEW c \in T, d \in below[e], c \in below[d]
          PROVE  c \in below[e]
      <4>1. c \in Int /\ d \in Int /\ e \in Int
        OBVIOUS
      <4> QED BY <2>2, <3>1, <4>1
    <3> QED BY <2>1, <3>1
  <2>5. PICK t \in T : below[t] = {}
    BY <1>1, <2>1, <2>3, <2>4
  <2>6. \A u \in T : u \in Int
    OBVIOUS
  <2>7. \A u \in T : ~(u < t)
    BY <2>2, <2>5
  <2> QED BY <2>6, <2>7
<1>3. \E t \in T : \A u \in T : u <= t
  <2> DEFINE above == [t \in T |-> {u \in T : t < u}]
  <2>1. above \in [T -> SUBSET T] /\ \A t \in T : above[t] = {u \in T : t < u}
    OBVIOUS
  <2> HIDE DEF above
  <2>2. \A d, e \in T : d \in above[e] <=> e < d
    BY <2>1
  <2>3. /\ \A e \in T : e \notin above[e]
        /\ \A d, e \in T : d /= e => d \in above[e] \/ e \in above[d]
    <3>1. ASSUME NEW d \in T, NEW e \in T
          PROVE  ~(e < e) /\ (d /= e => e < d \/ d < e)
      <4>1. d \in Int /\ e \in Int
        OBVIOUS
      <4> QED BY <4>1
    <3>2. \A e \in T : e \notin above[e]
      BY <2>2, <3>1
    <3> QED BY <2>2, <3>1, <3>2
  <2>4. \A d, e \in T : d \in above[e] => above[d] \subseteq above[e]
    <3>1. ASSUME NEW d \in T, NEW e \in T, NEW c \in T, d \in above[e], c \in above[d]
          PROVE  c \in above[e]
      <4>1. c \in Int /\ d \in Int /\ e \in Int
        OBVIOUS
      <4> QED BY <2>2, <3>1, <4>1
    <3> QED BY <2>1, <3>1
  <2>5. PICK t \in T : above[t] = {}
    BY <1>1, <2>1, <2>3, <2>4
  <2>6. \A u \in T : u \in Int
    OBVIOUS
  <2>7. \A u \in T : ~(t < u)
    BY <2>2, <2>5
  <2> QED BY <2>6, <2>7
<1>4. Min(T) \in T /\ \A u \in T : Min(T) <= u
  BY <1>2 DEF Min
<1>5. Max(T) \in T /\ \A u \in T : Max(T) >= u
  BY <1>3 DEF Max
<1> QED BY <1>4, <1>5

\* An event list as a load brings it.
EventList(events) ==
  /\ IsFiniteSet(events)
  /\ \A e \in events : e.time \in Int /\ e.words \subseteq Words

\* The width of a slot is one of Steps, and wide enough unless none is.
LEMMA StepIsChosen ==
  ASSUME NEW events, EventList(events), events # {}
  PROVE  /\ Min(Times(events)) \in Int /\ Max(Times(events)) \in Int
         /\ \A e \in events : Min(Times(events)) <= e.time /\ e.time <= Max(Times(events))
         /\ Min(Times(events)) <= Max(Times(events))
         /\ StepFor(events) \in Nat \ {0}
         /\ \/ StepFor(events) = Day
            \/ Max(Times(events)) - Min(Times(events)) < MaxBuckets * StepFor(events)
<1> DEFINE T == Times(events)
<1>1. IsFiniteSet(T) /\ T # {} /\ T \subseteq Int /\ \A e \in events : e.time \in T
  <2> DEFINE h == [e \in events |-> e.time]
  <2>1. T = {h[e] : e \in events}
    BY DEF Times
  <2>2. IsFiniteSet({h[e] : e \in events})
    BY ImageIsFinite DEF EventList
  <2> QED BY <2>1, <2>2 DEF EventList, Times
<1> HIDE DEF T
<1>2. /\ Min(T) \in T /\ Max(T) \in T
      /\ \A t \in T : Min(T) <= t /\ t <= Max(T)
  BY <1>1, EndsOf
<1>3. /\ \A i \in DOMAIN Steps : Steps[i] \in Nat \ {0}
      /\ DOMAIN Steps = 1..Len(Steps) /\ Len(Steps) \in DOMAIN Steps
  BY ActivityConstants
<1> DEFINE fitting == {i \in DOMAIN Steps : Max(T) - Min(T) < MaxBuckets * Steps[i]}
<1>4. StepFor(events) = IF fitting = {} THEN Day ELSE Steps[Min(fitting)]
  BY DEF StepFor, Span, T
<1>5. fitting # {} => Min(fitting) \in fitting
  <2>1. fitting \subseteq Int /\ IsFiniteSet(fitting)
    BY <1>3, FS_Interval, FS_Subset
  <2> HIDE DEF fitting
  <2> QED BY <2>1, EndsOf
<1>6. CASE fitting = {}
  <2> HIDE DEF fitting
  <2>1. StepFor(events) = Day /\ Day = Steps[Len(Steps)]
    BY <1>4, <1>6 DEF Day, Last
  <2> QED BY <1>1, <1>2, <1>3, <2>1 DEF T
<1>7. CASE fitting # {}
  <2>1. PICK i \in DOMAIN Steps : /\ StepFor(events) = Steps[i]
                                 /\ Max(T) - Min(T) < MaxBuckets * Steps[i]
    BY <1>4, <1>5, <1>7
  <2> QED BY <1>1, <1>2, <1>3, <2>1 DEF T
<1> QED BY <1>6, <1>7

\* The division that aligns the slots, for a slot of any width.
LEMMA Aligned ==
  ASSUME NEW step \in Nat \ {0}, NEW t \in Int
  PROVE  /\ t \div step \in Int /\ (t \div step) * step \in Int
         /\ t - (t \div step) * step \in 0..(step - 1)
OBVIOUS

\* How many whole slots fit.
LEMMA Quotients ==
  ASSUME NEW step \in Nat \ {0}, NEW t \in Nat, NEW n \in Nat, t < (n + 1) * step
  PROVE  t \div step \in 0..n
<1> DEFINE q == t \div step
<1>1. q \in Int /\ q * step <= t /\ t < (q + 1) * step
  BY Aligned
<1> HIDE DEF q
<1>2. \A a, b \in Int : a + 1 <= b => (a + 1) * step <= b * step
  OBVIOUS
<1>3. q >= 0
  BY <1>1, <1>2
<1>4. q <= n
  BY <1>1, <1>2
<1> QED BY <1>1, <1>3, <1>4 DEF q

\* Every event falls into a slot of the chart, which has maxBuckets slots, or one
\* more if its first slot begins before the first event, unless days are too short.
LEMMA SlotsCover ==
  ASSUME NEW events, EventList(events), events # {}
  PROVE  /\ SlotCount(events) \in Nat \ {0}
         /\ Span(events) < MaxBuckets * Day => SlotCount(events) <= SlotLimit(events)
         /\ \A e \in events :
              /\ SlotOf(e, events) \in 1..SlotCount(events)
              /\ e.time - (FirstSlot(events) + (SlotOf(e, events) - 1) * StepFor(events))
                   \in 0..(StepFor(events) - 1)
<1> DEFINE min == Min(Times(events))
           max == Max(Times(events))
           step == StepFor(events)
           first == FirstSlot(events)
<1>1. /\ min \in Int /\ max \in Int /\ min <= max /\ step \in Nat \ {0}
      /\ \A e \in events : e.time \in Int /\ min <= e.time /\ e.time <= max
      /\ step = Day \/ max - min < MaxBuckets * step
      /\ MaxBuckets \in Nat \ {0}
  BY StepIsChosen, ActivityConstants DEF EventList
<1>2. first = (min \div step) * step
  BY DEF FirstSlot
<1>3. /\ SlotCount(events) = ((max - first) \div step) + 1
      /\ \A e \in events : SlotOf(e, events) = ((e.time - first) \div step) + 1
  BY DEF SlotCount, SlotOf
<1> HIDE DEF min, max, step, first
<1>4. first \in Int /\ min - first \in 0..(step - 1)
  BY <1>1, <1>2, Aligned
<1> DEFINE last == (max - first) \div step
<1>5. max - first \in Nat
  BY <1>1, <1>4
<1>6. last \in Nat /\ max - first < (last + 1) * step
  <2>1. last \in Int /\ max - first - last * step \in 0..(step - 1) /\ last * step \in Int
    <3>1. PICK t \in Int : t = max - first
      BY <1>5
    <3>2. /\ t \div step \in Int /\ (t \div step) * step \in Int
          /\ t - (t \div step) * step \in 0..(step - 1)
      BY <1>1, Aligned
    <3> QED BY <3>1, <3>2
  <2>2. (last + 1) * step = last * step + step
    BY <1>1, <2>1
  <2>3. last \in Nat
    <3>1. \A a \in Int : a < 0 => (a + 1) * step <= 0
      BY <1>1
    <3>2. (last + 1) * step \in Int
      BY <1>1, <2>1
    <3> QED BY <1>1, <1>5, <2>1, <2>2, <3>1, <3>2
  <2> QED BY <1>1, <1>5, <2>1, <2>2, <2>3
<1>7. ASSUME max - min < MaxBuckets * Day
      PROVE  last + 1 <= MaxBuckets + (IF first = min THEN 0 ELSE 1)
  <2>1. max - min < MaxBuckets * step
    BY <1>1, <1>7
  <2>2. /\ (MaxBuckets + 1) * step = MaxBuckets * step + step /\ MaxBuckets * step \in Int
        /\ MaxBuckets - 1 \in Nat /\ (MaxBuckets - 1) + 1 = MaxBuckets
    BY <1>1
  <2>3. CASE first = min
    <3>1. max - first < ((MaxBuckets - 1) + 1) * step
      BY <2>1, <2>2, <2>3
    <3>2. last \in 0..(MaxBuckets - 1)
      BY <1>1, <1>5, <2>2, <3>1, Quotients
    <3> QED BY <1>1, <2>3, <3>2
  <2>4. CASE first # min
    <3>1. max - first < (MaxBuckets + 1) * step
      BY <1>1, <1>4, <2>1, <2>2
    <3>2. last \in 0..MaxBuckets
      BY <1>1, <1>5, <3>1, Quotients
    <3> QED BY <1>1, <2>4, <3>2
  <2> QED BY <2>3, <2>4
<1> HIDE DEF last
<1>8. ASSUME NEW e \in events
      PROVE  /\ (e.time - first) \div step \in 0..last
             /\ e.time - (first + ((e.time - first) \div step) * step) \in 0..(step - 1)
  <2>1. e.time - first \in Nat /\ e.time - first < (last + 1) * step
    <3>1. (last + 1) * step \in Int
      BY <1>1, <1>6
    <3> QED BY <1>1, <1>4, <1>6, <3>1
  <2>2. (e.time - first) \div step \in 0..last
    BY <1>1, <1>6, <2>1, Quotients
  <2> DEFINE q == (e.time - first) \div step
  <2>3. /\ q * step \in Int
        /\ (e.time - first) - q * step \in 0..(step - 1)
    <3>1. PICK t \in Int : t = e.time - first
      BY <2>1
    <3>2. /\ t \div step \in Int /\ (t \div step) * step \in Int
          /\ t - (t \div step) * step \in 0..(step - 1)
      BY <1>1, Aligned
    <3> QED BY <3>1, <3>2
  <2> HIDE DEF q
  <2>4. e.time - (first + q * step) = (e.time - first) - q * step
    BY <1>1, <1>4, <2>3
  <2> QED BY <2>2, <2>3, <2>4 DEF q
<1>9. SlotCount(events) = last + 1
  BY <1>3 DEF last
<1>10. ASSUME NEW e \in events
       PROVE  /\ SlotOf(e, events) \in 1..SlotCount(events)
              /\ e.time - (first + (SlotOf(e, events) - 1) * step) \in 0..(step - 1)
  <2> DEFINE q == (e.time - first) \div step
  <2>1. q \in 0..last /\ SlotOf(e, events) = q + 1
        /\ e.time - (first + q * step) \in 0..(step - 1)
    BY <1>3, <1>8
  <2> HIDE DEF q
  <2>2. SlotOf(e, events) - 1 = q /\ q + 1 \in 1..(last + 1)
    BY <1>6, <2>1
  <2> QED BY <1>9, <2>1, <2>2
<1>11. Span(events) < MaxBuckets * Day => SlotCount(events) <= SlotLimit(events)
  BY <1>7, <1>9 DEF Span, SlotLimit, min, max, first
<1> QED BY <1>1, <1>6, <1>9, <1>10, <1>11 DEF step, first

\* Each result is read alike by the table's tone and by the dialog's pill.
LEMMA PillIsTone ==
  ASSUME NEW words \in SUBSET Words
  PROVE  ResultPill(words) = ResultTone(words)
<1>1. CASE words \intersect {"fail", "error"} # {}
  <2>1. words \notin {{"warn"}, {"warn", "success"}} /\ words # {"success"} /\ words # {}
    BY <1>1
  <2> QED BY <1>1, <2>1 DEF ResultPill, ResultTone
<1>2. CASE words \intersect {"fail", "error"} = {}
  <2>1. words \in {{"warn"}, {"warn", "success"}, {"success"}, {}}
    BY <1>2 DEF Words
  <2> QED BY <1>2, <2>1 DEF ResultPill, ResultTone
<1> QED BY <1>1, <1>2

\* The events of a set that fall into a slot of the chart.
InSlot(E, slot, events) == {e \in E : SlotOf(e, events) = slot}

\* The slots of the chart count every event once, of those that are counted.
LEMMA SlotsAddUp ==
  ASSUME NEW events, EventList(events), events # {}, NEW E \in SUBSET events,
         NEW f \in [1..SlotCount(events) -> Nat],
         \A slot \in 1..SlotCount(events) :
           f[slot] = Cardinality(InSlot(E, slot, events))
  PROVE  SumFunction(f) = Cardinality(E)
<1> DEFINE k == [e \in E |-> SlotOf(e, events)]
<1>1. DOMAIN f = 1..SlotCount(events) /\ f \in [DOMAIN f -> Nat]
  OBVIOUS
<1>2. IsFiniteSet(E) /\ IsFiniteSet(DOMAIN f)
  <2>1. IsFiniteSet(E)
    BY FS_Subset DEF EventList
  <2>2. SlotCount(events) \in Int
    BY SlotsCover
  <2>3. IsFiniteSet(1..SlotCount(events))
    BY <2>2, FS_Interval
  <2> QED BY <1>1, <2>1, <2>3
<1>3. k \in [E -> DOMAIN f]
  BY <1>1, SlotsCover
<1>4. \A slot \in DOMAIN f : f[slot] = Cardinality({e \in E : k[e] = slot})
  <2>1. \A slot \in DOMAIN f : {e \in E : k[e] = slot} = InSlot(E, slot, events)
    BY DEF InSlot
  <2> QED BY <1>1, <2>1
<1> HIDE DEF k
<1> QED BY <1>1, <1>2, <1>3, <1>4, PartsAddUp

\* The counts of a slot are numbers, of events of its own, and no event is counted
\* both as a failure and as a warning.
LEMMA BucketCounts ==
  ASSUME NEW events, EventList(events), NEW slot
  PROVE  /\ Bucket(slot, events).start = FirstSlot(events) + (slot - 1) * StepFor(events)
         /\ Bucket(slot, events).events \in Nat
         /\ Bucket(slot, events).failures \in Nat
         /\ Bucket(slot, events).events
              = Cardinality(InSlot(events, slot, events))
         /\ Bucket(slot, events).failures
              = Cardinality(InSlot({d \in events : IsFailure(d)}, slot, events))
         /\ Other(Bucket(slot, events)) >= 0
<1> DEFINE inSlot == {e \in events : SlotOf(e, events) = slot}
           failures == {e \in inSlot : IsFailure(e)}
           warnings == {e \in inSlot : ~IsFailure(e) /\ IsWarning(e)}
<1>1. Bucket(slot, events) = [start    |-> FirstSlot(events) + (slot - 1) * StepFor(events),
                              events   |-> Cardinality(inSlot),
                              failures |-> Cardinality(failures),
                              warnings |-> Cardinality(warnings)]
  BY DEF Bucket
<1>2. /\ failures = InSlot({d \in events : IsFailure(d)}, slot, events)
      /\ inSlot = InSlot(events, slot, events)
  BY DEF InSlot
<1>3. /\ failures \union warnings \subseteq inSlot
      /\ failures \intersect warnings = {}
  OBVIOUS
<1>4. IsFiniteSet(inSlot) /\ IsFiniteSet(failures) /\ IsFiniteSet(warnings)
  BY FS_Subset DEF EventList
<1> HIDE DEF inSlot, failures, warnings
<1>5. /\ Cardinality(failures \union warnings)
           = Cardinality(failures) + Cardinality(warnings) - Cardinality(failures \intersect warnings)
      /\ Cardinality(failures \union warnings) <= Cardinality(inSlot)
      /\ Cardinality(failures \intersect warnings) = 0
  BY <1>3, <1>4, FS_Union, FS_Subset, FS_EmptySet
<1>6. /\ Cardinality(inSlot) \in Nat /\ Cardinality(failures) \in Nat
      /\ Cardinality(warnings) \in Nat
  BY <1>4, FS_CardinalityType
<1>7. Other(Bucket(slot, events))
        = Cardinality(inSlot) - Cardinality(failures) - Cardinality(warnings)
  BY <1>1 DEF Other
<1>8. Other(Bucket(slot, events)) >= 0
  BY <1>5, <1>6, <1>7
<1> QED BY <1>1, <1>2, <1>6, <1>8

\* The cards of the sources count every event once.
LEMMA CardsAddUp ==
  ASSUME NEW events, EventList(events)
  PROVE  SumFunction([s \in DOMAIN SourceCards(events) |-> SourceCards(events)[s].events])
           = Cardinality(events)
<1> DEFINE sources == {e.source : e \in events}
           f == [s \in sources |-> Cardinality({e \in events : e.source = s})]
           k == [e \in events |-> e.source]
<1>1. /\ DOMAIN SourceCards(events) = sources
      /\ [s \in DOMAIN SourceCards(events) |-> SourceCards(events)[s].events] = f
  BY DEF SourceCards
<1>2. sources = {k[e] : e \in events} /\ DOMAIN k = events
  OBVIOUS
<1>3. IsFiniteSet(events) /\ IsFiniteSet(sources)
  <2> HIDE DEF k, sources
  <2> QED BY <1>2, ImageIsFinite DEF EventList
<1>4. DOMAIN f = sources /\ k \in [events -> sources]
  OBVIOUS
<1>5. \A s \in sources : f[s] = Cardinality({e \in events : k[e] = s}) /\ f[s] \in Nat
  BY <1>3, FS_Subset, FS_CardinalityType
<1>6. f \in [DOMAIN f -> Nat]
  BY <1>4, <1>5
<1> HIDE DEF f, k, sources
<1>7. SumFunction(f) = Cardinality(events)
  BY <1>3, <1>4, <1>5, <1>6, PartsAddUp
<1> QED BY <1>1, <1>7

\* With no event there is no slot and no card, and the counters are 0.
LEMMA NothingAddsUp == ActivityAddsUp({})
<1> DEFINE chart == BuildActivity({})
           cards == SourceCards({})
<1>1. chart = <<>> /\ DOMAIN chart = {}
  BY DEF BuildActivity
<1>2. DOMAIN cards = {}
  BY DEF SourceCards
<1>3. ASSUME NEW f, f = [x \in {} |-> 0]
      PROVE  SumFunction(f) = 0
  <2>1. DOMAIN f = {} /\ f \in [DOMAIN f -> Nat]
    BY <1>3
  <2> DEFINE k == [e \in {} |-> 0]
  <2>2. k \in [{} -> DOMAIN f]
    OBVIOUS
  <2>3. IsFiniteSet({}) /\ Cardinality({}) = 0
    BY FS_EmptySet
  <2> QED BY <2>1, <2>2, <2>3, PartsAddUp
<1>4. /\ [slot \in DOMAIN chart |-> chart[slot].failures] = [x \in {} |-> 0]
      /\ [slot \in DOMAIN chart |-> chart[slot].events] = [x \in {} |-> 0]
      /\ [s \in DOMAIN cards |-> cards[s].events] = [x \in {} |-> 0]
  BY <1>1, <1>2
<1>5. FailureCount({}) = 0
  <2>1. {e \in {} : ResultTone(e.words) = "danger"} = {}
    OBVIOUS
  <2> QED BY <2>1, FS_EmptySet DEF FailureCount
<1>6. /\ SumFunction([slot \in DOMAIN chart |-> chart[slot].failures]) = 0
      /\ SumFunction([slot \in DOMAIN chart |-> chart[slot].events]) = 0
      /\ SumFunction([s \in DOMAIN cards |-> cards[s].events]) = 0
  BY <1>3, <1>4
<1> HIDE DEF cards
<1> QED BY <1>1, <1>5, <1>6 DEF ActivityAddsUp, cards

\* The chart, the cards and the counters of a list with events.
LEMMA EventsAddUp ==
  ASSUME NEW events, EventList(events), events # {}
  PROVE  ActivityAddsUp(events)
<1> DEFINE chart == BuildActivity(events)
           cards == SourceCards(events)
           count == SlotCount(events)
           fails == {e \in events : IsFailure(e)}
<1>1. /\ chart = [slot \in 1..count |-> Bucket(slot, events)]
      /\ DOMAIN chart = 1..count /\ count \in Nat /\ Len(chart) = count
  <2>1. count \in Nat
    BY SlotsCover
  <2>2. chart = [slot \in 1..count |-> Bucket(slot, events)]
    BY DEF BuildActivity
  <2> HIDE DEF count
  <2> QED BY <2>1, <2>2
<1>2. \A slot \in 1..count : chart[slot] = Bucket(slot, events)
  BY <1>1
<1> HIDE DEF chart, count
<1>3. SumFunction([slot \in DOMAIN chart |-> chart[slot].failures]) = FailureCount(events)
  <2> DEFINE f == [slot \in DOMAIN chart |-> chart[slot].failures]
  <2>1. f \in [1..count -> Nat]
    BY <1>1, <1>2, BucketCounts
  <2>2. ASSUME NEW slot \in 1..count
        PROVE  f[slot] = Cardinality(InSlot(fails, slot, events))
    <3>1. f[slot] = Bucket(slot, events).failures
      BY <1>1, <1>2
    <3> QED BY <3>1, BucketCounts
  <2>3. fails \in SUBSET events
    OBVIOUS
  <2> HIDE DEF f
  <2>4. SumFunction(f) = Cardinality(fails)
    <3> HIDE DEF fails
    <3> QED BY <2>1, <2>2, <2>3, SlotsAddUp DEF count
  <2>5. fails = {e \in events : ResultTone(e.words) = "danger"}
    BY DEF IsFailure, ResultTone
  <2> QED BY <2>4, <2>5 DEF FailureCount, f
<1>4. SumFunction([slot \in DOMAIN chart |-> chart[slot].events])
        = SumFunction([s \in DOMAIN cards |-> cards[s].events])
  <2> DEFINE f == [slot \in DOMAIN chart |-> chart[slot].events]
  <2>1. f \in [1..count -> Nat]
    BY <1>1, <1>2, BucketCounts
  <2>2. ASSUME NEW slot \in 1..count
        PROVE  f[slot] = Cardinality(InSlot(events, slot, events))
    <3>1. f[slot] = Bucket(slot, events).events
      BY <1>1, <1>2
    <3> QED BY <3>1, BucketCounts
  <2> HIDE DEF f
  <2>3. SumFunction(f) = Cardinality(events)
    BY <2>1, <2>2, SlotsAddUp DEF count
  <2> QED BY <2>3, CardsAddUp DEF f
<1>5. \A slot \in DOMAIN chart : Other(chart[slot]) >= 0
  BY <1>1, <1>2, BucketCounts
<1>6. ASSUME NEW e \in events
      PROVE  /\ SlotOf(e, events) \in DOMAIN chart
             /\ e.time - chart[SlotOf(e, events)].start \in 0..(StepFor(events) - 1)
             /\ ResultPill(e.words) = ResultTone(e.words)
  <2>1. SlotOf(e, events) \in 1..count
    BY SlotsCover DEF count
  <2>2. chart[SlotOf(e, events)].start
          = FirstSlot(events) + (SlotOf(e, events) - 1) * StepFor(events)
    BY <1>2, <2>1, BucketCounts
  <2>3. e.time - chart[SlotOf(e, events)].start \in 0..(StepFor(events) - 1)
    BY <2>2, SlotsCover
  <2>4. ResultPill(e.words) = ResultTone(e.words)
    BY PillIsTone DEF EventList
  <2> QED BY <1>1, <2>1, <2>3, <2>4
<1>7. Span(events) < MaxBuckets * Day => Len(chart) <= SlotLimit(events)
  BY <1>1, SlotsCover DEF count
<1> HIDE DEF cards
<1> QED BY <1>3, <1>4, <1>5, <1>6, <1>7 DEF ActivityAddsUp, chart, cards

\* The chart, the cards of the sources and the counters agree for every list that
\* a load brings, any widths of the slots and any number of them: no event falls
\* out of the chart, and none is counted twice.
THEOREM ChartsAgree == ViewsSpec => []ChartsAddUp
<1>1. ViewsInv => ChartsAddUp
  <2> SUFFICES ASSUME ViewsInv PROVE ChartsAddUp
    OBVIOUS
  <2>1. CASE listed = {}
    BY <2>1, NothingAddsUp DEF ChartsAddUp
  <2>2. CASE listed # {}
    <3>1. EventList(listed)
      BY <2>2, ViewsConstants DEF ViewsInv, ListInv, EventList
    <3> QED BY <2>2, <3>1, EventsAddUp DEF ChartsAddUp
  <2> QED BY <2>1, <2>2
<1> QED BY <1>1, ViewsInit_Inv, ViewsNext_Inv, PTL DEF ViewsSpec
=============================================================================
