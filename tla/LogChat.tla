------------------------------- MODULE LogChat -------------------------------
(***************************************************************************)
(* The conversation of the Assistant view (log-chat.tsx).  One question is *)
(* sent at a time; its answer, or an error, is appended when it arrives.   *)
(* The component stays mounted while another view is shown, so an answer   *)
(* can arrive while it is hidden.                                          *)
(***************************************************************************)
EXTENDS Naturals, Sequences

CONSTANTS
  Questions,    \* what the user can type
  Suggestions,  \* the questions offered while there is no conversation
  NoText,       \* a blank input
  UpdaterCalls, \* how often React calls a state updater: once, in StrictMode up to twice
  MaxAsked      \* bound: questions in a conversation

ASSUME ChatConstants ==
  /\ NoText \notin Questions \union Suggestions
  /\ UpdaterCalls \subseteq Nat \ {0}
  /\ MaxAsked \in Nat

VARIABLES
  messages,     \* the conversation
  question,     \* the input
  pending,
  nextId,       \* identifier of the next message, its React key
  asked,        \* the question of the request in flight, or NoText
  chatShown     \* the Assistant view is the active one

chatVars == <<messages, question, pending, nextId, asked, chatShown>>

Text == Questions \union Suggestions

Message == [id : Nat, role : {"user", "assistant", "error"}, about : Text]

ChatInit ==
  /\ messages = <<>> /\ question = NoText
  /\ pending = FALSE /\ nextId = 0
  /\ asked = NoText
  /\ chatShown \in BOOLEAN

\* The input is disabled while an answer is pending.
TypeQuestion(text) ==
  /\ chatShown /\ ~pending
  /\ question' = text
  /\ UNCHANGED <<messages, pending, nextId, asked, chatShown>>

\* setMessages with an updater that takes the next identifier: when React calls
\* it more than once, the last call counts.
Say(role, about) ==
  \E calls \in UpdaterCalls :
    /\ messages' = Append(messages, [id |-> nextId + (calls - 1), role |-> role, about |-> about])
    /\ nextId' = nextId + calls

\* send up to the request.
Send(text) ==
  /\ text # NoText /\ ~pending
  /\ Len(messages) < 2 * MaxAsked
  /\ question' = NoText
  /\ Say("user", text)
  /\ pending' = TRUE /\ asked' = text
  /\ UNCHANGED chatShown

SubmitQuestion == chatShown /\ Send(question)

\* Suggestions are offered until the first message.
Suggest(text) == chatShown /\ messages = <<>> /\ Send(text)

\* The API answers, or the request fails.
Reply_ErrorStaysPending(role) ==
  /\ asked # NoText
  /\ Say(role, asked)
  /\ pending' = (role = "error") /\ asked' = NoText
  /\ UNCHANGED <<question, chatShown>>

Reply(role) ==
  /\ asked # NoText
  /\ Say(role, asked)
  /\ pending' = FALSE /\ asked' = NoText
  /\ UNCHANGED <<question, chatShown>>

\* Another view hides the conversation, and the Assistant view shows it again.
SwitchView ==
  /\ chatShown' = ~chatShown
  /\ UNCHANGED <<messages, question, pending, nextId, asked>>

ChatNext ==
  \/ \E text \in Questions \union {NoText} : TypeQuestion(text)
  \/ SubmitQuestion
  \/ \E text \in Suggestions : Suggest(text)
  \/ \E role \in {"assistant", "error"} : Reply(role)
  \/ SwitchView

ChatSpec == ChatInit /\ [][ChatNext]_chatVars

\* The type invariant of the conversation.
ChatTypeOK ==
  /\ messages \in Seq(Message)
  /\ question \in Questions \union {NoText}
  /\ pending \in BOOLEAN /\ nextId \in Nat
  /\ asked \in Text \union {NoText}
  /\ chatShown \in BOOLEAN

\* Every question is followed by its own answer or error before the next one,
\* messages never share an identifier, and the input is blocked exactly while
\* the last question has no answer, also when the view is left meanwhile.
AnswersInPlace ==
  /\ \A i, j \in DOMAIN messages : i < j => messages[i].id < messages[j].id
  /\ \A i \in DOMAIN messages :
       /\ messages[i].role = "user" <=> i % 2 = 1
       /\ messages[i].role # "user" => messages[i].about = messages[i - 1].about
  /\ pending <=> Len(messages) % 2 = 1
  /\ pending => asked = messages[Len(messages)].about
  /\ ~pending => asked = NoText
=============================================================================
