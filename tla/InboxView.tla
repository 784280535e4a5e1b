------------------------------- MODULE InboxView -------------------------------
(***************************************************************************)
(* The web inbox: the list of conversations, the one that is selected, its *)
(* messages and the composer, with the API behind them.                    *)
(*                                                                         *)
(* A render and its event handlers are one step; effects run after it, so  *)
(* an effect is a step of its own.  An answer arrives at any later time,   *)
(* or fails.  The list is loaded for every search and reload; which        *)
(* conversations it has, and in which order, is the server's business.     *)
(***************************************************************************)
EXTENDS Naturals, Sequences, SequencesExt, FiniteSets

CONSTANTS
    Conversations,
    Texts,          \* what the user may write, each once
    Lists,          \* the pages of conversations the server may answer
    MaxFetches,     \* bound of the loads of messages
    MaxMessages,    \* bound of the messages of a conversation
    None

InboxAssumption ==
    /\ None \notin Conversations \cup Texts
    /\ Lists \subseteq Seq(Conversations)
    /\ {MaxFetches, MaxMessages} \subseteq Nat

VARIABLES
    thread,       \* thread[c]: the messages the server has
    items,        \* conversations.data.items
    selectedId,
    messages,     \* the resource of the messages: see useApiResource
    nonce,        \* how often the messages were reloaded
    fetches,      \* requests for messages that are not answered yet
    composer,     \* the text, and the conversation the user wrote it for
    sending,      \* the request of handleSend
    acknowledged  \* acknowledged[c]: what the user was told is sent

form == <<composer, sending>>
vars == <<thread, items, selectedId, messages, nonce, fetches, form, acknowledged>>

-----------------------------------------------------------------------------
NoText == [text |-> None, for |-> None]
NoSending == [conv |-> None, text |-> None, stored |-> FALSE]

\* The deps of the effect that ran last, and the number of that run.
NoMessages == [state |-> "loading", data |-> <<>>, conv |-> None, reloads |-> 0, run |-> 0]

Init ==
    /\ thread = [c \in Conversations |-> <<>>]
    /\ items = <<>> /\ selectedId = None
    /\ messages = NoMessages
    /\ nonce = 0
    /\ fetches = {}
    /\ composer = NoText /\ sending = NoSending
    /\ acknowledged = [c \in Conversations |-> {}]

\* The selection, or the first conversation when the list has it no more.
resolveSelectedConversation(list, id) ==
    IF id \in ToSet(list) THEN id ELSE IF list # <<>> THEN Head(list) ELSE None

selected == resolveSelectedConversation(items, selectedId)

-----------------------------------------------------------------------------
(* The list and the selection *)

ConversationsLoaded(list) ==
    /\ items' = list
    /\ UNCHANGED <<thread, selectedId, messages, nonce, fetches, form, acknowledged>>

\* The effect that keeps selectedId in step with what is shown.
SyncSelection ==
    /\ selected # None /\ selected # selectedId
    /\ selectedId' = selected
    /\ UNCHANGED <<thread, items, messages, nonce, fetches, form, acknowledged>>

\* The user sees where the text in the composer will go from now on.
selectConversation(c) ==
    /\ c \in ToSet(items)
    /\ selectedId' = c
    /\ composer' = IF composer = NoText THEN composer ELSE [composer EXCEPT !.for = c]
    /\ UNCHANGED <<thread, items, messages, nonce, fetches, sending, acknowledged>>

-----------------------------------------------------------------------------
(* useApiResource, for the messages of the selected conversation *)

DepsChanged ==
    messages.run = 0 \/ messages.conv # selected \/ messages.reloads # nonce

\* The effect: the run before it is no longer active.
LoadMessages ==
    /\ DepsChanged
    /\ messages.run < MaxFetches
    /\ messages' = [messages EXCEPT !.state = "loading", !.conv = selected,
                                    !.reloads = nonce, !.run = @ + 1]
    /\ fetches' = fetches \cup {[run |-> messages.run + 1, conv |-> selected, answer |-> None]}
    /\ UNCHANGED <<thread, items, selectedId, nonce, form, acknowledged>>

\* A message carries the id of its conversation. Nothing is selected: an empty page.
Page(c) ==
    IF c = None THEN <<>>
    ELSE [i \in DOMAIN thread[c] |-> [conversationId |-> c, body |-> thread[c][i]]]

ServerReads(f) ==
    /\ f.answer = None
    /\ fetches' = (fetches \ {f}) \cup {[f EXCEPT !.answer = Page(f.conv)]}
    /\ UNCHANGED <<thread, items, selectedId, messages, nonce, form, acknowledged>>

\* Mutant: whatever arrives is taken.
IsActiveMutant(f) == TRUE

IsActive(f) == f.run = messages.run

\* The answer, or an error of any kind.
FetchEnds(f) ==
    /\ f \in fetches
    /\ fetches' = fetches \ {f}
    /\ \/ /\ f.answer # None /\ IsActive(f)
          /\ messages' = [messages EXCEPT !.state = "ready", !.data = f.answer]
       \/ /\ IsActive(f)
          /\ messages' = [messages EXCEPT !.state = "error"]
       \/ ~IsActive(f) /\ UNCHANGED messages
    /\ UNCHANGED <<thread, items, selectedId, nonce, form, acknowledged>>

\* Mutant: what is loaded is shown.
isMessagesDataForConversationMutant(data, c) == TRUE

isMessagesDataForConversation(data, c) ==
    data = <<>> \/ data[1].conversationId = c

messagesReady ==
    messages.state = "ready" /\ isMessagesDataForConversation(messages.data, selected)

-----------------------------------------------------------------------------
(* The composer *)

Written == {composer.text, sending.text} \cup UNION {ToSet(thread[c]) : c \in Conversations}

\* Mutant: the user may go on writing while the text is sent.
MayWriteMutant == selected # None

\* The textarea is disabled while a text is sent.
MayWrite == selected # None /\ sending = NoSending

Write(text) ==
    /\ MayWrite
    /\ text \notin Written
    /\ composer' = [text |-> text, for |-> selected]
    /\ UNCHANGED <<thread, items, selectedId, messages, nonce, fetches, sending, acknowledged>>

\* Mutant: an empty text is sent.
MaySendMutant == sending = NoSending /\ selected # None
MaySend == sending = NoSending /\ selected # None /\ composer # NoText

\* handleSend, up to the request: the conversation is the one selected now.
handleSend ==
    /\ MaySend
    /\ Len(thread[selected]) < MaxMessages
    /\ sending' = [conv |-> selected, text |-> composer.text, stored |-> FALSE]
    /\ UNCHANGED <<thread, items, selectedId, messages, nonce, fetches, composer, acknowledged>>

ServerStores ==
    /\ sending # NoSending /\ ~sending.stored
    /\ thread' = [thread EXCEPT ![sending.conv] = Append(@, sending.text)]
    /\ sending' = [sending EXCEPT !.stored = TRUE]
    /\ UNCHANGED <<items, selectedId, messages, nonce, fetches, composer, acknowledged>>

\* The composer is emptied and the messages are loaded again.
SendSucceeds ==
    /\ sending.stored
    /\ composer' = NoText
    /\ nonce' = nonce + 1
    /\ acknowledged' = [acknowledged EXCEPT ![sending.conv] = @ \cup {sending.text}]
    /\ sending' = NoSending
    /\ UNCHANGED <<thread, items, selectedId, messages, fetches>>

\* A refusal, or an answer that is lost: the text stays.
SendFails ==
    /\ sending # NoSending
    /\ sending' = NoSending
    /\ UNCHANGED <<thread, items, selectedId, messages, nonce, fetches, composer, acknowledged>>

Next ==
    \/ \E list \in Lists : ConversationsLoaded(list)
    \/ \E c \in Conversations : selectConversation(c)
    \/ SyncSelection \/ LoadMessages
    \/ \E f \in fetches : ServerReads(f) \/ FetchEnds(f)
    \/ \E text \in Texts : Write(text)
    \/ handleSend \/ ServerStores \/ SendSucceeds \/ SendFails

Spec == Init /\ [][Next]_vars

-----------------------------------------------------------------------------
(* Properties *)

Message == [conversationId : Conversations, body : Texts]

\* Every variable has its type.
TypeOK ==
    /\ thread \in [Conversations -> Seq(Texts)]
    /\ items \in Seq(Conversations) /\ selectedId \in Conversations \cup {None}
    /\ messages \in [state : {"loading", "ready", "error"}, data : Seq(Message),
                    conv : Conversations \cup {None}, reloads : 0..nonce, run : 0..MaxFetches]
    /\ nonce \in Nat
    /\ fetches \subseteq [run : 1..messages.run, conv : Conversations \cup {None},
                          answer : {None} \cup Seq(Message)]
    /\ composer = NoText \/ composer \in [text : Texts, for : Conversations]
    /\ sending = NoSending \/ sending \in [conv : Conversations, text : Texts, stored : BOOLEAN]

\* The messages on the screen are those of the conversation it is headed by, however
\* late or out of order they arrive.
ShownBelong ==
    messagesReady => \A i \in DOMAIN messages.data : messages.data[i].conversationId = selected

\* Once the screen has settled it shows every message the user was told is sent.
OwnMessagesAreShown ==
    messagesReady /\ ~DepsChanged /\ selected # None =>
        acknowledged[selected] \subseteq {messages.data[i].body : i \in DOMAIN messages.data}

\* A text leaves the composer only when the server has it.
TypedTextIsNotLost ==
    [][composer # NoText /\ composer' = NoText =>
          \E c \in Conversations : composer.text \in ToSet(thread[c])]_vars

(* What the screen says and the code does not keep *)

\* The text is sent to the conversation under which the user last saw it.
SentToThisConversation ==
    [][sending = NoSending /\ sending' # NoSending => sending'.conv = composer.for]_vars
=============================================================================
