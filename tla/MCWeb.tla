--------------------------------- MODULE MCWeb ---------------------------------
(* What one user sees of the web app, page by page: the inbox, the inbox of the demo, the *)
(* first page with its summary, and the session of the tab.  They do not know of one       *)
(* another: a behaviour is of one of them, and `part' says which; the variables of the     *)
(* others are None in it, and a tab that is not looked at does not load.                   *)
EXTENDS WebSession

CONSTANTS
    Conversations, c1, c2, Texts, Lists, MaxFetches, MaxMessages,           \* InboxView
    DemoConversations, DemoUsers, Tabs, PageLimit, MaxDemoTime, MaxQueue,   \* DemoInbox
    Leads, FollowUps, Events, LastStage, DayLength, MonthLength, RowsOfACard, Amount,
    MaxTime, MaxWrites, MaxVisits                                           \* Dashboard

VARIABLES
    part,
    thread, items, selectedId, messages, nonce, fetches, composer, sending, acknowledged,
    stored, memory, queue, walk, told,
    lead, followUp, event, writes, visits, reading, partial, moments, state, data,
    now

Inbox == INSTANCE InboxView

Demo ==
    INSTANCE DemoInbox WITH
        Conversations <- DemoConversations, Users <- DemoUsers,
        Limit <- PageLimit, MaxTime <- MaxDemoTime

Summary == INSTANCE Dashboard

ASSUME WebAssumption ==
    /\ Inbox!InboxAssumption /\ Demo!DemoInboxAssumption
    /\ WebSessionAssumption /\ Summary!DashboardAssumption

-----------------------------------------------------------------------------
inbox == <<thread, items, selectedId, messages, nonce, fetches, composer, sending, acknowledged>>
demo == <<stored, memory, queue, walk, told>>
summary == <<lead, followUp, event, writes, visits, reading, partial, moments, state, data>>
allVars == <<part, inbox, demo, vars, summary, now>>

NoInbox ==
    /\ thread = None /\ items = None /\ selectedId = None /\ messages = None /\ nonce = None
    /\ fetches = None /\ composer = None /\ sending = None /\ acknowledged = None
NoDemo == stored = None /\ memory = None /\ queue = None /\ walk = None /\ told = None
NoSummary ==
    /\ lead = None /\ followUp = None /\ event = None /\ writes = None /\ visits = None
    /\ reading = None /\ partial = None /\ moments = None /\ state = None /\ data = None

WebInit ==
    /\ Init
    /\ \/ part = "inbox" /\ Inbox!Init /\ NoDemo /\ NoSummary /\ now = None
       \/ part = "demo" /\ Demo!Init /\ NoInbox /\ NoSummary
       \/ part = "tab" /\ NoInbox /\ NoDemo /\ NoSummary /\ now = None
       \/ part = "summary" /\ Summary!Init /\ NoInbox /\ NoDemo

WebNext ==
    \/ part = "inbox" /\ Inbox!Next /\ UNCHANGED <<part, demo, vars, summary, now>>
    \/ part = "demo" /\ Demo!Next /\ UNCHANGED <<part, inbox, vars, summary>>
    \/ part = "tab" /\ Next /\ UNCHANGED <<part, inbox, demo, summary, now>>
    \/ part = "summary" /\ Summary!Next /\ UNCHANGED <<part, inbox, demo, vars>>

WebSpec == WebInit /\ [][WebNext]_allVars

-----------------------------------------------------------------------------

\* Every variable has its type.
WebTypeOK ==
    /\ part = "inbox" => Inbox!TypeOK
    /\ part = "demo" => Demo!TypeOK
    /\ TypeOK
    /\ part = "summary" => Summary!TypeOK

\* InboxView: the messages on the screen are those of the conversation it is headed by,
\* however late or out of order they arrive.
ShownBelong == part = "inbox" => Inbox!ShownBelong

\* The demo: an action moves a conversation as the API's table allows.
MirrorsTheApi == [][part = "demo" => Demo!ActsLikeTheApi]_allVars

\* DashboardService: the queries of a summary are of different moments.  Whoever writes
\* between them, its funnel is the leads of each stage at one moment since it was asked for:
\* a lead that is being moved is counted once.  When nobody wrote, all is of one database:
\* the funnel is that of now, and a card that is not full has what is still to be done today
\* and nothing else.
SummaryIsCoherent ==
    part = "summary" => Summary!FunnelIsOfOneMoment /\ Summary!QuietSummaryIsExact

(* True of these instances as well; not among the properties of the run *)

\* InboxView: once the screen has settled it shows every message the user was told is sent.
OwnMessagesAreShown == part = "inbox" => Inbox!OwnMessagesAreShown

\* InboxView: a text leaves the composer only when the server has it.
TypedTextIsNotLost == Inbox!TypedTextIsNotLost

\* The demo: a page loaded again finds every action that was answered since the last reset.
KeptOverReload == part = "demo" => Demo!KeptOverReload

\* The demo: nobody attends a conversation that is assigned to no one.
AttendedIsAssigned == part = "demo" => Demo!AttendedIsAssigned

\* The demo: pages of messages fit together without a gap, up to the first message.
PagesFit == part = "demo" => Demo!PagesFit

\* The demo: every list has the conversation with the newest message first.
NewestFirst == part = "demo" => Demo!NewestFirst

MCLists == {<<c1>>, <<c2>>, <<c1, c2>>}
MCAmount == [l \in Leads |-> 2]
=============================================================================
