------------------------------ MODULE LeadBoard ------------------------------
(***************************************************************************)
(* The CRM board and the leads service behind it.  The board lists the     *)
(* pipeline and its leads together, moves a card one stage to either side, *)
(* and has a drawer that creates a lead with its contact.  Every success   *)
(* lists everything again; while it does, the board shows a spinner in     *)
(* place of all it rendered, the drawer included.                          *)
(*                                                                         *)
(* Other users move and edit the same leads, and the intake of messages    *)
(* makes contacts of its own.                                              *)
(***************************************************************************)
EXTENDS Naturals, Sequences, SequencesExt, FiniteSets

CONSTANTS
    Leads,          \* ids the server can give
    Calls,          \* the moves and creations one user asks for, each used once
    LastStage,      \* the stages are 1..LastStage, in the order of the board
    PageSize,       \* leads the board asks for (100 in the code)
    Amounts,        \* ways to fill in the value: a subset of AmountForms
    Phones,         \* what is typed as a phone: a subset of Spellings, or None
    MaxOthers,      \* bound on the writes of other users
    MaxVisits,      \* bound on the visits to the page
    None

AmountForms == {"empty", "digits", "comma", "thousands", "thousands_comma"}
Numbers == {p[1] : p \in Phones \ {None}}

VARIABLES
    lead,           \* the row of every id, None while it is not given
    recent,         \* the leads, the last one written first
    contacts,       \* the phones of the contacts, unique as the index has it
    behind,         \* somebody else wrote since this page last read
    others,         \* writes of other users so far
    visit,          \* which visit to the page this is
    state,          \* loading | ready | error
    shown,          \* the cards, in the order listed
    fetch,          \* the listing this page waits for
    movingId,
    drawerOpen,
    form,           \* what is typed in the drawer
    submitting,
    call            \* what has become of each move and creation

server == <<lead, recent, contacts>>
page == <<state, shown, fetch>>
drawer == <<drawerOpen, form, submitting>>
vars == <<server, behind, others, visit, page, movingId, drawer, call>>

-----------------------------------------------------------------------------
Stages == 1 .. LastStage
Stored == {l \in Leads : lead[l] # None}

NoCall == [kind |-> "none", server |-> "none", waiting |-> FALSE,
           lead |-> None, from |-> 0, to |-> 0, form |-> None,
           visit |-> 0, mounted |-> FALSE]
Over == [NoCall EXCEPT !.kind = "over"]
NoFetch == [phase |-> "none", rows |-> <<>>]
Asked == [phase |-> "sent", rows |-> <<>>]

(* stageId defaults to the first column.                                   *)
EMPTY == [named |-> FALSE, amount |-> "empty", phone |-> None, stage |-> 1]
Forms == [named : BOOLEAN, amount : Amounts, phone : Phones, stage : Stages]

Row == [stage : Stages, cents : {None, 150, 150000}, typed : Amounts]
Card == [id : Leads, stage : Stages]
Call == [kind : {"none", "move", "create", "over"},
         server : {"none", "sent", "done", "refused"}, waiting : BOOLEAN,
         lead : Leads \cup {None}, from : 0 .. LastStage, to : 0 .. LastStage,
         form : Forms \cup {None}, visit : 0 .. MaxVisits, mounted : BOOLEAN]

LeadBoardAssumption ==
    /\ LastStage \in Nat \ {0} /\ PageSize \in Nat \ {0}
    /\ MaxOthers \in Nat /\ MaxVisits \in Nat \ {0}
    /\ "empty" \in Amounts /\ Amounts \subseteq AmountForms
    /\ None \in Phones
    /\ IsFiniteSet(Leads)
    /\ None \notin Leads \cup Calls \cup Row \cup Forms

(* 1500 reais written in each way, in cents as pt-BR reads it.             *)
Meant(a) == IF a = "empty" THEN None ELSE 150000

(* The first comma becomes a point and Number reads the rest: a point that *)
(* groups thousands is a decimal one, and with two of them the result is   *)
(* NaN, which the body of the request carries as null.                     *)
amountCents(a) ==
    CASE a \in {"empty", "thousands_comma"} -> None
      [] a \in {"digits", "comma"} -> 150000
      [] a = "thousands" -> 150

(* The page of leads the server lists: the last written ones.              *)
Listing ==
    LET rows == SubSeq(recent, 1, IF Len(recent) < PageSize THEN Len(recent) ELSE PageSize)
    IN  [i \in 1 .. Len(rows) |-> [id |-> rows[i], stage |-> lead[rows[i]].stage]]

(* l is written, which makes it the last one updated.                      *)
Written(l) ==
    <<l>> \o IF l \in ToSet(recent)
             THEN RemoveAt(recent, CHOOSE i \in DOMAIN recent : recent[i] = l)
             ELSE recent

InFlight(c) == call[c].waiting
OfThisPage(c) == InFlight(c) /\ call[c].visit = visit

-----------------------------------------------------------------------------
Init ==
    /\ \E S \in SUBSET Leads :
         /\ Cardinality(S) = 2
         /\ recent = SetToSeq(S)
         /\ lead = [l \in Leads |->
                      IF l \in S THEN [stage |-> 1, cents |-> None, typed |-> "empty"]
                      ELSE None]
    /\ contacts = {} /\ behind = FALSE /\ others = 0
    /\ visit = 1 /\ state = "loading" /\ shown = <<>> /\ fetch = Asked
    /\ movingId = None /\ drawerOpen = FALSE /\ form = EMPTY /\ submitting = FALSE
    /\ call = [c \in Calls |-> NoCall]

\* Mutant: what was asked before the reload is still waited for.
reloadMutant ==
    /\ state' = "loading"
    /\ fetch' = IF fetch = NoFetch THEN Asked ELSE fetch
    /\ UNCHANGED shown

\* Mutant: the cards stay while they are listed again.
reloadInPlaceMutant == fetch' = Asked /\ UNCHANGED <<state, shown>>

(* The previous listing is aborted, a new one is asked for.                *)
reload == state' = "loading" /\ fetch' = Asked /\ UNCHANGED shown

(* The cards are rendered no more, and the drawer with them.               *)
Unmounted(f) == [c \in Calls |-> [f[c] EXCEPT !.mounted = FALSE]]

ServerLists ==
    /\ fetch.phase = "sent"
    /\ fetch' = [phase |-> "read", rows |-> Listing]
    /\ behind' = FALSE
    /\ UNCHANGED <<server, others, visit, state, shown, movingId, drawer, call>>

(* The board is rendered again and mounts a new drawer, open if the old    *)
(* one was.                                                                *)
ListingArrives ==
    /\ fetch.phase = "read"
    /\ state' = "ready" /\ shown' = fetch.rows /\ fetch' = NoFetch
    /\ form' = EMPTY /\ submitting' = FALSE
    /\ UNCHANGED <<server, behind, others, visit, movingId, drawerOpen, call>>

ListingFails ==
    /\ fetch # NoFetch
    /\ state' = "error" /\ fetch' = NoFetch
    /\ UNCHANGED <<server, behind, others, visit, shown, movingId, drawer, call>>

Retry ==
    /\ state = "error" /\ reload
    /\ UNCHANGED <<server, behind, others, visit, movingId, drawer, call>>

(* The user goes to another page and comes back: nothing of this one is    *)
(* left but the calls on their way.                                        *)
Revisit ==
    /\ visit < MaxVisits /\ visit' = visit + 1
    /\ state' = "loading" /\ shown' = <<>> /\ fetch' = Asked
    /\ movingId' = None /\ drawerOpen' = FALSE /\ form' = EMPTY /\ submitting' = FALSE
    /\ call' = Unmounted(call)
    /\ UNCHANGED <<server, behind, others>>

-----------------------------------------------------------------------------
\* The drawer covers the board: a card is moved while it is closed.

(* The button of a card, one stage to the left or to the right of the one  *)
(* the card shows.                                                         *)
handleMove(c, card, direction) ==
    /\ state = "ready" /\ ~drawerOpen /\ call[c] = NoCall
    /\ movingId # card.id
    /\ card.stage + direction \in Stages
    /\ movingId' = card.id
    /\ call' = [call EXCEPT ![c] =
                  [NoCall EXCEPT !.kind = "move", !.server = "sent", !.waiting = TRUE,
                                 !.lead = card.id, !.from = card.stage,
                                 !.to = card.stage + direction, !.visit = visit]]
    /\ UNCHANGED <<server, behind, others, visit, page, drawer>>

OpenDrawer ==
    /\ state = "ready" /\ ~drawerOpen
    /\ drawerOpen' = TRUE /\ form' = EMPTY
    /\ UNCHANGED <<server, behind, others, visit, page, movingId, submitting, call>>

(* Escape, the scrim and the cross work during a submit too.               *)
CloseDrawer ==
    /\ state = "ready" /\ drawerOpen
    /\ drawerOpen' = FALSE
    /\ UNCHANGED <<server, behind, others, visit, page, movingId, form, submitting, call>>

Typing ==
    /\ state = "ready" /\ drawerOpen /\ ~submitting
    /\ \E f \in Forms : f.named /\ form' = f
    /\ UNCHANGED <<server, behind, others, visit, page, movingId, drawerOpen, submitting, call>>

\* Mutant: the button is not disabled while the answer is awaited.
handleSubmitMutant(c) ==
    /\ state = "ready" /\ drawerOpen
    /\ form.named /\ call[c] = NoCall
    /\ submitting' = FALSE
    /\ call' = [call EXCEPT ![c] =
                  [NoCall EXCEPT !.kind = "create", !.server = "sent", !.waiting = TRUE,
                                 !.to = form.stage, !.form = form, !.visit = visit,
                                 !.mounted = TRUE]]
    /\ UNCHANGED <<server, behind, others, visit, page, movingId, drawerOpen, form>>

(* Without a name nothing is sent.                                         *)
handleSubmit(c) ==
    /\ state = "ready" /\ drawerOpen /\ ~submitting
    /\ form.named /\ call[c] = NoCall
    /\ submitting' = TRUE
    /\ call' = [call EXCEPT ![c] =
                  [NoCall EXCEPT !.kind = "create", !.server = "sent", !.waiting = TRUE,
                                 !.to = form.stage, !.form = form, !.visit = visit,
                                 !.mounted = TRUE]]
    /\ UNCHANGED <<server, behind, others, visit, page, movingId, drawerOpen, form>>

-----------------------------------------------------------------------------
(* A write of a call whose page is gone is somebody else's to this page.   *)
Behind(c) == behind' = (behind \/ ~OfThisPage(c))

moveStage(c) ==
    /\ call[c].kind = "move" /\ call[c].server = "sent"
    /\ lead' = [lead EXCEPT ![call[c].lead].stage = call[c].to]
    /\ recent' = Written(call[c].lead)
    /\ call' = [call EXCEPT ![c].server = "done"]
    /\ Behind(c)
    /\ UNCHANGED <<contacts, others, visit, page, movingId, drawer>>

(* A lead gets a contact of its own, whose phone is the text that was      *)
(* typed; a phone that is taken fails the transaction.                     *)
create(c) ==
    LET f == call[c].form IN
    /\ call[c].kind = "create" /\ call[c].server = "sent"
    /\ f.phone = None \/ f.phone \notin contacts
    /\ contacts' = contacts \cup ({f.phone} \ {None})
    /\ \E l \in Leads \ Stored :
         /\ lead' = [lead EXCEPT ![l] = [stage |-> f.stage, cents |-> amountCents(f.amount),
                                         typed |-> f.amount]]
         /\ recent' = Written(l)
    /\ call' = [call EXCEPT ![c].server = "done"]
    /\ Behind(c)
    /\ UNCHANGED <<others, visit, page, movingId, drawer>>

(* Refused: no right to it, no such lead or stage, a phone already taken,  *)
(* a connection that breaks before the server is reached.                  *)
ServerRefuses(c) ==
    /\ call[c].server = "sent"
    /\ call' = [call EXCEPT ![c].server = "refused"]
    /\ UNCHANGED <<server, behind, others, visit, page, movingId, drawer>>

(* Another user moves a lead to any stage, or changes another column.      *)
OthersWrite(l) ==
    /\ others < MaxOthers /\ others' = others + 1
    /\ l \in Stored /\ \E s \in Stages : lead' = [lead EXCEPT ![l].stage = s]
    /\ recent' = Written(l) /\ behind' = TRUE
    /\ UNCHANGED <<contacts, visit, page, movingId, drawer, call>>

(* A message from n reuses the contact with its number or makes one.       *)
resolveOrCreateContact(n) ==
    /\ others < MaxOthers /\ others' = others + 1
    /\ contacts' = contacts \cup {<<n, "e164">>}
    /\ UNCHANGED <<lead, recent, behind, visit, page, movingId, drawer, call>>

-----------------------------------------------------------------------------
\* Mutant: the button comes back only after a success.
EndOfMoveMutant(c) ==
    IF call[c].server = "done" THEN movingId' = None /\ reload
    ELSE UNCHANGED <<movingId, page>>

(* Whichever move ends, its `finally` frees the only card that is marked.  *)
EndOfMove(c) ==
    /\ movingId' = None
    /\ IF call[c].server = "done" THEN reload ELSE UNCHANGED page

MoveAnswers(c) ==
    /\ call[c].kind = "move" /\ call[c].server \in {"done", "refused"} /\ OfThisPage(c)
    /\ EndOfMove(c)
    /\ call' = LET f == [call EXCEPT ![c] = Over]
               IN  IF call[c].server = "done" THEN Unmounted(f) ELSE f
    /\ UNCHANGED <<server, behind, others, visit, drawer>>

(* The page closes the drawer it has now and lists again; a failure goes   *)
(* to the drawer that sent it, if it is still mounted.                     *)
CreateAnswers(c) ==
    /\ call[c].kind = "create" /\ call[c].server \in {"done", "refused"} /\ OfThisPage(c)
    /\ IF call[c].server = "done"
       THEN /\ drawerOpen' = FALSE /\ reload
            /\ call' = Unmounted([call EXCEPT ![c] = Over])
            /\ UNCHANGED submitting
       ELSE /\ submitting' = (submitting /\ ~call[c].mounted)
            /\ call' = [call EXCEPT ![c] = Over]
            /\ UNCHANGED <<page, drawerOpen>>
    /\ UNCHANGED <<server, behind, others, visit, movingId, form>>

Next ==
    \/ ServerLists \/ ListingArrives \/ ListingFails \/ Retry \/ Revisit
    \/ OpenDrawer \/ CloseDrawer \/ Typing
    \/ \E c \in Calls :
         \/ \E i \in DOMAIN shown, d \in {1, -1} : handleMove(c, shown[i], d)
         \/ handleSubmit(c)
         \/ moveStage(c) \/ create(c) \/ ServerRefuses(c)
         \/ MoveAnswers(c) \/ CreateAnswers(c)
    \/ \E l \in Leads : OthersWrite(l)
    \/ \E n \in Numbers : resolveOrCreateContact(n)

Spec == Init /\ [][Next]_vars

-----------------------------------------------------------------------------
(* Every variable keeps to its values; a listing is awaited exactly while  *)
(* the spinner shows, and the leads listed are the stored ones.            *)
TypeOK ==
    /\ lead \in [Leads -> {None} \cup Row]
    /\ recent \in Seq(Leads) /\ ToSet(recent) = Stored /\ IsInjective(recent)
    /\ contacts \subseteq Phones \cup {<<n, "e164">> : n \in Numbers}
    /\ behind \in BOOLEAN /\ others \in 0 .. MaxOthers /\ visit \in 1 .. MaxVisits
    /\ shown \in Seq(Card) /\ fetch \in [phase : {"none", "sent", "read"}, rows : Seq(Card)]
    /\ state \in {"loading", "ready", "error"} /\ (state = "loading") = (fetch # NoFetch)
    /\ movingId \in Leads \cup {None}
    /\ drawerOpen \in BOOLEAN /\ form \in Forms /\ submitting \in BOOLEAN
    /\ call \in [Calls -> Call]

(* A board at rest shows the leads as the server has them: when no listing *)
(* and no call of this page is awaited and nobody else wrote since the     *)
(* page read, each card is at its stage.  It breaks when a listing read    *)
(* before a move answers after it, or when an overtaken one is kept.       *)
QuietIsFresh ==
    state = "ready" /\ ~behind /\ (\A c \in Calls : ~OfThisPage(c)) => shown = Listing

(* A card that is kept from moving has a move under way that will free it. *)
(* One mark serves all the cards, and every move that ends takes it away.  *)
BusyCardIsFreed ==
    movingId # None =>
        \E c \in Calls : OfThisPage(c) /\ call[c].kind = "move" /\ call[c].lead = movingId

(* A drawer sends its form once: while the answer is awaited the same      *)
(* drawer, closed and opened again included, sends no other.               *)
WaitsForACreate ==
    \A c, d \in Calls : call[c].mounted /\ call[d].mounted => c = d

(* The button says "Mover ... para a próxima etapa": a move takes the lead *)
(* to a stage beside the one it is at.  The board sends the stage beside   *)
(* the one it shows.                                                       *)
MovesToTheStageBeside ==
    [][\A c \in Calls : moveStage(c) =>
         LET l == call[c].lead IN
         IF call[c].to > call[c].from THEN lead'[l].stage = lead[l].stage + 1
         ELSE lead'[l].stage = lead[l].stage - 1]_vars

(* "Reset when opened": a drawer that stays open keeps what is typed in    *)
(* it.  The answer of a move that was under way when it was opened mounts  *)
(* it anew.                                                                *)
ResetWhenOpened == [][form.named /\ drawerOpen /\ drawerOpen' => form'.named]_vars

(* The value is written as the field shows it, "0,00": the lead is stored  *)
(* with the amount that was typed.                                         *)
AmountAsTyped == \A l \in Stored : lead[l].cents = Meant(lead[l].typed)

(* A phone has one contact: the column is the E.164 form, which is how a   *)
(* message finds the contact of its sender.                                *)
OneContactPerNumber == \A p, q \in contacts : p[1] = q[1] => p = q
=============================================================================
