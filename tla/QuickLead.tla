------------------------------ MODULE QuickLead ------------------------------
(***************************************************************************)
(* Registering a client in the middle of another form.  The host, the      *)
(* drawer of an event or of a follow-up, has a select of leads whose first *)
(* option opens a second drawer; when the lead it posts is created, the    *)
(* host lists it and selects it.                                           *)
(*                                                                         *)
(* Both drawers render nothing when closed.  The host stays mounted, and   *)
(* keeps its state, from one opening to the next; the quick drawer is part *)
(* of what it renders and is mounted anew with every opening of the host.  *)
(***************************************************************************)
EXTENDS Naturals, Sequences, SequencesExt, FiniteSets

CONSTANTS
    Leads,          \* ids the server can give
    Posts,          \* the POSTs of new leads, each used once
    MaxOpenings,    \* bound on the openings of the host
    None

QuickLeadAssumption ==
    /\ None \notin Leads /\ IsFiniteSet(Leads)
    /\ MaxOpenings \in Nat

VARIABLES
    stored,         \* the leads the server has
    links,          \* the lead of every form that was sent
    opening,        \* which opening of the host this is, counting from 1
    open,           \* whether the host is open
    leadId,         \* form.leadId of the host
    leads,          \* the options of the select
    listing,        \* the list request of this opening
    quickLeadOpen,
    submitting,     \* of the quick drawer
    post            \* what has become of each POST

host == <<opening, open, leadId, leads, listing>>
quick == <<quickLeadOpen, submitting>>
vars == <<stored, links, host, quick, post>>

-----------------------------------------------------------------------------
NoListing == [phase |-> "none", rows |-> <<>>]
NoPost == [server |-> "none", client |-> "none", from |-> 0, lead |-> None]

\* Mutant: a lead that the list already brought is added again.
mergeCreatedLeadMutant(current, created) == <<created>> \o current

mergeCreatedLead(current, created) ==
    IF created \in ToSet(current) THEN current ELSE <<created>> \o current

Waiting(p) == post[p].client = "waiting"

(* The quick drawer that is mounted now is the one that sent p.            *)
IsMounted(p) == open /\ post[p].from = opening

-----------------------------------------------------------------------------
Init ==
    /\ stored \in {S \in SUBSET Leads : Cardinality(S) <= 1}
    /\ links = {} /\ opening = 0 /\ open = FALSE /\ leadId = None
    /\ leads = <<>> /\ listing = NoListing
    /\ quickLeadOpen = FALSE /\ submitting = FALSE
    /\ post = [p \in Posts |-> NoPost]

(* The host opens on a new form, or on an item that has a lead: the form   *)
(* is filled, the list is asked for, and the quick drawer is closed.       *)
OpenHost ==
    /\ ~open /\ opening < MaxOpenings
    /\ open' = TRUE /\ opening' = opening + 1
    /\ \E l \in stored \cup {None} : leadId' = l
    /\ listing' = [phase |-> "sent", rows |-> <<>>]
    /\ quickLeadOpen' = FALSE /\ submitting' = FALSE
    /\ UNCHANGED <<stored, links, leads, post>>

\* Mutant: the effect of the list has no cleanup.
ShutHostMutant ==
    /\ open' = FALSE /\ submitting' = FALSE
    /\ UNCHANGED <<opening, leadId, leads, listing, quickLeadOpen>>

(* The list that is on its way is ignored from now on.                     *)
ShutHost ==
    /\ open' = FALSE /\ listing' = NoListing /\ submitting' = FALSE
    /\ UNCHANGED <<opening, leadId, leads, quickLeadOpen>>

(* Escape reaches the listeners of both drawers, and a click on the scrim  *)
(* of the quick drawer bubbles to the one of the host: with the quick      *)
(* drawer open too, the host closes.                                       *)
CloseHost == open /\ ShutHost /\ UNCHANGED <<stored, links, post>>

ServerLists ==
    /\ listing.phase = "sent"
    /\ listing' = [phase |-> "read", rows |-> SetToSeq(stored)]
    /\ UNCHANGED <<stored, links, opening, open, leadId, leads, quick, post>>

(* setLeads with the answer, or with nothing when it failed.               *)
LeadsArrive ==
    /\ listing.phase # "none"
    /\ leads' \in {<<>>} \cup IF listing.phase = "read" THEN {listing.rows} ELSE {}
    /\ listing' = NoListing
    /\ UNCHANGED <<stored, links, opening, open, leadId, quick, post>>

-----------------------------------------------------------------------------
InHost == open /\ ~quickLeadOpen

onLeadSelectChange ==
    /\ InHost
    /\ \/ /\ \E l \in ToSet(leads) \cup {None} : leadId' = l
          /\ UNCHANGED quickLeadOpen
       \/ quickLeadOpen' = TRUE /\ UNCHANGED leadId
    /\ UNCHANGED <<stored, links, opening, open, leads, listing, submitting, post>>

(* The form is saved and the page closes the host.                         *)
SaveHost ==
    /\ InHost /\ ShutHost
    /\ links' = links \cup {leadId}
    /\ UNCHANGED <<stored, post>>

InQuick == open /\ quickLeadOpen

(* The button in the corner works during a POST too.                       *)
CloseQuick ==
    /\ InQuick
    /\ quickLeadOpen' = FALSE
    /\ UNCHANGED <<stored, links, host, submitting, post>>

(* The name is filled in and the button is not disabled.                   *)
handleSubmit(p) ==
    /\ InQuick /\ ~submitting
    /\ post[p] = NoPost
    /\ post' = [post EXCEPT ![p] = [server |-> "sent", client |-> "waiting",
                                     from |-> opening, lead |-> None]]
    /\ submitting' = TRUE
    /\ UNCHANGED <<stored, links, host, quickLeadOpen>>

ServerCreates(p) ==
    /\ post[p].server = "sent"
    /\ \E l \in Leads \ stored :
         /\ stored' = stored \cup {l}
         /\ post' = [post EXCEPT ![p].server = "created", ![p].lead = l]
    /\ UNCHANGED <<links, host, quick>>

ServerRefuses(p) ==
    /\ post[p].server = "sent"
    /\ post' = [post EXCEPT ![p].server = "refused"]
    /\ UNCHANGED <<stored, links, host, quick>>

\* Mutant: the body of an error is taken for a lead.
AnswerMutant(p) == IF post[p].server = "refused" THEN Leads \ stored ELSE {}

(* The lead that arrives with the answer, if it is a success.              *)
Answer(p) == IF post[p].server = "created" THEN {post[p].lead} ELSE {}

(* handleQuickLeadCreated sets the state of the host whatever the host is  *)
(* showing by now.  The quick drawer does not take back `submitting`.      *)
PostSucceeds(p) ==
    /\ Waiting(p)
    /\ \E l \in Answer(p) :
         /\ leads' = mergeCreatedLead(leads, l)
         /\ leadId' = l
    /\ quickLeadOpen' = FALSE
    /\ post' = [post EXCEPT ![p].client = "done"]
    /\ UNCHANGED <<stored, links, opening, open, listing, submitting>>

(* A refusal, or an answer that is lost: the quick drawer stays open.      *)
PostFails(p) ==
    /\ Waiting(p)
    /\ submitting' = IF IsMounted(p) THEN FALSE ELSE submitting
    /\ post' = [post EXCEPT ![p].client = "failed"]
    /\ UNCHANGED <<stored, links, host, quickLeadOpen>>

Next ==
    \/ OpenHost \/ CloseHost \/ ServerLists \/ LeadsArrive
    \/ onLeadSelectChange \/ SaveHost \/ CloseQuick
    \/ \E p \in Posts :
         \/ handleSubmit(p) \/ ServerCreates(p) \/ ServerRefuses(p)
         \/ PostSucceeds(p) \/ PostFails(p)

Spec == Init /\ [][Next]_vars

-----------------------------------------------------------------------------
TypeOK ==
    /\ stored \subseteq Leads /\ links \subseteq Leads \cup {None}
    /\ opening \in 0..MaxOpenings /\ open \in BOOLEAN
    /\ leadId \in Leads \cup {None} /\ leads \in Seq(Leads)
    /\ listing \in [phase : {"none", "sent", "read"}, rows : Seq(Leads)]
    /\ quickLeadOpen \in BOOLEAN /\ submitting \in BOOLEAN
    /\ post \in [Posts -> [server : {"none", "sent", "created", "refused"},
                           client : {"none", "waiting", "done", "failed"},
                           from : 0..MaxOpenings, lead : Leads \cup {None}]]
    /\ listing.phase # "none" => open

(* "No partial relationship is ever created": the forms that are sent, and *)
(* the one that is shown, name leads the server has, or none.              *)
LinkedExists == links \cup {leadId} \subseteq stored \cup {None}

(* A lead is one option of the select, whichever of the list and the       *)
(* answer to its creation comes first.                                     *)
ListedOnce == \A i, j \in DOMAIN leads : leads[i] = leads[j] => i = j

(* A quick drawer that is open and waits for no answer can be used.        *)
QuickIsUsable ==
    InQuick /\ submitting => \E p \in Posts : Waiting(p) /\ IsMounted(p)

(* A lead that was created for the form that is shown, and is selected in  *)
(* it, is among the options.                                               *)
CreatedIsListed ==
    \A p \in Posts :
      /\ open /\ post[p].client = "done"
      /\ post[p].from = opening /\ post[p].lead = leadId
      => leadId \in ToSet(leads)

(* A lead is selected in the form it was registered for, not in the one    *)
(* that was opened since.                                                  *)
SelectedInItsForm ==
    [][\A p \in Posts : PostSucceeds(p) /\ open => post[p].from = opening]_vars
=============================================================================
