------------------------ MODULE MCConversationLifecycle ------------------------
(* Two small instances of ConversationLifecycle, one per behaviour: `scene' says which. *)
EXTENDS ConversationLifecycle, TLC

CONSTANTS c1, c2, a, b, g, i1, i2, p1, p2, Pair, TwoCalls

VARIABLE scene

\* Two inbound calls at once, of two messages or of one redelivered, and fewer people.
Race == INSTANCE ConversationLifecycle WITH Users <- Pair, Intakes <- TwoCalls

SceneInit ==
    \/ scene = "agents" /\ Init
    \/ scene = "race" /\ Race!Init

SceneNext ==
    \/ scene = "agents" /\ Next /\ UNCHANGED scene
    \/ scene = "race" /\ Race!Next /\ UNCHANGED scene

SceneSpec == SceneInit /\ [][SceneNext]_<<vars, scene>>

-----------------------------------------------------------------------------

\* Every variable has its type.
SceneTypeOK == IF scene = "agents" THEN TypeOK ELSE Race!TypeOK

\* Agents of a rank are alike, and so are conversations, messages and calls.  No state of
\* one scene has a name that only the other has, so exchanging such a name for another
\* identifies no two states.
Symmetry == Permutations(Conversations) \cup Permutations(Users \ Managers)
            \cup Permutations(Inbounds) \cup Permutations(TwoCalls)
=============================================================================
