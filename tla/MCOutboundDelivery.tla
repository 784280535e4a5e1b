------------------------- MODULE MCOutboundDelivery -------------------------
(* Small instances of OutboundDelivery.  The first run takes two, one per behaviour: *)
(* `crew' has the workers there are.                                                 *)
EXTENDS OutboundDelivery, TLC

CONSTANT first
VARIABLE crew

\* All workers and one message, with every attempt the code has; or one worker and several
\* messages, two attempts of each.
CrewInit == Init /\ crew \in {Workers} \cup {{w} : w \in Workers}
CrewNext ==
    /\ Next
    /\ IF crew = Workers
       THEN \A m \in Messages \ {first} : row'[m] = row[m]
       ELSE /\ \A w \in Workers \ crew : job'[w] = job[w]
            /\ \A m \in Messages : row'[m].attempts <= 2
    /\ UNCHANGED crew
CrewSpec == CrewInit /\ [][CrewNext]_<<vars, crew>>

\* Workers and provider ids are interchangeable.
Symmetry == Permutations(Workers) \cup Permutations(Ids)
=============================================================================
