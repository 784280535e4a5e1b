--------------------------- MODULE MCFollowUpMirror ---------------------------
(* Small instances of FollowUpMirror. *)
EXTENDS FollowUpMirror, TLC

\* Follow-ups, leads and requests are interchangeable.
Symmetry == Permutations(FollowUps) \cup Permutations(Leads) \cup Permutations(Requests)
=============================================================================
