---------------------------- MODULE MCAuthSessions ----------------------------
(* Small instances of AuthSessions. *)
EXTENDS AuthSessions, TLC

Symmetry == Permutations(Sessions) \cup Permutations(Tokens) \cup Permutations(Requests)
=============================================================================
