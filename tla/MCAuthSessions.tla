--------------------------- MODULE MCAuthSessions ---------------------------
(* Small instances of AuthSessions. *)
EXTENDS AuthSessions, TLC

Symmetry == Permutations(Tab) \cup Permutations(Call)
=============================================================================
