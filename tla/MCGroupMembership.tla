-------------------------- MODULE MCGroupMembership --------------------------
(* Small instances of GroupMembership. *)
EXTENDS GroupMembership, TLC

CONSTANTS ann, bob, cat, r1, r2

\* Two requests in flight are interchangeable.
Requests == Permutations({r1, r2})
=============================================================================
