--------------------------- MODULE MCLinkPreviews ---------------------------
(* Small instances of LinkPreviews. *)
EXTENDS LinkPreviews, TLC

Symmetry == Permutations(Request) \cup Permutations(Public)
=============================================================================
