--------------------------- MODULE MCClientThread ---------------------------
(* Small instances of ClientThread. *)
EXTENDS ClientThread

CONSTANTS k1, k2
=============================================================================
