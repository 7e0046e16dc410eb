---------------------------- MODULE MCRetention ----------------------------
(* Small instances of Retention. *)
EXTENDS Retention

CONSTANTS r1, r2, w1, w2, k1
=============================================================================
