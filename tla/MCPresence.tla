----------------------------- MODULE MCPresence -----------------------------
(* Small instances of Presence. *)
EXTENDS Presence, TLC

CONSTANTS ann, bob, ann1, ann2, bob1

\* Ann has up to two sockets (two tabs, or one after the other).
TwoTabs == (ann1 :> ann) @@ (ann2 :> ann) @@ (bob1 :> bob)
=============================================================================
