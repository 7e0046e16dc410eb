-------------------------- MODULE MCMessageStore --------------------------
(* Small instances of MessageStore. *)
EXTENDS MessageStore, TLC

CONSTANTS ann, bob, tab1, tab2, phone

\* Two people, and one of them (ann) on two sockets at once.
TwoTabs == (tab1 :> ann) @@ (tab2 :> ann) @@ (phone :> bob)
=============================================================================
