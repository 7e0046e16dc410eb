------------------------- MODULE MCConversationList -------------------------
(* Small instances of ConversationList. *)
EXTENDS ConversationList, TLC
=============================================================================
