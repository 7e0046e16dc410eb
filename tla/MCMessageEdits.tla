--------------------------- MODULE MCMessageEdits ---------------------------
(* Small instances of MessageEdits. *)
EXTENDS MessageEdits

CONSTANT ann

\* Both tabs are the author's, who may do what others may and delete the message.
AllOfAuthor == [t \in Tab |-> ann]
=============================================================================
