--------------------------- MODULE MCRedisFanout ---------------------------
(* Small instances of RedisFanout. *)
EXTENDS RedisFanout

CONSTANTS n1, n2, ann, c1, c2

OneUser == [c \in Socket |-> ann]

\* Sticky routing: both sockets of the user are on the first node.
Sticky == {[c \in Socket |-> n1]}
=============================================================================
