---------------------------- MODULE MessageLog ----------------------------
(***************************************************************************)
(* What the server promises about one conversation, without handlers,      *)
(* transactions or locks: a log to which a (sender, client message id)     *)
(* pair is appended at most once, whose position is the message's sequence *)
(* number, and acknowledgements that name a position already in the log.   *)
(***************************************************************************)
EXTENDS Naturals, Sequences

CONSTANTS
  User,   \* people who may write to the conversation
  Key,    \* client message ids
  NoKey   \* a message without a client id: system messages, bare REST sends

VARIABLES
  log,    \* log[i] is the message with sequence number i
  acked   \* every acknowledgement the server ever returned

vars == <<log, acked>>

Entry == [sender : User, key : Key \cup {NoKey}]

Init ==
  /\ log = <<>>
  /\ acked = {}

\* A new message takes the next position. A client id is used once per sender.
Post(u, k) ==
  /\ k # NoKey => \A i \in DOMAIN log : log[i] # [sender |-> u, key |-> k]
  /\ log' = Append(log, [sender |-> u, key |-> k])
  /\ UNCHANGED acked

\* The server tells a client where one of the logged messages is, as often as
\* the client asks.
Acknowledge(i) ==
  /\ i \in DOMAIN log
  /\ acked' = acked \cup {[sender |-> log[i].sender, key |-> log[i].key, seq |-> i]}
  /\ UNCHANGED log

Next ==
  \/ \E u \in User, k \in Key \cup {NoKey} : Post(u, k)
  \/ \E i \in DOMAIN log : Acknowledge(i)

Spec == Init /\ [][Next]_vars
=============================================================================
