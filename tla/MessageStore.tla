--------------------------- MODULE MessageStore ---------------------------
(***************************************************************************)
(* Sequencing, idempotency and the read/delivered marks of ONE             *)
(* conversation, as backend/app/services/message_service.py implements     *)
(* them over the database.                                                 *)
(*                                                                         *)
(* Every request runs in a database session of its own.  A SELECT takes no *)
(* lock, and the ORM objects it fills are not refreshed afterwards, so a   *)
(* handler writes from what it LOADED.  The UPDATE in allocate_seq takes   *)
(* the conversation row (the whole database on SQLite) and keeps it until  *)
(* COMMIT or ROLLBACK; nothing it wrote is visible before.                 *)
(*                                                                         *)
(* Message text, attachments, replies, reactions and membership changes    *)
(* are left out: none of them touches the columns modelled here.  Rows are *)
(* never deleted (no disappearing timer); Retention.tla has the sweeper.   *)
(***************************************************************************)
EXTENDS Naturals, FiniteSets

CONSTANTS
  User,      \* members of the conversation
  Session,   \* concurrent request slots: a WebSocket or a REST call
  Owner,     \* Owner[s] is the authenticated user session s serves
  Key,       \* client_msg_id values
  NoKey,     \* client_msg_id is NULL
  Nobody,    \* the conversation row is not locked
  Named,     \* sequence numbers a request may name; 0 stands for none named
  MaxSeq     \* bound of the model: sends stop at this sequence number

ASSUME OwnerAssumption  == Owner \in [Session -> User]
ASSUME NoKeyAssumption  == NoKey \notin Key
ASSUME NobodyAssumption == Nobody \notin Session
ASSUME NamedAssumption  == Named \subseteq Nat
ASSUME MaxSeqAssumption == MaxSeq \in Nat

VARIABLES
  lastSeq,        \* conversations.last_seq, committed
  messages,       \* rows of messages, committed
  lastRead,       \* conversation_members.last_read_seq
  lastDelivered,  \* conversation_members.last_delivered_seq
  rowLock,        \* session whose open transaction updated the conversation row
  pc,             \* next step of each session's handler
  work,           \* what each handler holds in memory
  acked,          \* history: every (sender, client id, seq) returned to a client
  overlapped      \* history: users two of whose requests were under way at once

vars == <<lastSeq, messages, lastRead, lastDelivered, rowLock, pc, work, acked,
          overlapped>>
store == <<lastSeq, messages, lastRead, lastDelivered>>

Message == [sender : User, key : Key \cup {NoKey}, seq : Nat]

\* key: the client_msg_id sent; seq: the sequence number the handler works on
\* (0: not known yet); read, delivered: the caller's marks as loaded.
Work == [key : Key \cup {NoKey}, seq : Nat, read : Nat, delivered : Nat]

Sending == {"check", "allocate", "commit", "reread", "reply"}
Marking == {"readTarget", "readCommit", "deliveredTarget", "deliveredCommit"}

NoWork == [key |-> NoKey, seq |-> 0, read |-> 0, delivered |-> 0]

TypeOK ==
  /\ lastSeq \in Nat
  /\ messages \subseteq Message
  /\ lastRead \in [User -> Nat]
  /\ lastDelivered \in [User -> Nat]
  /\ rowLock \in Session \cup {Nobody}
  /\ pc \in [Session -> {"idle"} \cup Sending \cup Marking]
  /\ work \in [Session -> Work]
  /\ acked \subseteq Message
  /\ overlapped \subseteq User

Init ==
  /\ lastSeq = 0
  /\ messages = {}
  /\ lastRead = [u \in User |-> 0]
  /\ lastDelivered = [u \in User |-> 0]
  /\ rowLock = Nobody
  /\ pc = [s \in Session |-> "idle"]
  /\ work = [s \in Session |-> NoWork]
  /\ acked = {}
  /\ overlapped = {}

Goto(s, from, to) ==
  /\ pc[s] = from
  /\ pc' = [pc EXCEPT ![s] = to]

\* The handler returns; its database session and everything in it is gone.
Finish(s, from) ==
  /\ Goto(s, from, "idle")
  /\ work' = [work EXCEPT ![s] = NoWork]

\* The caller's row as loaded now, with the request's arguments.
Loaded(s, k, n) ==
  [key |-> k, seq |-> n,
   read |-> lastRead[Owner[s]], delivered |-> lastDelivered[Owner[s]]]

\* A handler that has loaded its caller's row and may still write to it.
Busy(s) == pc[s] \notin {"idle", "reply"}

\* The request of session s begins with the caller's row as it is now; the history
\* notes whether another request of the same person is under way.
Load(s, to, k, n) ==
  /\ Goto(s, "idle", to)
  /\ work' = [work EXCEPT ![s] = Loaded(s, k, n)]
  /\ overlapped' = IF \E t \in Session : Busy(t) /\ Owner[t] = Owner[s]
                     THEN overlapped \cup {Owner[s]} ELSE overlapped
  /\ UNCHANGED <<store, rowLock, acked>>

\* The handlers' memory once session s works on sequence number n.
Holding(s, n) == [work EXCEPT ![s].seq = n]

\* The message a handler is about to store, or has found.
Row(s, n) == [sender |-> Owner[s], key |-> work[s].key, seq |-> n]

\* Rows uq_message_idempotency would clash with. NULL ids never clash.
Existing(s) ==
  {m \in messages : m.sender = Owner[s] /\ m.key = work[s].key /\ m.key # NoKey}

-----------------------------------------------------------------------------
\* send_message, and create_system_message with NoKey.

\* load_send_context. The guard bounds the model: no send begins that could
\* take the conversation past MaxSeq.
SendLoad(s, k) ==
  /\ lastSeq + Cardinality({t \in Session : pc[t] \in Sending}) < MaxSeq
  /\ Load(s, "check", k, 0)

\* The idempotency fast path: a retry is answered with the stored message.
SendFound(s) ==
  /\ Goto(s, "check", "reply")
  /\ \E m \in Existing(s) : work' = Holding(s, m.seq)
  /\ UNCHANGED <<store, rowLock, acked, overlapped>>

SendNew(s) ==
  /\ Existing(s) = {}
  /\ Goto(s, "check", "allocate")
  /\ UNCHANGED <<store, rowLock, work, acked, overlapped>>

\* Mutant of AllocateSeq: SELECT last_seq, then write it back plus one.
AllocateSeqUnlocked(s) ==
  /\ Goto(s, "allocate", "commit")
  /\ work' = Holding(s, lastSeq + 1)
  /\ UNCHANGED <<store, rowLock, acked, overlapped>>

\* One UPDATE ... RETURNING: waits for the row, bumps last_seq inside the
\* transaction and keeps the row until it ends.
AllocateSeq(s) ==
  /\ rowLock = Nobody
  /\ Goto(s, "allocate", "commit")
  /\ rowLock' = s
  /\ work' = Holding(s, lastSeq + 1)
  /\ UNCHANGED <<store, acked, overlapped>>

\* Mutant of SendCommit: no uq_message_idempotency.
SendCommitNotUnique(s) ==
  /\ Goto(s, "commit", "reply")
  /\ lastSeq' = work[s].seq
  /\ messages' = messages \cup {Row(s, work[s].seq)}
  /\ lastRead' = [lastRead EXCEPT ![Owner[s]] = work[s].seq]
  /\ lastDelivered' = [lastDelivered EXCEPT ![Owner[s]] = work[s].seq]
  /\ rowLock' = Nobody
  /\ UNCHANGED <<work, acked, overlapped>>

\* Mutant of SendCommit: the sender's marks stay.
SendCommitKeepsMarks(s) ==
  /\ Existing(s) = {}
  /\ Goto(s, "commit", "reply")
  /\ lastSeq' = work[s].seq
  /\ messages' = messages \cup {Row(s, work[s].seq)}
  /\ rowLock' = Nobody
  /\ UNCHANGED <<lastRead, lastDelivered, work, acked, overlapped>>

\* COMMIT: the bumped counter, the message and the sender's marks together.
SendCommit(s) ==
  /\ Existing(s) = {}
  /\ Goto(s, "commit", "reply")
  /\ lastSeq' = work[s].seq
  /\ messages' = messages \cup {Row(s, work[s].seq)}
  /\ lastRead' = IF work[s].seq > work[s].read
                   THEN [lastRead EXCEPT ![Owner[s]] = work[s].seq] ELSE lastRead
  /\ lastDelivered' = IF work[s].seq > work[s].delivered
                        THEN [lastDelivered EXCEPT ![Owner[s]] = work[s].seq]
                        ELSE lastDelivered
  /\ rowLock' = Nobody
  /\ UNCHANGED <<work, acked, overlapped>>

\* Mutant of SendConflict: answer with the number just allocated.
SendConflictKeepsSeq(s) ==
  /\ Existing(s) # {}
  /\ Goto(s, "commit", "reply")
  /\ rowLock' = Nobody
  /\ UNCHANGED <<store, work, acked, overlapped>>

\* Mutant of SendConflict: the sender's marks were committed before the message.
SendConflictKeepsMarks(s) ==
  /\ Existing(s) # {}
  /\ Goto(s, "commit", "reread")
  /\ lastRead' = [lastRead EXCEPT ![Owner[s]] = work[s].seq]
  /\ rowLock' = Nobody
  /\ UNCHANGED <<lastSeq, messages, lastDelivered, work, acked, overlapped>>

\* IntegrityError: the whole transaction is rolled back, counter included.
SendConflict(s) ==
  /\ Existing(s) # {}
  /\ Goto(s, "commit", "reread")
  /\ rowLock' = Nobody
  /\ UNCHANGED <<store, work, acked, overlapped>>

\* The loser of the race answers with the winner's row.
SendWinner(s) ==
  /\ Goto(s, "reread", "reply")
  /\ \E m \in Existing(s) : work' = Holding(s, m.seq)
  /\ UNCHANGED <<store, rowLock, acked, overlapped>>

\* Mutant of Reply: the acknowledgement carries the conversation's last_seq.
ReplyLastSeq(s) ==
  /\ Finish(s, "reply")
  /\ acked' = acked \cup {Row(s, lastSeq)}
  /\ UNCHANGED <<store, rowLock, overlapped>>

\* message.ack, or the REST response.
Reply(s) ==
  /\ Finish(s, "reply")
  /\ acked' = acked \cup {Row(s, work[s].seq)}
  /\ UNCHANGED <<store, rowLock, overlapped>>

-----------------------------------------------------------------------------
\* mark_read and mark_delivered. A request names a sequence number, which may be
\* that of no message (yet), or none (n = 0), which means "everything".

MarkReadLoad(s, n) == Load(s, "readTarget", NoKey, n)

\* Mutant of ReadTarget: no clamp.
ReadTargetUnclamped(s) == IF work[s].seq = 0 THEN lastSeq ELSE work[s].seq

\* get_conversation, then the default and the clamp.
ReadTarget(s) ==
  IF work[s].seq = 0 \/ work[s].seq > lastSeq THEN lastSeq ELSE work[s].seq

\* Nothing to do: the loaded mark is already there.
MarkReadSkip(s) ==
  /\ ReadTarget(s) <= work[s].read
  /\ Finish(s, "readTarget")
  /\ UNCHANGED <<store, rowLock, acked, overlapped>>

\* Mutant of MarkReadTarget: no comparison with the mark already there.
MarkReadTargetAnyway(s) ==
  /\ Goto(s, "readTarget", "readCommit")
  /\ work' = Holding(s, ReadTarget(s))
  /\ UNCHANGED <<store, rowLock, acked, overlapped>>

MarkReadTarget(s) ==
  /\ ReadTarget(s) > work[s].read
  /\ Goto(s, "readTarget", "readCommit")
  /\ work' = Holding(s, ReadTarget(s))
  /\ UNCHANGED <<store, rowLock, acked, overlapped>>

\* Mutant of MarkReadCommit: reading does not deliver.
MarkReadCommitOnly(s) ==
  /\ Finish(s, "readCommit")
  /\ lastRead' = [lastRead EXCEPT ![Owner[s]] = work[s].seq]
  /\ UNCHANGED <<lastSeq, messages, lastDelivered, rowLock, acked, overlapped>>

\* The ORM writes only the columns whose value differs from the one loaded.
MarkReadCommit(s) ==
  /\ Finish(s, "readCommit")
  /\ lastRead' = [lastRead EXCEPT ![Owner[s]] = work[s].seq]
  /\ lastDelivered' = IF work[s].seq > work[s].delivered
                        THEN [lastDelivered EXCEPT ![Owner[s]] = work[s].seq]
                        ELSE lastDelivered
  /\ UNCHANGED <<lastSeq, messages, rowLock, acked, overlapped>>

MarkDeliveredLoad(s, n) == Load(s, "deliveredTarget", NoKey, n)

\* The default, but no clamp: the number that is named is the one that is stored.
DeliveredTarget(s) == IF work[s].seq = 0 THEN lastSeq ELSE work[s].seq

MarkDeliveredSkip(s) ==
  /\ DeliveredTarget(s) <= work[s].delivered
  /\ Finish(s, "deliveredTarget")
  /\ UNCHANGED <<store, rowLock, acked, overlapped>>

MarkDeliveredTarget(s) ==
  /\ DeliveredTarget(s) > work[s].delivered
  /\ Goto(s, "deliveredTarget", "deliveredCommit")
  /\ work' = Holding(s, DeliveredTarget(s))
  /\ UNCHANGED <<store, rowLock, acked, overlapped>>

MarkDeliveredCommit(s) ==
  /\ Finish(s, "deliveredCommit")
  /\ lastDelivered' = [lastDelivered EXCEPT ![Owner[s]] = work[s].seq]
  /\ UNCHANGED <<lastSeq, messages, lastRead, rowLock, acked, overlapped>>

-----------------------------------------------------------------------------
\* Mutant of Abort: no rollback, the transaction stays open.
AbortNoRollback(s) ==
  /\ pc[s] # "idle"
  /\ Finish(s, pc[s])
  /\ UNCHANGED <<store, rowLock, acked, overlapped>>

\* A handler dies at any await: a database error, a lost connection, the
\* process stopping. Its transaction is rolled back and the client hears nothing.
Abort(s) ==
  /\ pc[s] # "idle"
  /\ Finish(s, pc[s])
  /\ rowLock' = IF rowLock = s THEN Nobody ELSE rowLock
  /\ UNCHANGED <<store, acked, overlapped>>

Start(s) ==
  \/ \E k \in Key \cup {NoKey} : SendLoad(s, k)
  \/ \E n \in Named : MarkReadLoad(s, n)
  \/ \E n \in Named : MarkDeliveredLoad(s, n)

Continue(s) ==
  \/ SendFound(s) \/ SendNew(s)
  \/ AllocateSeq(s)
  \/ SendCommit(s) \/ SendConflict(s) \/ SendWinner(s)
  \/ Reply(s)
  \/ MarkReadSkip(s) \/ MarkReadTarget(s) \/ MarkReadCommit(s)
  \/ MarkDeliveredSkip(s) \/ MarkDeliveredTarget(s) \/ MarkDeliveredCommit(s)

Next == \E s \in Session : Start(s) \/ Continue(s) \/ Abort(s)

Spec == Init /\ [][Next]_vars

\* The event loop runs every ready coroutine, and a database that queues for a
\* row lock (or gives up after busy_timeout, which is Abort) does not let one
\* waiter starve while others come and go.
FairSpec ==
  /\ Spec
  /\ \A s \in Session : WF_vars(Continue(s)) /\ SF_vars(AllocateSeq(s))

-----------------------------------------------------------------------------
(***************************************************************************)
(* What the proofs need besides the properties: the open transaction, and  *)
(* what a handler holds in memory                                          *)
(***************************************************************************)

\* The handler between allocate_seq and COMMIT is the one that has the row.
LockHeld == \A s \in Session : pc[s] = "commit" <=> rowLock = s

\* It holds the next number; a handler about to reply holds a stored row; a read
\* mark is moved to a message that exists, and both forward from where they were
\* loaded.
WorkInLog ==
  \A s \in Session :
    /\ pc[s] = "commit" => work[s].seq = lastSeq + 1
    /\ pc[s] = "reply" => Row(s, work[s].seq) \in messages
    /\ pc[s] = "readCommit" => work[s].seq <= lastSeq /\ work[s].seq > work[s].read
    /\ pc[s] = "deliveredCommit" => work[s].seq > work[s].delivered

\* Two requests of one person that may both write have been noted.
OverlapsNoted ==
  \A s, t \in Session :
    s # t /\ Owner[s] = Owner[t] /\ Busy(s) /\ Busy(t) => Owner[s] \in overlapped

\* The marks that a handler loaded are still current, unless its caller's requests
\* have overlapped.
LoadedIsCurrent ==
  \A s \in Session :
    Busy(s) /\ Owner[s] \notin overlapped =>
      /\ work[s].read = lastRead[Owner[s]]
      /\ work[s].delivered = lastDelivered[Owner[s]]

-----------------------------------------------------------------------------
(***************************************************************************)
(* Properties                                                              *)
(***************************************************************************)

\* Sequence numbers are handed out without reuse and without holes, however
\* senders interleave, collide or die between allocate_seq and COMMIT.
GapFree ==
  /\ \A i \in 1..lastSeq : \E m \in messages : m.seq = i
  /\ \A m \in messages : m.seq \in 1..lastSeq
  /\ \A m, n \in messages : m.seq = n.seq => m = n

\* A client_msg_id is stored at most once per sender, whatever retries over the
\* socket and over REST overlap in send_message.
OncePerKey ==
  \A m, n \in messages :
    m.sender = n.sender /\ m.key = n.key /\ m.key # NoKey => m = n

\* Every acknowledgement names a row that is stored, with the very sequence
\* number it is stored under: no client is told of a rolled back message.
AckedIsStored == acked \subseteq messages

\* A read mark never points past the conversation's last message, whatever number
\* a request names and whatever send is rolled back: the unread count
\* last_seq - last_read_seq is never negative.
ReadWithinLog == \A u \in User : lastRead[u] <= lastSeq

\* "Reading implies delivery" (mark_read): what a member has read was delivered to
\* that member, whatever the requests of others do in between; unless two of the
\* member's own overlapped, and a mark_delivered wrote over a newer mark.
ReadIsDelivered == \A u \in User \ overlapped : lastRead[u] <= lastDelivered[u]

\* "The sender has, by definition, seen their own message" (send_message), with the
\* same exception.
OwnMessagesRead ==
  \A m \in messages : m.sender \notin overlapped => m.seq <= lastRead[m.sender]

\* The high-water marks only advance, with the same exception.
MarksForward ==
  \A u \in User \ overlapped :
    lastRead'[u] >= lastRead[u] /\ lastDelivered'[u] >= lastDelivered[u]

MarksAdvance == [][MarksForward]_vars

\* Every request is answered or fails; in particular nobody waits for the
\* conversation row for ever.
RequestsFinish == \A s \in Session : pc[s] # "idle" ~> pc[s] = "idle"

\* The invariant the proofs carry.
IInv == /\ TypeOK /\ GapFree /\ OncePerKey /\ AckedIsStored /\ ReadWithinLog
        /\ LockHeld /\ WorkInLog

\* And the one about people whose requests have not overlapped.
SerialInv == OverlapsNoted /\ LoadedIsCurrent /\ ReadIsDelivered /\ OwnMessagesRead

\* The stored rows, read in sequence order, as the abstract log.
Logged == [i \in 1..lastSeq |->
             LET m == CHOOSE x \in messages : x.seq = i
             IN  [sender |-> m.sender, key |-> m.key]]

Log == INSTANCE MessageLog WITH log <- Logged

\* The handlers implement the append-only log: each step appends one message,
\* acknowledges a logged one, or changes nothing the log shows.
ImplementsLog == Log!Spec
=============================================================================
