----------------------------- MODULE Retention -----------------------------
(***************************************************************************)
(* Disappearing messages in ONE conversation, and what the sweeper that    *)
(* hard-deletes rows does around it: the timer of update_conversation,     *)
(* expires_at, purge_expired_messages, and sends of ONE sender, retried or  *)
(* quoting another message.                                                *)
(*                                                                         *)
(* Numbering is one step here (MessageStore has allocate_seq); other       *)
(* senders, marks and soft deletion are left out, and so are the reads:    *)
(* those that filter on expires_at (get_history) and those that do not     *)
(* (the list's preview and the quotes of a page).                          *)
(***************************************************************************)
EXTENDS Naturals

CONSTANTS
  Session,   \* concurrent requests of the sender
  Sweeper,   \* run_expiry_sweeper: one per node
  Key,       \* client_msg_id values
  NoKey,     \* client_msg_id is NULL
  Timer,     \* values of disappear_seconds; 0 is off
  MaxTime,   \* bound of the model: the clock stops here
  MaxSeq     \* bound of the model: sends begin only below this number

ASSUME NoKeyAssumption == NoKey \notin Key
ASSUME TimerAssumption == 0 \in Timer /\ Timer \subseteq Nat
ASSUME BoundAssumption == MaxTime \in Nat /\ MaxSeq \in Nat

VARIABLES
  now,       \* the clock the requests and the sweepers read
  disappear, \* conversations.disappear_seconds
  lastSeq,   \* conversations.last_seq
  rows,      \* rows of messages
  pc,
  work,
  held       \* held[w]: the rows sweeper w has selected

vars == <<now, disappear, lastSeq, rows, pc, work, held>>
settings == <<now, disappear>>

\* expires = 0: never. reply = 0: quotes nothing.
Row == [seq : Nat, key : Key \cup {NoKey}, expires : Nat, reply : Nat]
Work == [key : Key \cup {NoKey}, reply : Nat, timer : Nat]
NoWork == [key |-> NoKey, reply |-> 0, timer |-> 0]

TypeOK ==
  /\ now \in Nat
  /\ disappear \in Timer
  /\ lastSeq \in Nat
  /\ rows \subseteq Row
  /\ pc \in [Session -> {"idle", "check", "target", "commit", "reread"}]
  /\ work \in [Session -> Work]
  /\ held \in [Sweeper -> SUBSET Row]

Init ==
  /\ now = 0
  /\ disappear = 0
  /\ lastSeq = 0
  /\ rows = {}
  /\ pc = [s \in Session |-> "idle"]
  /\ work = [s \in Session |-> NoWork]
  /\ held = [w \in Sweeper |-> {}]

\* _not_expired, negated.
Lapsed(r) == r.expires # 0 /\ r.expires <= now

WithKey(k) == {r \in rows : r.key = k}
WithSeq(n) == {r \in rows : r.seq = n}

Goto(s, from, to) ==
  /\ pc[s] = from
  /\ pc' = [pc EXCEPT ![s] = to]

Finish(s, from) ==
  /\ Goto(s, from, "idle")
  /\ work' = [work EXCEPT ![s] = NoWork]

-----------------------------------------------------------------------------
Tick ==
  /\ now < MaxTime
  /\ now' = now + 1
  /\ UNCHANGED <<disappear, lastSeq, rows, pc, work, held>>

\* update_conversation. Rows that are there keep their expires_at. The system
\* message that announces the change never expires; it is left out.
SetTimer(d) ==
  /\ d # disappear
  /\ disappear' = d
  /\ UNCHANGED <<now, lastSeq, rows, pc, work, held>>

-----------------------------------------------------------------------------
\* send_message.

\* load_send_context: the timer as it is now.
SendLoad(s, k, r) ==
  /\ lastSeq < MaxSeq
  /\ Goto(s, "idle", "check")
  /\ work' = [work EXCEPT ![s] = [key |-> k, reply |-> r, timer |-> disappear]]
  /\ UNCHANGED <<settings, lastSeq, rows, held>>

\* The idempotency fast path.
SendFound(s) ==
  /\ work[s].key # NoKey
  /\ WithKey(work[s].key) # {}
  /\ Finish(s, "check")
  /\ UNCHANGED <<settings, lastSeq, rows, held>>

SendNew(s) ==
  /\ work[s].key = NoKey \/ WithKey(work[s].key) = {}
  /\ Goto(s, "check", "target")
  /\ UNCHANGED <<settings, lastSeq, rows, work, held>>

\* The quoted message must exist; whether it has lapsed is not asked.
SendTarget(s) ==
  /\ work[s].reply = 0 \/ WithSeq(work[s].reply) # {}
  /\ Goto(s, "target", "commit")
  /\ UNCHANGED <<settings, lastSeq, rows, work, held>>

\* uq_message_idempotency, and the foreign key reply_to_id.
Clashes(s) == work[s].key # NoKey /\ WithKey(work[s].key) # {}
Dangles(s) == work[s].reply # 0 /\ WithSeq(work[s].reply) = {}

NewRow(s) ==
  [seq |-> lastSeq + 1, key |-> work[s].key, reply |-> work[s].reply,
   expires |-> IF work[s].timer = 0 THEN 0 ELSE now + work[s].timer]

\* allocate_seq, INSERT, COMMIT, and the answer.
SendCommit(s) ==
  /\ ~Clashes(s) /\ ~Dangles(s)
  /\ Finish(s, "commit")
  /\ lastSeq' = lastSeq + 1
  /\ rows' = rows \cup {NewRow(s)}
  /\ UNCHANGED <<settings, held>>

\* Any IntegrityError is taken for a lost race of the same send.
SendConflict(s) ==
  /\ Clashes(s) \/ Dangles(s)
  /\ Goto(s, "commit", "reread")
  /\ UNCHANGED <<settings, lastSeq, rows, work, held>>

\* client_msg_id = NULL selects every message without one, and the first is taken.
SendWinner(s) ==
  /\ Finish(s, "reread")
  /\ WithKey(work[s].key) # {}
  /\ UNCHANGED <<settings, lastSeq, rows, held>>

\* A check refuses the send, nothing is found to answer with, or it fails.
Abort(s) ==
  /\ pc[s] # "idle"
  /\ Finish(s, pc[s])
  /\ UNCHANGED <<settings, lastSeq, rows, held>>

-----------------------------------------------------------------------------
\* purge_expired_messages: select, then delete by id and commit.

SweepSelect(w) ==
  /\ held[w] = {}
  /\ \E r \in rows : Lapsed(r)
  /\ held' = [held EXCEPT ![w] = {r \in rows : Lapsed(r)}]
  /\ UNCHANGED <<settings, lastSeq, rows, pc, work>>

\* Mutant of Unquoted: the foreign key has no ON DELETE.
UnquotedNot(kept, gone) == kept

\* Rows that quote a deleted one lose the quote (ON DELETE SET NULL).
WithoutQuote(r) == [r EXCEPT !.reply = 0]
Unquoted(kept, gone) ==
  {IF \E g \in gone : g.seq = r.reply THEN WithoutQuote(r) ELSE r : r \in kept}

Purge(w, gone) ==
  /\ held[w] # {}
  /\ rows' = Unquoted(rows \ gone, gone)
  /\ held' = [held EXCEPT ![w] = {}]
  /\ UNCHANGED <<settings, lastSeq, pc, work>>

\* Mutants of SweepDelete: no commit; everything up to the newest one selected.
SweepDeleteUncommitted(w) == Purge(w, {})
SweepDeleteUpTo(w) == Purge(w, {r \in rows : \E h \in held[w] : h.seq >= r.seq})

\* The rows are deleted by id.
Selected(w) == {r \in rows : \E h \in held[w] : h.seq = r.seq}
SweepDelete(w) == Purge(w, Selected(w))

\* The iteration fails (the loop goes on) or the node dies.
SweepFails(w) ==
  /\ held[w] # {}
  /\ held' = [held EXCEPT ![w] = {}]
  /\ UNCHANGED <<settings, lastSeq, rows, pc, work>>

Next ==
  \/ Tick
  \/ \E d \in Timer : SetTimer(d)
  \/ \E s \in Session :
       \/ \E k \in Key \cup {NoKey}, r \in 0..lastSeq : SendLoad(s, k, r)
       \/ SendFound(s) \/ SendNew(s) \/ SendTarget(s)
       \/ SendCommit(s) \/ SendConflict(s) \/ SendWinner(s) \/ Abort(s)
  \/ \E w \in Sweeper : SweepSelect(w) \/ SweepDelete(w) \/ SweepFails(w)

Spec == Init /\ [][Next]_vars

\* Some node's loop wakes up again and again (run_expiry_sweeper outlives its
\* failures), and a deletion tried again and again once succeeds.
FairSpec ==
  /\ Spec
  /\ \A w \in Sweeper : WF_vars(SweepSelect(w)) /\ SF_vars(SweepDelete(w))

-----------------------------------------------------------------------------
(***************************************************************************)
(* Properties                                                              *)
(***************************************************************************)

\* Only messages whose time has come are ever deleted, although the sweeper
\* deletes later than it selects and the timer changes in between.
OnlyLapsedGo ==
  \A r \in rows : WithSeq(r.seq)' = {} => Lapsed(r)
PurgesLapsedOnly == [][OnlyLapsedGo]_vars

\* A lapsed message is deleted in the end.
LapsedGoAway ==
  \A n \in 1..MaxSeq :
    (\E r \in WithSeq(n) : Lapsed(r)) ~> WithSeq(n) = {}

\* A message that is there never quotes one that is not: a send checks its
\* target before it stores, and the sweeper may delete the target in between.
QuotesExist == \A r \in rows : r.reply # 0 => WithSeq(r.reply) # {}
=============================================================================
