-------------------------- MODULE GroupMembership --------------------------
(***************************************************************************)
(* Who belongs to ONE group conversation and who administers it:           *)
(* add_members and remove_member of                                        *)
(* backend/app/services/conversation_service.py, racing each other and     *)
(* racing send_message, whose permission is a row another handler deletes. *)
(*                                                                         *)
(* Every await of a handler is a step boundary.  A SELECT decides which    *)
(* rows are there now, but a row the session has loaded before keeps the   *)
(* values of that first load (the ORM's identity map).  Writing to a row   *)
(* that is gone fails the whole transaction (StaleDataError); deleting one *)
(* that is gone does not.  Numbering and idempotency are MessageStore's.   *)
(***************************************************************************)
EXTENDS Naturals, FiniteSets

CONSTANTS
  User,
  Creator,   \* the user who created the group
  Session,   \* concurrent REST or WebSocket requests
  MaxSeq,    \* bound of the model: requests begin only below this last_seq
  MaxJoins   \* bound of the model: and nobody is added more often than this

ASSUME CreatorAssumption == Creator \in User
ASSUME BoundAssumption   == MaxSeq \in Nat /\ MaxJoins \in Nat

VARIABLES
  rows,     \* conversation_members, committed
  joins,    \* joins[u]: how many membership rows u ever had
  lastSeq,  \* conversations.last_seq, committed
  event,    \* what the last step shows to the outside
  pc,
  work,
  alone     \* history: a request that no other one has overlapped so far

vars == <<rows, joins, lastSeq, event, pc, work, alone>>

Role == {"admin", "member"}

\* gen tells a row from the row of an earlier membership: the primary key.
MemberRow == [user : User, gen : Nat, role : Role]

\* A text of an author is stored; a message is pushed to an audience; users
\* join with a read mark, or leave; alone: by a request that met no other.
\* Read marks are not kept: nothing else here looks at their values, only at
\* whether the row they are written to exists.
Event == [kind : {"none", "text", "push", "join", "leave"}, who : SUBSET User,
          mark : Nat, alone : BOOLEAN]
Quiet == [kind |-> "none", who |-> {}, mark |-> 0, alone |-> FALSE]

\* seen: the rows the session holds; me, victim, heir: the row it will write
\* (none or one); audience: the members it will push to.
Work == [actor : User, targets : SUBSET User, seen : SUBSET MemberRow,
         me : SUBSET MemberRow, victim : SUBSET MemberRow,
         heir : SUBSET MemberRow, seq : Nat,
         audience : SUBSET User]

Step == {"idle", "removeAuth", "removeTarget", "removeRest", "removeCommit",
         "addLoad", "addCheck", "addCommit", "announce", "announceCommit",
         "announceFanOut", "sendCommit", "sendFanOut"}

TypeOK ==
  /\ rows \subseteq MemberRow
  /\ joins \in [User -> Nat]
  /\ lastSeq \in Nat
  /\ event \in Event
  /\ pc \in [Session -> Step]
  /\ work \in [Session -> Work]
  /\ alone \in [Session -> BOOLEAN]

NoWork == [actor |-> Creator, targets |-> {}, seen |-> {}, me |-> {},
           victim |-> {}, heir |-> {}, seq |-> 0, audience |-> {}]

Same(q, r) == q.user = r.user /\ q.gen = r.gen
Stored(r) == \E q \in rows : Same(q, r)
RowOf(u) == {r \in rows : r.user = u}
MembersNow == {r.user : r \in rows}

\* What a session that holds the rows R gets when its SELECT matches the rows Q.
AsSeen(R, Q) ==
  {q \in Q : \A r \in R : ~Same(r, q)} \cup {r \in R : \E q \in Q : Same(r, q)}

Goto(s, from, to) ==
  /\ pc[s] = from
  /\ pc' = [pc EXCEPT ![s] = to]
  /\ alone' = [t \in Session |->
       pc'[t] = "idle" \/ (alone[t] /\ \A u \in Session \ {t} : pc'[u] = "idle")]

Finish(s, from) ==
  /\ Goto(s, from, "idle")
  /\ work' = [work EXCEPT ![s] = NoWork]

\* The bound on requests.
MayBegin == lastSeq < MaxSeq

-----------------------------------------------------------------------------
\* create_group: the creator is admin, everybody else a member. The system
\* message is a second transaction; when it fails the group is there without it.
Init ==
  /\ \E others \in SUBSET (User \ {Creator}), announced \in {0, 1} :
       /\ others # {}
       /\ rows = {[user |-> Creator, gen |-> 1, role |-> "admin"]}
                   \cup [user : others, gen : {1}, role : {"member"}]
       /\ joins = [u \in User |-> IF u \in others \cup {Creator} THEN 1 ELSE 0]
       /\ lastSeq = announced
  /\ event = Quiet
  /\ pc = [s \in Session |-> "idle"]
  /\ work = [s \in Session |-> NoWork]
  /\ alone = [s \in Session |-> TRUE]

-----------------------------------------------------------------------------
\* remove_member(actor a, user t); a member who leaves is both.

\* get_conversation, which loads every member row with it (lazy="selectin").
RemoveLoad(s, a, t) ==
  /\ MayBegin
  /\ Goto(s, "idle", "removeAuth")
  /\ work' = [work EXCEPT ![s] = [NoWork EXCEPT !.actor = a, !.targets = {t},
                                                !.seen = rows]]
  /\ event' = Quiet
  /\ UNCHANGED <<rows, joins, lastSeq>>

\* require_member for a leave, require_admin for a removal.
RemoveAuth(s) ==
  /\ Goto(s, "removeAuth", "removeTarget")
  /\ \E me \in AsSeen(work[s].seen, RowOf(work[s].actor)) :
       /\ work[s].actor \in work[s].targets \/ me.role = "admin"
       /\ work' = [work EXCEPT ![s].seen = @ \cup {me}]
  /\ event' = Quiet
  /\ UNCHANGED <<rows, joins, lastSeq>>

Targeting(w, v) == [w EXCEPT !.seen = @ \cup {v}, !.victim = {v}]

RemoveTarget(s) ==
  /\ Goto(s, "removeTarget", "removeRest")
  /\ \E t \in work[s].targets :
     \E v \in AsSeen(work[s].seen, RowOf(t)) :
       work' = [work EXCEPT ![s] = Targeting(@, v)]
  /\ event' = Quiet
  /\ UNCHANGED <<rows, joins, lastSeq>>

\* members_of, without the target.
Rest(s) ==
  AsSeen(work[s].seen, {r \in rows : r.user \notin work[s].targets})

\* Mutant of Heirs: nobody is promoted.
HeirsNobody(s) == {}

\* Who may become admin: somebody must, and the query has no ORDER BY, so
\* remaining[0] is any of them.
Heirs(s) ==
  IF /\ \E v \in work[s].victim : v.role = "admin"
     /\ \A r \in Rest(s) : r.role # "admin"
    THEN Rest(s) ELSE {}

Leaving(w, others, heir) == [w EXCEPT !.audience = others, !.heir = heir]

RemoveRest(s) ==
  /\ Goto(s, "removeRest", "removeCommit")
  /\ \E heir \in IF Heirs(s) = {} THEN {{}} ELSE {{h} : h \in Heirs(s)} :
       work' = [work EXCEPT ![s] = Leaving(@, {r.user : r \in Rest(s)}, heir)]
  /\ event' = Quiet
  /\ UNCHANGED <<rows, joins, lastSeq>>

Promoted(r) == [r EXCEPT !.role = "admin"]

\* DELETE and UPDATE in one transaction. The heir must still be there.
RemoveCommit(s) ==
  /\ pc[s] = "removeCommit"
  /\ \A h \in work[s].heir : Stored(h)
  /\ rows' = {IF \E h \in work[s].heir : Same(q, h) THEN Promoted(q) ELSE q :
                q \in {r \in rows : \A v \in work[s].victim : ~Same(r, v)}}
  /\ IF work[s].audience = {}
       THEN Finish(s, "removeCommit")
       ELSE /\ Goto(s, "removeCommit", "announce")
            /\ work' = [work EXCEPT ![s] = [NoWork EXCEPT !.actor = work[s].actor]]
  /\ event' = [kind |-> "leave", who |-> {v.user : v \in work[s].victim}, mark |-> 0, alone |-> alone[s]]
  /\ UNCHANGED <<joins, lastSeq>>

-----------------------------------------------------------------------------
\* add_members(actor a, users T).

\* require_admin.
AddAuth(s, a, T) ==
  /\ MayBegin /\ \A u \in T : joins[u] < MaxJoins
  /\ \E me \in RowOf(a) : me.role = "admin"
  /\ Goto(s, "idle", "addLoad")
  /\ work' = [work EXCEPT ![s] = [NoWork EXCEPT !.actor = a, !.targets = T]]
  /\ event' = Quiet
  /\ UNCHANGED <<rows, joins, lastSeq>>

\* get_conversation: last_seq as it is now.
AddLoad(s) ==
  /\ Goto(s, "addLoad", "addCheck")
  /\ work' = [work EXCEPT ![s].seq = lastSeq]
  /\ event' = Quiet
  /\ UNCHANGED <<rows, joins, lastSeq>>

\* Those who are members already are left out; somebody must be left.
AddCheck(s) ==
  /\ Goto(s, "addCheck", "addCommit")
  /\ ~ work[s].targets \subseteq MembersNow
  /\ work' = [work EXCEPT ![s].targets = @ \ MembersNow]
  /\ event' = Quiet
  /\ UNCHANGED <<rows, joins, lastSeq>>

NewRow(u) == [user |-> u, gen |-> joins[u] + 1, role |-> "member"]

AddRows(s, n) ==
  /\ Goto(s, "addCommit", "announce")
  /\ rows' = rows \cup {NewRow(u) : u \in work[s].targets}
  /\ joins' = [u \in User |-> IF u \in work[s].targets THEN joins[u] + 1 ELSE joins[u]]
  /\ work' = [work EXCEPT ![s] = [NoWork EXCEPT !.actor = work[s].actor]]
  /\ event' = [kind |-> "join", who |-> work[s].targets, mark |-> n, alone |-> alone[s]]
  /\ UNCHANGED lastSeq

\* Mutant of AddCommit: the marks start at 0.
AddCommitFromZero(s) ==
  /\ work[s].targets \cap MembersNow = {}
  /\ AddRows(s, 0)

\* COMMIT; uq_member refuses a second row of one user, and then adds nobody.
AddCommit(s) ==
  /\ work[s].targets \cap MembersNow = {}
  /\ AddRows(s, work[s].seq)

-----------------------------------------------------------------------------
\* create_system_message and fan_out_new_message, after either change and in
\* transactions of their own.

\* get_member: the actor's row, if the actor still is a member.
Announce(s) ==
  /\ Goto(s, "announce", "announceCommit")
  /\ work' = [work EXCEPT ![s].me = RowOf(work[s].actor)]
  /\ event' = Quiet
  /\ UNCHANGED <<rows, joins, lastSeq>>

AnnounceCommit(s) ==
  /\ \A r \in work[s].me : Stored(r)
  /\ Goto(s, "announceCommit", "announceFanOut")
  /\ lastSeq' = lastSeq + 1
  /\ work' = [work EXCEPT ![s] = NoWork]
  /\ event' = Quiet
  /\ UNCHANGED <<rows, joins>>

\* Fanned out to the members of this moment.
AnnounceFanOut(s) ==
  /\ Finish(s, "announceFanOut")
  /\ event' = [kind |-> "push", who |-> MembersNow, mark |-> 0, alone |-> alone[s]]
  /\ UNCHANGED <<rows, joins, lastSeq>>

-----------------------------------------------------------------------------
\* send_message by a.

\* load_send_context: the sender's row, and the members to push to.
SendLoad(s, a) ==
  /\ MayBegin
  /\ RowOf(a) # {}
  /\ Goto(s, "idle", "sendCommit")
  /\ work' = [work EXCEPT ![s] = [NoWork EXCEPT !.actor = a, !.me = RowOf(a),
                                                !.audience = MembersNow]]
  /\ event' = Quiet
  /\ UNCHANGED <<rows, joins, lastSeq>>

StoreText(s) ==
  /\ Goto(s, "sendCommit", "sendFanOut")
  /\ lastSeq' = lastSeq + 1
  /\ event' = [kind |-> "text", who |-> {work[s].actor}, mark |-> 0, alone |-> alone[s]]
  /\ work' = [work EXCEPT ![s].me = {}]
  /\ UNCHANGED <<rows, joins>>

\* Mutant of SendCommit: the sender's marks are not written with the message.
SendCommitUnchecked(s) == StoreText(s)

\* The message and the sender's marks commit together, so the sender's row
\* must still be there.
SendCommit(s) ==
  /\ \A r \in work[s].me : Stored(r)
  /\ StoreText(s)

PushText(s, to) ==
  /\ Finish(s, "sendFanOut")
  /\ event' = [kind |-> "push", who |-> to, mark |-> 0, alone |-> alone[s]]
  /\ UNCHANGED <<rows, joins, lastSeq>>

\* Mutant of SendFanOut: the author gets no copy on other devices.
SendFanOutOthers(s) == PushText(s, work[s].audience \ {work[s].actor})

\* Fanned out to the members that were loaded before the message was stored.
SendFanOut(s) == PushText(s, work[s].audience)

-----------------------------------------------------------------------------
\* A check refuses the request, the database does, or the handler dies: what
\* it has committed stays, the rest is rolled back.
Abort(s) ==
  /\ pc[s] # "idle"
  /\ Finish(s, pc[s])
  /\ event' = Quiet
  /\ UNCHANGED <<rows, joins, lastSeq>>

Next ==
  \E s \in Session :
    \/ \E a, t \in User : RemoveLoad(s, a, t)
    \/ RemoveAuth(s) \/ RemoveTarget(s) \/ RemoveRest(s) \/ RemoveCommit(s)
    \/ \E a \in User, T \in SUBSET User \ {{}} : AddAuth(s, a, T)
    \/ AddLoad(s) \/ AddCheck(s) \/ AddCommit(s)
    \/ Announce(s) \/ AnnounceCommit(s) \/ AnnounceFanOut(s)
    \/ \E a \in User : SendLoad(s, a)
    \/ SendCommit(s) \/ SendFanOut(s)
    \/ Abort(s)

Spec == Init /\ [][Next]_vars

-----------------------------------------------------------------------------
(***************************************************************************)
(* Properties                                                              *)
(***************************************************************************)

\* "Never leave a group without an admin" (remove_member).
HasAdmin == \E r \in rows : r.role = "admin"
NeverWithoutAdmin == rows # {} => HasAdmin

\* It is kept at least by a removal that no other request overlaps: whoever goes,
\* an admin is left or nobody is.
LastAdminReplaced ==
  event'.kind = "leave" /\ event'.alone /\ HasAdmin => NeverWithoutAdmin'
KeepsAdmin == [][LastAdminReplaced]_vars

\* Nobody is in the group twice, however often two admins add the same person.
OneRowEach == \A q, r \in rows : q.user = r.user => q = r

\* send_message checks the membership once, at the start, and yet no text of
\* somebody who is not a member is ever stored: the commit writes the very row
\* that a removal deletes.
PostStored == event'.kind = "text" => event'.who \subseteq MembersNow
MembersOnlyPost == [][PostStored]_vars

\* A message whose request no other one overlaps is pushed to the members, no
\* more and no fewer, although they were read before it was stored.
PushToMembers == event'.kind = "push" /\ event'.alone => event'.who = MembersNow
PushedToMembers == [][PushToMembers]_vars

\* Whoever joins has nothing unread (add_members), unless requests overlap.
JoinRead == event'.kind = "join" /\ event'.alone => event'.mark = lastSeq
CleanSlate == [][JoinRead]_vars
=============================================================================
