-------------------------- MODULE ConversationList --------------------------
(***************************************************************************)
(* ONE conversation in the list of ONE viewer: get_or_create_direct,       *)
(* create_group, list_conversations and get_detail of                      *)
(* conversation_service.py against upsertConversation, loadConversations,  *)
(* markRead and handleEvent of frontend/lib/store.ts.                      *)
(*                                                                         *)
(* The same facts reach the row as events and as snapshots, which are read *)
(* in two SELECTs and arrive whenever they do.  The history variable stale *)
(* is set when a snapshot leaves out what an event has told, or counts     *)
(* what an event is still to tell; the next one that does neither clears   *)
(* it.  Membership is here only joining and, in a group, leaving.  The     *)
(* viewer's own messages come from another device; marks, numbers and      *)
(* fan-out are MessageStore's, the thread ClientThread's.                  *)
(***************************************************************************)
EXTENDS Integers, Sequences, FiniteSets

CONSTANTS
  Start,      \* requests that start the conversation
  ByViewer,   \* those of the viewer; the others are the peer's
  NoRow,      \* the conversation is not in the store
  MaxSeq,     \* bound of the model: messages
  MaxDrops    \* bound of the model: dropped connections

ASSUME StartAssumption == ByViewer \subseteq Start /\ {"list", "detail"} \cap Start = {}
ASSUME BoundAssumption == MaxSeq \in Nat /\ MaxDrops \in Nat

VARIABLES
  \* the database
  group,      \* is it a group? Otherwise a direct chat
  chats,      \* committed conversations, named after the request that made them
  phase,      \* 0: the viewer is no member yet, 1: is one, 2: was removed
  lastSeq,    \* conversations.last_seq
  mark,       \* the viewer's last_read_seq
  \* the server
  start,      \* requests of POST /conversations
  snap,       \* what each has read, like GET /conversations and GET /conversations/id
  posts,      \* messages stored by the viewer or the peer and not fanned out yet
  leaving,    \* has remove_member still to tell the viewer?
  \* the client
  link,       \* booting, up, or down before or after the first connection
  inbox,      \* events on their way over the socket
  frame,      \* the message.read frame queued or under way, if any: its seq, 0 for none
  rest,       \* the same mark on its way over REST, if any
  row,        \* the conversation in the store
  view,       \* away, left before its first page came, open, or open in a hidden tab
  drops,
  \* history
  over,       \* messages whose event was handled or lost, or never to come
  told,       \* the last phase an event has told, or would have
  unsent,     \* was a badge cleared for messages that no frame covers?
  stale

database == <<group, chats, phase, lastSeq, mark>>
serving  == <<start, snap, posts, leaving>>
client   == <<link, inbox, frame, rest, row, view, drops>>
history  == <<over, told, unsent, stale>>
vars == <<database, serving, client, history>>

Seq0 == 0..MaxSeq
Reader == Start \cup {"list", "detail"}
Snapshot == [phase : 0..2, last : Seq0, mark : Seq0, preview : Seq0]
Empty == [phase |-> 0, last |-> 0, mark |-> 0, preview |-> 0]
Row == [unread : Nat, last : Seq0, mark : Seq0, preview : Seq0]
ASSUME NoRowAssumption == NoRow \notin Row

Event == [kind : {"new"}, seq : 1..MaxSeq, mine : BOOLEAN]
         \cup [kind : {"conversation"}, snapshot : Snapshot] \cup [kind : {"removed"}]

TypeOK ==
  /\ group \in BOOLEAN
  /\ chats \subseteq Start
  /\ phase \in 0..2
  /\ lastSeq \in Seq0 /\ mark \in Seq0
  /\ start \in [Start -> {"idle", "flush", "commit", "system", "refresh", "announce",
                          "reply", "done", "failed"}]
  /\ snap \in [Reader -> [step : {"none", "asked", "member", "page", "answer"}, read : Snapshot]]
  /\ posts \in [{"viewer", "peer"} -> Seq0]
  /\ leaving \in BOOLEAN
  /\ link \in {"booting", "down", "up", "reconnecting"}
  /\ inbox \in Seq(Event)
  /\ frame \subseteq Seq0 /\ Cardinality(frame) <= 1
  /\ rest \subseteq Seq0 /\ Cardinality(rest) <= 1
  /\ row \in {NoRow} \cup Row
  /\ view \in {"away", "left", "open", "hidden"}
  /\ drops \in 0..MaxDrops
  /\ over \subseteq 1..MaxSeq
  /\ told \in 0..2
  /\ unsent \in BOOLEAN /\ stale \in BOOLEAN

Init ==
  /\ group \in BOOLEAN
  /\ chats = {} /\ phase = 0 /\ lastSeq = 0 /\ mark = 0
  /\ start = [s \in Start |-> "idle"]
  /\ snap = [r \in Reader |-> [step |-> IF r = "list" THEN "asked" ELSE "none", read |-> Empty]]
  /\ posts = [p \in {"viewer", "peer"} |-> 0]
  /\ leaving = FALSE
  /\ link = "booting"
  /\ inbox = <<>> /\ frame = {} /\ rest = {} /\ row = NoRow /\ view = "away" /\ drops = 0
  /\ over = {} /\ told = 0 /\ unsent = FALSE /\ stale = FALSE

Goto(s, from, to) ==
  /\ start[s] = from
  /\ start' = [start EXCEPT ![s] = to]

Read(r, step, read) == snap' = [snap EXCEPT ![r] = [step |-> step, read |-> read]]
Forget(r) == Read(r, "none", Empty)

\* Bound of the model: the requests of the client do not overlap.
Quiet == \A r \in {"list", "detail"} \cup ByViewer :
           /\ snap[r].step = "none"
           /\ r \in ByViewer => start[r] \in {"idle", "done", "failed"}

Now == [phase |-> phase, last |-> lastSeq, mark |-> mark, preview |-> lastSeq]

\* What an event tells will not be told again.
Tells(e) ==
  /\ over' = IF e.kind = "new" THEN over \cup {e.seq} ELSE over
  /\ told' = CASE e.kind = "conversation" -> 1 [] e.kind = "removed" -> 2 [] OTHER -> told

\* send_to_users, as far as the viewer is concerned: without a socket it is lost.
Push(e) ==
  IF link = "up"
  THEN /\ inbox' = Append(inbox, e)
       /\ UNCHANGED <<over, told, stale>>
  ELSE /\ Tells(e)
       /\ stale' = TRUE
       /\ UNCHANGED inbox

\* Does a snapshot hold just what the client has been told, and nothing older?
InStep(s) ==
  /\ s.phase = told
  /\ s.phase = 1 =>
       over = 1..s.last /\ s.preview = s.last /\ s.mark = mark

\* Mutant of RowOf: the unread messages are not cut off at zero, nor the right way round.
RowOfSwapped(s) ==
  IF s.phase # 1 THEN NoRow
  ELSE [unread |-> s.mark - s.last, last |-> s.last, mark |-> s.mark, preview |-> s.preview]

\* serialize_conversation, for a member.
RowOf(s) ==
  IF s.phase # 1 THEN NoRow
  ELSE [unread |-> IF s.mark > s.last THEN 0 ELSE s.last - s.mark,
        last |-> s.last, mark |-> s.mark, preview |-> s.preview]

-----------------------------------------------------------------------------
\* Starting the conversation: get_or_create_direct and create_group.

\* The SELECT by dm_key. A group is made by the peer, and only once.
StartLoad(s) ==
  /\ group => s \notin ByViewer /\ \A t \in Start : start[t] = "idle"
  /\ s \in ByViewer => link # "booting" /\ Quiet
  /\ IF ~group /\ chats # {}
     THEN /\ Goto(s, "idle", IF s \in ByViewer THEN "reply" ELSE "done")
          /\ IF s \in ByViewer THEN Read(s, "page", Now) ELSE UNCHANGED snap
     ELSE /\ Goto(s, "idle", "flush")
          /\ UNCHANGED snap
  /\ UNCHANGED <<database, posts, leaving, client, history>>

\* Mutant of StartFlush: dm_key is not unique.
StartFlushAnyway(s) ==
  /\ Goto(s, "flush", "commit")
  /\ UNCHANGED <<database, snap, posts, leaving, client, history>>

\* The INSERT of the conversation. It waits for a transaction that has inserted the
\* same key; one that is committed raises outside the try: the request fails.
StartFlush(s) ==
  /\ \A t \in Start : start[t] # "commit"
  /\ Goto(s, "flush", IF ~group /\ chats # {} THEN "failed" ELSE "commit")
  /\ UNCHANGED <<database, snap, posts, leaving, client, history>>

\* The conversation and both members.
StartCommit(s) ==
  /\ Goto(s, "commit", IF group THEN "system" ELSE "refresh")
  /\ chats' = chats \cup {s}
  /\ phase' = 1
  /\ UNCHANGED <<group, lastSeq, mark, snap, posts, leaving, client, history>>

\* "... created the group": stored, and never sent as an event.
StartSystem(s) ==
  /\ lastSeq < MaxSeq
  /\ Goto(s, "system", "refresh")
  /\ lastSeq' = lastSeq + 1
  /\ over' = over \cup {lastSeq + 1}
  /\ UNCHANGED <<group, chats, phase, mark, snap, posts, leaving, client, told,
                 unsent, stale>>

\* The conversation is read again; the session keeps the members it has added.
StartRefresh(s) ==
  /\ Goto(s, "refresh", "announce")
  /\ Read(s, "page", [Now EXCEPT !.phase = 1, !.mark = 0])
  /\ UNCHANGED <<database, posts, leaving, client, history>>

\* _broadcast_detail: the last message is read anew, the rest is as it was.
StartAnnounce(s) ==
  /\ Goto(s, "announce", IF s \in ByViewer THEN "reply" ELSE "done")
  /\ Push([kind |-> "conversation",
           snapshot |-> [snap[s].read EXCEPT !.preview = lastSeq]])
  /\ IF s \in ByViewer THEN UNCHANGED snap ELSE Forget(s)
  /\ UNCHANGED <<database, posts, leaving, link, frame, rest, row, view, drops, unsent>>

\* get_detail for the answer, of which only the viewer's matters here.
StartReply(s) ==
  /\ Goto(s, "reply", "done")
  /\ Read(s, "answer", [snap[s].read EXCEPT !.preview = lastSeq])
  /\ UNCHANGED <<database, posts, leaving, client, history>>

-----------------------------------------------------------------------------
\* What happens to the conversation.

\* send_message commits: a sender's own mark moves with it.
StoreMessage(p) ==
  /\ phase = 1 /\ lastSeq < MaxSeq /\ posts[p] = 0
  /\ lastSeq' = lastSeq + 1
  /\ mark' = IF p = "viewer" THEN lastSeq + 1 ELSE mark
  /\ posts' = [posts EXCEPT ![p] = lastSeq + 1]
  /\ UNCHANGED <<group, chats, phase, start, snap, leaving, client, history>>

\* fan_out_new_message, to the members the sender's session had loaded.
FanOut(p) ==
  /\ posts[p] # 0
  /\ posts' = [posts EXCEPT ![p] = 0]
  /\ Push([kind |-> "new", seq |-> posts[p], mine |-> p = "viewer"])
  /\ UNCHANGED <<database, start, snap, leaving, link, frame, rest, row, view, drops,
                 unsent>>

\* remove_member commits, and later tells the one removed: by the creator of the group,
\* who knows it from the answer, or by the viewer, who leaves.
Remove ==
  /\ group /\ phase = 1
  /\ \A s \in Start : start[s] \in {"idle", "done"}
  /\ phase' = 2
  /\ leaving' = TRUE
  /\ UNCHANGED <<group, chats, lastSeq, mark, start, snap, posts, client, history>>

TellRemoved ==
  /\ leaving
  /\ leaving' = FALSE
  /\ Push([kind |-> "removed"])
  /\ UNCHANGED <<database, start, snap, posts, link, frame, rest, row, view, drops,
                 unsent>>

\* mark_read. A request that names no message, or one the row has not been told of,
\* passes messages that are not counted as read there.
MarksUpTo(f) ==
  LET to == IF f = 0 THEN lastSeq ELSE f
  IN  /\ mark' = IF phase = 1 /\ to > mark THEN to ELSE mark
      /\ stale' = (stale \/ (row # NoRow /\ mark' > mark /\ mark' > row.mark))

HandleRead ==
  /\ link = "up"
  /\ \E f \in frame : MarksUpTo(f)
  /\ frame' = {}
  /\ UNCHANGED <<group, chats, phase, lastSeq, serving, link, inbox, rest, row, view,
                 drops, over, told, unsent>>

\* The same over REST, whose failure nobody notices.
HandleRest ==
  /\ rest # {}
  /\ (\E f \in rest : MarksUpTo(f)) \/ UNCHANGED <<mark, stale>>
  /\ rest' = {}
  /\ UNCHANGED <<group, chats, phase, lastSeq, serving, link, inbox, frame, row, view,
                 drops, over, told, unsent>>

-----------------------------------------------------------------------------
\* The snapshots of GET /conversations and GET /conversations/id.

\* list_conversations: the page, each conversation with the viewer's own member row.
ReadPage ==
  /\ snap["list"].step = "asked"
  /\ Read("list", "page", [Now EXCEPT !.preview = 0])
  /\ UNCHANGED <<database, start, posts, leaving, client, history>>

\* get_detail: require_member, which ends the request of one who is no member,
DetailMember ==
  /\ snap["detail"].step = "asked"
  /\ IF phase = 1
     THEN Read("detail", "member", [Empty EXCEPT !.phase = 1, !.mark = mark])
     ELSE Forget("detail")
  /\ UNCHANGED <<database, start, posts, leaving, client, history>>

\* and then get_conversation, which may have messages the member row does not know.
DetailConversation ==
  /\ snap["detail"].step = "member"
  /\ Read("detail", "page", [snap["detail"].read EXCEPT !.last = lastSeq])
  /\ UNCHANGED <<database, start, posts, leaving, client, history>>

\* The last message, in a later SELECT.
ReadPreview(r) ==
  /\ r \in {"list", "detail"} /\ snap[r].step = "page"
  /\ Read(r, "answer", [snap[r].read EXCEPT !.preview = lastSeq])
  /\ UNCHANGED <<database, start, posts, leaving, client, history>>

\* A snapshot takes the place of the row, and has the mark of the server.
Replace(s) ==
  /\ row' = RowOf(s)
  /\ stale' = ~InStep(s)
  /\ unsent' = FALSE

\* loadConversations replaces the list; boot connects only after it.
ListEnds ==
  /\ snap["list"].step = "answer"
  /\ Forget("list")
  /\ Replace(snap["list"].read)
  /\ link' = IF link = "booting" THEN "down" ELSE link
  /\ UNCHANGED <<database, start, posts, leaving, inbox, frame, rest, view, drops, over,
                 told>>

\* The list after a reconnect fails, which nobody notices.
ListFails ==
  /\ link # "booting" /\ snap["list"].step # "none"
  /\ Forget("list")
  /\ UNCHANGED <<database, start, posts, leaving, client, history>>

\* upsertConversation with a detail; the same with the answer to a start.
DetailEnds(r) ==
  /\ r # "list" /\ snap[r].step = "answer"
  /\ Forget(r)
  /\ Replace(snap[r].read)
  /\ UNCHANGED <<database, start, posts, leaving, link, inbox, frame, rest, view, drops,
                 over, told>>

-----------------------------------------------------------------------------
\* Events (handleEvent). One that makes the client send a frame waits for the one
\* before, a bound of the model.

\* Mutant of MarksRead: the badge goes, and the server is not told.
MarksReadLocally(r, ends) ==
  /\ row' = [r EXCEPT !.unread = 0, !.mark = r.last]
  /\ unsent' = FALSE
  /\ UNCHANGED <<frame, rest>>

\* markRead: the badge goes at once, up to the last message the row was told of. The
\* frame names the last message of the loaded thread, which may be an older one, when
\* the thread was not backfilled, or a newer one; it names none while the thread is not
\* loaded or ends in an own message not acknowledged. Without a connection the frame is
\* queued and sent over REST as well. One that names what the server has marked already
\* has no effect and is left out. When there is no badge and the thread is not loaded,
\* markRead returns before all that.
MarksRead(r, ends) ==
  /\ frame = {} /\ rest = {}
  /\ \/ /\ row' = [r EXCEPT !.unread = 0, !.mark = r.last]
        /\ \E to \in {0} \cup ends :
              /\ frame' = IF to = 0 \/ to > mark THEN {to} ELSE {}
              /\ rest' = IF link = "up" THEN {} ELSE frame'
              /\ unsent' = IF to = 0 \/ to >= r.last THEN FALSE
                            ELSE unsent \/ r.mark < r.last
     \/ /\ r.unread = 0
        /\ row' = r
        /\ unsent' = (unsent \/ r # row)
        /\ UNCHANGED <<frame, rest>>

\* The row after message.new, with unread as it is to be.
Grown(e, unread, seen) ==
  [unread |-> unread, last |-> IF e.seq > row.last THEN e.seq ELSE row.last,
   mark |-> IF seen THEN e.seq ELSE row.mark, preview |-> e.seq]

\* An event that comes after a later one tells what is old.
InOrder(e) == over = 1..(e.seq - 1)

\* message.new for a row that is there.
HearMessage(e) ==
  /\ e.kind = "new" /\ row # NoRow
  /\ stale' = (stale \/ ~InOrder(e))
  /\ IF view = "open" /\ ~e.mine
     THEN MarksRead(Grown(e, 0, TRUE), e.seq..lastSeq)
     ELSE /\ row' = IF e.mine \/ view = "hidden" THEN Grown(e, 0, TRUE)
                    ELSE Grown(e, row.unread + 1, FALSE)
          /\ unsent' = (unsent \/ (view = "hidden" /\ ~e.mine))
          /\ UNCHANGED <<frame, rest>>
  /\ UNCHANGED <<snap, view>>

\* message.new for a conversation the client does not know: it asks for the detail.
HearUnknown(e) ==
  /\ e.kind = "new" /\ row = NoRow
  /\ Quiet
  /\ Read("detail", "asked", Empty)
  /\ UNCHANGED <<row, frame, rest, view, unsent, stale>>

\* conversation.new (and conversation.updated, which is handled the same).
HearConversation(e) ==
  /\ e.kind = "conversation"
  /\ row' = RowOf(e.snapshot)
  /\ stale' = ~(/\ over = 1..e.snapshot.last /\ e.snapshot.preview = e.snapshot.last
                /\ told = 0 /\ e.snapshot.mark = mark)
  /\ unsent' = FALSE
  /\ UNCHANGED <<snap, frame, rest, view>>

\* member.removed, about the viewer.
HearRemoved(e) ==
  /\ e.kind = "removed"
  /\ row' = NoRow
  /\ view' = "away"
  /\ stale' = FALSE
  /\ UNCHANGED <<snap, frame, rest, unsent>>

Handle ==
  /\ link = "up" /\ inbox # <<>>
  /\ LET e == Head(inbox)
     IN  /\ HearMessage(e) \/ HearUnknown(e) \/ HearConversation(e) \/ HearRemoved(e)
         /\ Tells(e)
  /\ inbox' = Tail(inbox)
  /\ UNCHANGED <<database, start, posts, leaving, link, drops>>

-----------------------------------------------------------------------------
\* The viewer and the connection.

\* Opening the conversation, or coming back to its tab, marks it as read: the thread
\* ends wherever it was left.
Open ==
  /\ row # NoRow /\ view # "open"
  /\ view' = "open"
  /\ MarksRead(row, 1..lastSeq)
  /\ UNCHANGED <<database, serving, link, inbox, drops, over, told, stale>>

\* The pane marks it as read whenever the thread changes, and openConversation when
\* its page has come, although the viewer may have left.
Look ==
  /\ row # NoRow /\ view # "away"
  /\ view' = IF view = "left" THEN "away" ELSE view
  /\ MarksRead(row, 1..lastSeq)
  /\ UNCHANGED <<database, serving, link, inbox, drops, over, told, stale>>

Hide ==
  /\ view = "open" /\ view' = "hidden"
  /\ UNCHANGED <<database, serving, link, inbox, frame, rest, row, drops, history>>

Leave ==
  /\ view = "open" /\ view' \in {"away", "left"}
  /\ UNCHANGED <<database, serving, link, inbox, frame, rest, row, drops, history>>

Connect ==
  /\ link = "down" /\ link' = "up"
  /\ UNCHANGED <<database, serving, inbox, frame, rest, row, view, drops, history>>

\* What was on its way is lost.
Drop ==
  /\ link = "up" /\ drops < MaxDrops
  /\ link' = "reconnecting" /\ drops' = drops + 1
  /\ inbox' = <<>> /\ frame' = {}
  /\ LET events == {inbox[i] : i \in 1..Len(inbox)}
     IN  /\ over' = over \cup {e.seq : e \in {f \in events : f.kind = "new"}}
         /\ told' = IF \E e \in events : e.kind = "removed" THEN 2
                    ELSE IF \E e \in events : e.kind = "conversation" THEN 1 ELSE told
  /\ stale' = (stale \/ inbox # <<>> \/ frame # {})
  /\ UNCHANGED <<database, serving, rest, row, view, unsent>>

\* The socket opens again: the list is loaded anew.
Reconnect ==
  /\ link = "reconnecting" /\ link' = "up"
  /\ Quiet
  /\ Read("list", "asked", Empty)
  /\ UNCHANGED <<database, start, posts, leaving, inbox, frame, rest, row, view, drops,
                 history>>

-----------------------------------------------------------------------------
Starting(s) ==
  \/ StartLoad(s) \/ StartFlush(s) \/ StartCommit(s) \/ StartSystem(s)
  \/ StartRefresh(s) \/ StartAnnounce(s) \/ StartReply(s)

Next ==
  \/ \E s \in Start : Starting(s)
  \/ \E p \in {"viewer", "peer"} : StoreMessage(p) \/ FanOut(p)
  \/ Remove \/ TellRemoved \/ HandleRead \/ HandleRest
  \/ ReadPage \/ DetailMember \/ DetailConversation
  \/ \E r \in Reader : ReadPreview(r) \/ DetailEnds(r)
  \/ ListEnds \/ ListFails
  \/ Handle
  \/ Open \/ Look \/ Hide \/ Leave \/ Connect \/ Drop \/ Reconnect

Spec == Init /\ [][Next]_vars

-----------------------------------------------------------------------------
(***************************************************************************)
(* Properties                                                              *)
(***************************************************************************)

\* Nothing about the conversation is under way.
AtRest ==
  /\ link = "up" /\ inbox = <<>> /\ frame = {} /\ rest = {} /\ ~leaving
  /\ \A p \in {"viewer", "peer"} : posts[p] = 0
  /\ \A r \in Reader : snap[r].step = "none"
  /\ \A s \in Start : start[s] \in {"idle", "done", "failed"}

\* However the two people start their chat, and whatever they overlap, there is one
\* conversation in the end, and who is answered is answered with it
\* (get_or_create_direct).
OneChat ==
  /\ Cardinality(chats) <= 1
  /\ \A s \in Start : start[s] \in {"reply", "done"} => chats # {}

\* "A simultaneous double-tap resolves to the winner rather than erroring"
\* (SYSTEM_DESIGN.md, on dm_key). It is the flush that raises, outside the try: refuted.
NoStartFails == \A s \in Start : start[s] # "failed"

\* The list has the conversation exactly while the viewer is a member, with the last
\* message and the number of those unread, whatever way they came: unless a snapshot
\* and an event crossed, or an event was lost, and no reload has mended it since, or
\* markRead has cleared the badge of messages that its frame does not cover.
RowAgrees ==
  AtRest /\ ~stale /\ ~unsent => row = RowOf(Now)
=============================================================================
