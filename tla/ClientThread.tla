---------------------------- MODULE ClientThread ----------------------------
(***************************************************************************)
(* One thread as ONE client shows it: the optimistic bubble of sendMessage *)
(* and the five ways a stored message comes to it (frontend/lib/store.ts): *)
(* message.new and message.ack on the socket, the answer to the REST       *)
(* fallback, a page of the history, and the backfill after a reconnect.    *)
(* The socket is that of frontend/lib/ws.ts.                               *)
(*                                                                         *)
(* The conversation is a direct one, between "me" and one peer.  The       *)
(* server is its log: MessageStore shows how send_message appends to it.   *)
(* Delivered receipts (handled like read receipts), expiry, deletion and   *)
(* the conversation list are left out.                                     *)
(***************************************************************************)
EXTENDS Naturals, Sequences, FiniteSets, SequencesExt

CONSTANTS
  Key,         \* client_msg_id values of my messages
  NoKey,       \* a message that this client did not send
  Earlier,     \* how many messages of mine were stored before
  StartOpen,   \* is the thread already open, and its history loaded?
  PageSize,    \* limit of openConversation and loadOlder (50)
  BackfillSize,\* limit of the backfill (100)
  Handlers,    \* how many sends the server has in progress at once
  OpensAtOnce, \* bound of the model: first pages under way at once, see Opens
  OlderAtOnce, \* how many loadOlder calls are under way at once
  MayLeave,    \* may the user look at another conversation?
  MayFail,     \* may HTTP requests fail, and the server refuse frames?
  MaxSeq,      \* bound of the model: nobody sends beyond this number
  MaxDrops     \* bound of the model: how often the connection drops

ASSUME KeyAssumption == NoKey \notin Key
ASSUME FlagAssumption == {StartOpen, MayLeave, MayFail} \subseteq BOOLEAN
ASSUME BoundAssumption ==
  /\ {Earlier, PageSize, BackfillSize, Handlers, OpensAtOnce, OlderAtOnce, MaxSeq, MaxDrops}
       \subseteq Nat
  /\ PageSize # 0 /\ BackfillSize # 0

VARIABLES
  log,       \* messages of the conversation: log[seq] has the author and key
  peerRead,  \* last_read_seq of the peer
  handlers,  \* sends that are stored and not yet fanned out
  link,      \* is the socket up?
  inbox,     \* events on their way to the client
  outbox,    \* message.send frames on their way to the server
  queue,     \* SignalSocket.queue
  posts,     \* REST sends on their way to the server
  answers,   \* their answers on the way back
  pages,     \* history requests and their answers
  active,    \* activeId is this conversation
  loaded,    \* messages[id] is defined
  thread,    \* messages[id]
  hasMore,
  drops,     \* how often the connection has dropped
  lost,      \* history: keys of the frames that went down with the connection, or
             \* that the server has refused
  missed,    \* history: messages the design leaves out of the thread (see Gaps)
  doubled    \* history: messages that loadOlder has put above themselves

vars == <<log, peerRead, handlers, link, inbox, outbox, queue, posts, answers,
          pages, active, loaded, thread, hasMore, drops, lost, missed, doubled>>
server == <<log, peerRead, handlers>>
wire == <<link, inbox, outbox, queue, drops, lost>>
http == <<posts, answers, pages>>
view == <<active, loaded, thread, hasMore, missed, doubled>>

Rank == [sending |-> 0, failed |-> 0, sent |-> 1, read |-> 3]
Status == DOMAIN Rank

\* id = 0 is the optimistic bubble's local id; a stored message's id is its seq.
Message == [id : Nat, seq : Nat, key : Key \cup {NoKey}, mine : BOOLEAN, status : Status]

Event == [type : {"new", "ack"}, msg : Message] \cup [type : {"read"}, seq : Nat]

\* A request knows where to start; its answer also what it found.
Page == [kind : {"open", "older", "backfill"}, from : Nat, got : BOOLEAN,
         rows : Seq(Message), more : BOOLEAN]

TypeOK ==
  /\ log \in Seq([key : Key \cup {NoKey}, mine : BOOLEAN])
  /\ peerRead \in Nat
  /\ handlers \subseteq [seq : Nat, via : {"socket", "rest", "peer"}]
  /\ link \in BOOLEAN
  /\ inbox \in Seq(Event)
  /\ outbox \in Seq(Key)
  /\ queue \in Seq(Key)
  /\ posts \subseteq Key
  /\ answers \subseteq Message
  /\ pages \in Seq(Page)
  /\ active \in BOOLEAN
  /\ loaded \in BOOLEAN
  /\ thread \in Seq(Message)
  /\ hasMore \in BOOLEAN
  /\ drops \in Nat
  /\ lost \subseteq Key
  /\ missed \cup doubled \subseteq DOMAIN log

-----------------------------------------------------------------------------
\* What the server says of message n: message_status for one recipient.
Stored(n, read) ==
  [id |-> n, seq |-> n, key |-> log[n].key, mine |-> log[n].mine,
   status |-> IF log[n].mine /\ read >= n THEN "read" ELSE "sent"]

SeqsOf(k) == {n \in DOMAIN log : log[n].key = k}

Rows(from, to) == [i \in 1..(to + 1 - from) |-> Stored(from + i - 1, peerRead)]

Least(a, b) == IF a < b THEN a ELSE b

Init ==
  /\ log = [i \in 1..Earlier |-> [key |-> NoKey, mine |-> TRUE]]
  /\ peerRead = 0
  /\ handlers = {}
  /\ link = TRUE
  /\ inbox = <<>> /\ outbox = <<>> /\ queue = <<>>
  /\ posts = {} /\ answers = {} /\ pages = <<>>
  /\ active = StartOpen
  /\ loaded = StartOpen
  /\ thread = IF StartOpen
                THEN Rows(Earlier + 1 - Least(Earlier, PageSize), Earlier)
                ELSE <<>>
  /\ hasMore = (StartOpen /\ Earlier > PageSize)
  /\ drops = 0
  /\ lost = {} /\ missed = {} /\ doubled = {}

-----------------------------------------------------------------------------
(***************************************************************************)
(* The thread                                                              *)
(***************************************************************************)

SameMessage(m, incoming) ==
  m.id = incoming.id \/ (incoming.key # NoKey /\ m.key = incoming.key)

\* A stable sort by seq, as Array.sort is: each message goes to its rank.
Before(s, i) == {j \in DOMAIN s : s[j].seq < s[i].seq \/ (s[j].seq = s[i].seq /\ j < i)}
SortBySeq(s) ==
  [n \in DOMAIN s |-> s[CHOOSE i \in DOMAIN s : Cardinality(Before(s, i)) + 1 = n]]

\* Mutant of mergeMessage: it looks for the id only.
MergeById(s, incoming) ==
  LET at == {i \in DOMAIN s : s[i].id = incoming.id}
  IN  IF at = {} THEN SortBySeq(Append(s, incoming))
      ELSE [s EXCEPT ![CHOOSE i \in at : \A j \in at : i <= j] = incoming]

\* The first match is overwritten, status and all; otherwise append and sort.
mergeMessage(s, incoming) ==
  LET at == {i \in DOMAIN s : SameMessage(s[i], incoming)}
  IN  IF at = {} THEN SortBySeq(Append(s, incoming))
      ELSE [s EXCEPT ![CHOOSE i \in at : \A j \in at : i <= j] = incoming]

\* The thread with the first messages of rows merged, for any number of them.
Merging(s, rows) ==
  LET merged[n \in 0..Len(rows)] ==
        IF n = 0 THEN s ELSE mergeMessage(merged[n - 1], rows[n])
  IN  merged
Merged(s, rows) == Merging(s, rows)[Len(rows)]

\* message.ack: the bubble gets its id and its seq, and stays where it is.
Acked(s, m) ==
  [i \in DOMAIN s |->
     IF s[i].key # m.key THEN s[i]
     ELSE [s[i] EXCEPT !.id = m.id, !.seq = m.seq,
                       !.status = IF @ = "sending" THEN m.status ELSE @]]

\* applyReceipt. In a direct chat the count it compares is always reached: the
\* receipt of the peer is for a message of mine, which I have read.
Receipted(s, seq) ==
  [i \in DOMAIN s |->
     IF s[i].mine /\ s[i].seq <= seq /\ Rank[s[i].status] < Rank["read"]
       THEN [s[i] EXCEPT !.status = "read"] ELSE s[i]]

Failed(s, k) ==
  [i \in DOMAIN s |-> IF s[i].key = k THEN [s[i] EXCEPT !.status = "failed"] ELSE s[i]]

\* The seq of the last message shown; 0 if there is none.
LastSeq(s) == IF s = <<>> THEN 0 ELSE Last(s).seq

-----------------------------------------------------------------------------
(***************************************************************************)
(* Gaps: the messages that the design does not bring to an open thread.    *)
(* Each is added to missed by the step that leaves it out; LosesNothing    *)
(* says that there are no others.                                          *)
(***************************************************************************)

Unshown(s) == {n \in DOMAIN log : \A i \in DOMAIN s : s[i].id # n}

\* A thread holds what it shows, and the older messages that loadOlder will ask for.
Holds(s, more) ==
  {n \in DOMAIN log : n \notin Unshown(s) \/ (more /\ \A i \in DOMAIN s : s[i].seq > n)}
Opening == \E i \in DOMAIN pages : pages[i].kind = "open"

\* messages[id] is set, but not by the history: it will not be fetched.
Unfetched(s) == IF loaded \/ Opening THEN {} ELSE Unshown(s)

\* What lies above the first message shown, and loadOlder will ask for...
Promised(n) == hasMore /\ \A i \in DOMAIN thread : thread[i].seq > n

\* ...unless it is cut off by an even older message that comes before it.
CutOff(s) == {n \in Unshown(s) : Promised(n) /\ \E i \in DOMAIN s : s[i].seq < n}

\* message.new before the first page is there, and too late to be on it.
TooEarly(n) ==
  IF \/ loaded
     \/ ~active /\ ~Opening
     \/ \E i \in DOMAIN pages :
          /\ pages[i].kind = "open"
          /\ ~pages[i].got \/ n \in Holds(pages[i].rows, pages[i].more)
    THEN {} ELSE {n}

\* A first page replaces a thread that already shows newer ones, or older ones if
\* another first page was there before.
Replaced(p) == Holds(thread, hasMore) \ Holds(p.rows, p.more)

\* Such a page has replaced the thread that loadOlder was called for by one that
\* begins below it: what lies between them is not asked for again.
Skipped(p) == {n \in Unshown(thread) : Promised(n) /\ n >= p.from}

\* loadOlder prepends its page to whatever is there by then: messages before the
\* one it starts from may have come meanwhile, with another page or a late event.
Overlap(p) ==
  IF p.kind = "older"
    THEN {n \in DOMAIN log : n < p.from /\ \E i \in DOMAIN thread :
                                 SameMessage(thread[i], Stored(n, peerRead))}
    ELSE {}

\* The backfill stops at its limit.
Beyond(p) ==
  IF Len(p.rows) = BackfillSize
    THEN {n \in Unshown(thread) : n > Last(p.rows).seq} ELSE {}

\* Whatever a failed request would have brought; older ones are asked for again.
Unanswered(p) == IF p.kind = "older" THEN {} ELSE DOMAIN log \ Holds(thread, hasMore)

\* The backfill starts behind it, or is for another conversation.
NotBackfilled ==
  CASE active            -> {n \in Unshown(thread) : n <= LastSeq(thread)}
    [] loaded \/ Opening -> Unshown(thread)
    [] OTHER             -> {}

-----------------------------------------------------------------------------
(***************************************************************************)
(* The user                                                                *)
(***************************************************************************)

\* First pages under way. To keep the instances small a drop counts as one of them.
Opens == Cardinality({i \in DOMAIN pages : pages[i].kind = "open"}) + drops

\* openConversation: the history is fetched unless messages[id] is there, though it
\* may be on its way.
Open ==
  /\ ~active \/ ~loaded
  /\ loaded \/ Opens < OpensAtOnce
  /\ active' = TRUE
  /\ pages' = IF loaded THEN pages
              ELSE Append(pages, [kind |-> "open", from |-> 0, got |-> FALSE,
                                  rows |-> <<>>, more |-> FALSE])
  /\ UNCHANGED <<server, wire, posts, answers, loaded, thread, hasMore, missed, doubled>>

\* Another conversation is opened.
Leave ==
  /\ MayLeave /\ active
  /\ active' = FALSE
  /\ UNCHANGED <<server, wire, http, loaded, thread, hasMore, missed, doubled>>

\* loadOlder, called by every scroll event near the top.
LoadOlder ==
  /\ active /\ hasMore /\ thread # <<>>
  /\ Cardinality({i \in DOMAIN pages : pages[i].kind = "older"}) < OlderAtOnce
  /\ pages' = Append(pages, [kind |-> "older", from |-> thread[1].seq, got |-> FALSE,
                             rows |-> <<>>, more |-> FALSE])
  /\ UNCHANGED <<server, wire, posts, answers, view>>

\* The optimistic bubble of sendMessage.
Bubble(k) ==
  [id |-> 0, seq |-> LastSeq(thread) + 1, key |-> k, mine |-> TRUE, status |-> "sending"]

Unused(k) ==
  /\ SeqsOf(k) = {}
  /\ \A i \in DOMAIN thread : thread[i].key # k
  /\ k \notin ToSet(outbox) \cup ToSet(queue) \cup posts

\* Mutant of Transmit: a closed socket takes nothing, and nobody is told.
TransmitOnce(k) ==
  /\ outbox' = IF link THEN Append(outbox, k) ELSE outbox
  /\ UNCHANGED <<queue, posts>>

\* Over the socket, or else queued for it and posted over REST.
Transmit(k) ==
  \/ /\ link
     /\ outbox' = Append(outbox, k)
     /\ UNCHANGED <<queue, posts>>
  \/ /\ ~link
     /\ queue' = Append(queue, k)
     /\ posts' = posts \cup {k}
     /\ UNCHANGED outbox

\* sendMessage, with a fresh client_msg_id.
SendMessage(k) ==
  /\ active /\ Len(log) < MaxSeq /\ Unused(k)
  /\ loaded' = TRUE
  /\ thread' = Append(thread, Bubble(k))
  /\ missed' = missed \cup Unfetched(thread)
  /\ Transmit(k)
  /\ UNCHANGED <<server, link, inbox, drops, lost, answers, pages, active, hasMore, doubled>>

-----------------------------------------------------------------------------
(***************************************************************************)
(* The server                                                              *)
(***************************************************************************)

\* send_message up to its commit; the sender has read what was sent before.
Store(mine, k, via) ==
  /\ Cardinality(handlers) < Handlers
  /\ log' = Append(log, [key |-> k, mine |-> mine])
  /\ handlers' = handlers \cup {[seq |-> Len(log) + 1, via |-> via]}
  /\ peerRead' = IF mine THEN peerRead ELSE Len(log) + 1

PeerSends ==
  /\ Len(log) < MaxSeq
  /\ Store(FALSE, NoKey, "peer")
  /\ UNCHANGED <<wire, http, view>>

\* mark_read by the peer, and its receipt.
PeerReads(n) ==
  /\ n > peerRead
  /\ peerRead' = n
  /\ inbox' = IF link THEN Append(inbox, [type |-> "read", seq |-> n]) ELSE inbox
  /\ UNCHANGED <<log, handlers, link, outbox, queue, drops, lost, http, view>>

\* The gateway takes a socket's next frame when it is done with the one before.
FrameStored ==
  /\ outbox # <<>>
  /\ \A h \in handlers : h.via # "socket"
  /\ SeqsOf(Head(outbox)) = {}
  /\ Store(TRUE, Head(outbox), "socket")
  /\ outbox' = Tail(outbox)
  /\ UNCHANGED <<link, inbox, queue, drops, lost, http, view>>

\* A frame whose message is stored is acknowledged, and not fanned out again.
FrameKnown ==
  /\ outbox # <<>>
  /\ \A h \in handlers : h.via # "socket"
  /\ \E n \in SeqsOf(Head(outbox)) :
       inbox' = Append(inbox, [type |-> "ack", msg |-> Stored(n, peerRead)])
  /\ outbox' = Tail(outbox)
  /\ UNCHANGED <<server, link, queue, drops, lost, http, view>>

\* The rate limit, an AppError or an exception: nothing is stored, and an "error" event
\* comes back, which the client ties to no bubble.
FrameRefused ==
  /\ MayFail
  /\ outbox # <<>>
  /\ \A h \in handlers : h.via # "socket"
  /\ outbox' = Tail(outbox)
  /\ lost' = lost \cup {Head(outbox)}
  /\ UNCHANGED <<server, link, inbox, queue, drops, http, view>>

PostStored(k) ==
  /\ k \in posts
  /\ SeqsOf(k) = {}
  /\ Store(TRUE, k, "rest")
  /\ posts' = posts \ {k}
  /\ UNCHANGED <<wire, answers, pages, view>>

PostKnown(k) ==
  /\ k \in posts
  /\ \E n \in SeqsOf(k) : answers' = answers \cup {Stored(n, peerRead)}
  /\ posts' = posts \ {k}
  /\ UNCHANGED <<server, wire, pages, view>>

\* What fan_out_new_message and then _handle_send put on the socket. The members
\* they count were loaded before the message was stored: nobody has read it.
Frames(h) ==
  LET new == [type |-> "new", msg |-> Stored(h.seq, 0)]
      ack == [type |-> "ack", msg |-> Stored(h.seq, 0)]
  IN  IF h.via = "socket" THEN <<new, ack>> ELSE <<new>>

FanOut(h) ==
  /\ h \in handlers
  /\ handlers' = handlers \ {h}
  /\ inbox' = IF link THEN inbox \o Frames(h) ELSE inbox
  /\ answers' = IF h.via = "rest" THEN answers \cup {Stored(h.seq, 0)} ELSE answers
  /\ UNCHANGED <<log, peerRead, link, outbox, queue, drops, lost, posts, pages, view>>

\* get_history: the newest, those before, or those after a seq.
Answer(p) ==
  LET n     == Len(log)
      first == CASE p.kind = "open"  -> n + 1 - Least(n, PageSize)
                 [] p.kind = "older" -> p.from - Least(p.from - 1, PageSize)
                 [] OTHER            -> p.from + 1
      last  == CASE p.kind = "open"  -> n
                 [] p.kind = "older" -> p.from - 1
                 [] OTHER            -> Least(n, p.from + BackfillSize)
  IN  [p EXCEPT !.got = TRUE, !.rows = Rows(first, last), !.more = first > 1]

ServePage(i) ==
  /\ ~pages[i].got
  /\ pages' = [pages EXCEPT ![i] = Answer(@)]
  /\ UNCHANGED <<server, wire, posts, answers, view>>

-----------------------------------------------------------------------------
(***************************************************************************)
(* What comes to the client                                                *)
(***************************************************************************)

Receive(type) == inbox # <<>> /\ Head(inbox).type = type /\ inbox' = Tail(inbox)

\* message.new: a thread that is not there is not begun.
HandleNew ==
  /\ Receive("new")
  /\ thread' = IF loaded THEN mergeMessage(thread, Head(inbox).msg) ELSE thread
  /\ missed' = missed \cup TooEarly(Head(inbox).msg.seq) \cup CutOff(thread')
  /\ UNCHANGED <<server, link, outbox, queue, drops, lost, http, active, loaded, hasMore, doubled>>

\* message.ack and message.read: messages[id] is set, were it undefined before.
HandleAck ==
  /\ Receive("ack")
  /\ loaded' = TRUE
  /\ thread' = Acked(thread, Head(inbox).msg)
  /\ missed' = missed \cup Unfetched(thread')
  /\ UNCHANGED <<server, link, outbox, queue, drops, lost, http, active, hasMore, doubled>>

HandleRead ==
  /\ Receive("read")
  /\ loaded' = TRUE
  /\ thread' = Receipted(thread, Head(inbox).seq)
  /\ missed' = missed \cup Unfetched(thread')
  /\ UNCHANGED <<server, link, outbox, queue, drops, lost, http, active, hasMore, doubled>>

\* The answer to the REST fallback.
PostAnswered(m) ==
  /\ m \in answers
  /\ answers' = answers \ {m}
  /\ loaded' = TRUE
  /\ thread' = mergeMessage(thread, m)
  /\ missed' = missed \cup Unfetched(thread') \cup CutOff(thread')
  /\ UNCHANGED <<server, wire, posts, pages, active, hasMore, doubled>>

\* The request or its answer is lost.
PostFails(k) ==
  /\ MayFail
  /\ k \in posts \cup {m.key : m \in answers}
  /\ posts' = posts \ {k}
  /\ answers' = {m \in answers : m.key # k}
  /\ loaded' = TRUE
  /\ thread' = Failed(thread, k)
  /\ missed' = missed \cup Unfetched(thread')
  /\ UNCHANGED <<server, wire, pages, active, hasMore, doubled>>

\* openConversation replaces, loadOlder prepends, the backfill merges.
ApplyPage(i) ==
  LET p == pages[i]
  IN  /\ p.got
      /\ pages' = RemoveAt(pages, i)
      /\ loaded' = TRUE
      /\ thread' = CASE p.kind = "open"  -> p.rows
                     [] p.kind = "older" -> p.rows \o thread
                     [] OTHER            -> Merged(thread, p.rows)
      /\ missed' = missed \cup
           CASE p.kind = "open"  -> Replaced(p)
             [] p.kind = "older" -> Skipped(p)
             [] OTHER            -> Beyond(p) \cup Unfetched(thread') \cup CutOff(thread')
      /\ doubled' = doubled \cup Overlap(p)
      /\ hasMore' = IF p.kind = "backfill" THEN hasMore ELSE p.more
      /\ UNCHANGED <<server, wire, posts, answers, active>>

PageFails(i) ==
  /\ MayFail
  /\ pages' = RemoveAt(pages, i)
  /\ missed' = missed \cup Unanswered(pages[i])
  /\ UNCHANGED <<server, wire, posts, answers, active, loaded, thread, hasMore, doubled>>

\* The connection drops: what is on it is lost in both directions.
Drop ==
  /\ link /\ drops < MaxDrops /\ Opens < OpensAtOnce
  /\ link' = FALSE
  /\ drops' = drops + 1
  /\ inbox' = <<>> /\ outbox' = <<>>
  /\ lost' = lost \cup ToSet(outbox)
  /\ UNCHANGED <<server, queue, http, view>>

\* Mutant of Reconnect: only the socket is resumed.
ReconnectOnly ==
  /\ ~link
  /\ link' = TRUE
  /\ outbox' = queue /\ queue' = <<>>
  /\ missed' = missed \cup NotBackfilled
  /\ UNCHANGED <<server, inbox, drops, lost, http, active, loaded, thread, hasMore, doubled>>

\* onopen: the status listener asks for a backfill of the open conversation,
\* from the last seq it shows; then the queue is flushed.
Reconnect ==
  /\ ~link
  /\ link' = TRUE
  /\ outbox' = queue /\ queue' = <<>>
  /\ pages' = IF ~active THEN pages
              ELSE Append(pages, [kind |-> "backfill", from |-> LastSeq(thread),
                                  got |-> FALSE, rows |-> <<>>, more |-> FALSE])
  /\ missed' = missed \cup NotBackfilled
  /\ UNCHANGED <<server, inbox, drops, lost, posts, answers, active, loaded, thread, hasMore, doubled>>

Next ==
  \/ Open \/ Leave \/ LoadOlder
  \/ \E k \in Key : SendMessage(k) \/ PostStored(k) \/ PostKnown(k) \/ PostFails(k)
  \/ PeerSends
  \/ \E n \in DOMAIN log : PeerReads(n)
  \/ FrameStored \/ FrameKnown \/ FrameRefused
  \/ \E h \in handlers : FanOut(h)
  \/ \E i \in DOMAIN pages : ServePage(i) \/ ApplyPage(i) \/ PageFails(i)
  \/ HandleNew \/ HandleAck \/ HandleRead
  \/ \E m \in answers : PostAnswered(m)
  \/ Drop \/ Reconnect

Spec == Init /\ [][Next]_vars

-----------------------------------------------------------------------------
(***************************************************************************)
(* Properties                                                              *)
(***************************************************************************)

Shown(n) == {i \in DOMAIN thread : thread[i].id = n}
Bubbles(k) == {i \in DOMAIN thread : thread[i].key = k}

\* No message is ever shown twice, by whichever of the five ways it came (but
\* for an older page that overlaps a thread which grew upwards meanwhile), and
\* the bubble of a message of mine is not shown beside the stored one.
ShownOnce ==
  /\ \A n \in DOMAIN log \ doubled : Cardinality(Shown(n)) <= 1
  /\ \A k \in Key : SeqsOf(k) \cap doubled = {} => Cardinality(Bubbles(k)) <= 1

\* Nothing is under way, and the client looks at the conversation.
Quiet ==
  /\ link /\ active
  /\ inbox = <<>> /\ outbox = <<>> /\ queue = <<>>
  /\ posts = {} /\ answers = {} /\ pages = <<>> /\ handlers = {}

\* Message n is in the thread, or among the older ones that hasMore promises.
Held(n) == Shown(n) # {} \/ Promised(n)

\* When all is quiet, every stored message is in the thread, but for those left
\* out in one of the ways listed under Gaps: drops, reordered pages, failed
\* requests and navigation lose no other.
LosesNothing == Quiet => \A n \in DOMAIN log \ missed : Held(n)

\* When all is quiet, no bubble waits for an answer for ever, unless its frame was lost
\* with the connection or refused, or its message was left out of the thread or shown
\* beside it.
NothingStuck ==
  Quiet =>
    \A i \in DOMAIN thread :
      thread[i].status = "sending"
        => \/ thread[i].key \in lost
           \/ SeqsOf(thread[i].key) \cap (missed \cup doubled) # {}
=============================================================================
