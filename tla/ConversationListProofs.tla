----------------------- MODULE ConversationListProofs -----------------------
(***************************************************************************)
(* Proofs about ConversationList, for any number of requests that start    *)
(* the conversation, of messages and of dropped connections: there is one  *)
(* conversation, whoever starts it, and the row in the list agrees with    *)
(* the database whenever nothing is under way.                             *)
(***************************************************************************)
EXTENDS ConversationList, FiniteSetTheorems, TLAPS

Party == {"viewer", "peer"}

\* Starts that are past their commit, or that have found a chat.
Founded == {"system", "refresh", "announce", "reply", "done"}

\* One start at a time has inserted the key, and only while there is no chat. A group
\* is started once.
Founding ==
  /\ \A s, t \in chats : s = t
  /\ \A s \in Start :
       /\ s \in chats => start[s] \in Founded
       /\ start[s] \in Founded => chats # {}
       /\ start[s] = "commit" => chats = {} /\ \A t \in Start : start[t] = "commit" => t = s
       /\ group /\ start[s] # "idle" =>
            /\ start[s] # "failed" /\ (start[s] = "flush" => chats = {})
            /\ \A t \in Start \ {s} : start[t] = "idle"

-----------------------------------------------------------------------------
IsNew(i) == inbox[i].kind = "new"

\* Every message was told, waits for its fan-out or is on its way, and only one of them.
Numbers ==
  /\ over \subseteq 1..lastSeq
  /\ \A p \in Party : posts[p] <= lastSeq /\ posts[p] \notin over
  /\ posts["viewer"] # 0 => posts["viewer"] # posts["peer"]
  /\ \A i \in DOMAIN inbox : IsNew(i) =>
       /\ inbox[i].seq <= lastSeq /\ inbox[i].seq \notin over
       /\ \A p \in Party : posts[p] # inbox[i].seq
       /\ \A j \in DOMAIN inbox : IsNew(j) /\ inbox[j].seq = inbox[i].seq => j = i
  /\ \A n \in 1..lastSeq :
       \/ n \in over
       \/ \E p \in Party : posts[p] = n
       \/ \E i \in DOMAIN inbox : IsNew(i) /\ inbox[i].seq = n

\* Nothing is on its way over a connection that is not there.
Connected == link # "up" => inbox = <<>>

\* Own messages the store has not heard of yet.
Own(n) ==
  n # 0 /\ \/ posts["viewer"] = n
           \/ \E i \in DOMAIN inbox : IsNew(i) /\ inbox[i].mine /\ inbox[i].seq = n

Owned == \E n \in 1..lastSeq : Own(n)

\* Nobody has read more than there is,
MarksKnown ==
  /\ mark <= lastSeq
  /\ \A n \in 1..lastSeq : Own(n) => n <= mark
  /\ \A f \in frame \cup rest : f <= lastSeq
  /\ row # NoRow => row.mark <= row.last /\ row.last <= lastSeq

\* and no mark in a snapshot is past the messages it came with.
SnapshotsKnown ==
  /\ \A r \in Reader :
       /\ snap[r].read.last <= lastSeq /\ snap[r].read.mark <= lastSeq
       /\ snap[r].step \in {"page", "answer"} => snap[r].read.mark <= snap[r].read.last
  /\ \A s \in Start :
       /\ start[s] \in {"announce", "reply"} => snap[s].step = "page"
       /\ start[s] = "announce" => snap[s].read.phase = 1
  /\ \A i \in DOMAIN inbox : inbox[i].kind = "conversation" =>
       LET s == inbox[i].snapshot
       IN  s.phase = 1 /\ s.mark <= s.last /\ s.last <= lastSeq

Announced(i) == inbox[i].kind = "conversation"
Removed(i) == inbox[i].kind = "removed"

\* What the viewer was told of the membership, or is to be told: that there is the
\* conversation, and after that that it is gone.
Membership ==
  /\ told # 0 => phase # 0
  /\ told = 2 => phase = 2 /\ \A i \in DOMAIN inbox : ~Announced(i)
  /\ leaving => phase = 2
  /\ phase = 0 <=> chats = {}
  /\ phase = 2 => group /\ \A s \in Start : start[s] \in {"idle", "done"}
  /\ \A i \in DOMAIN inbox :
       /\ Announced(i) => phase # 0
       /\ Removed(i) => phase = 2 /\ \A j \in DOMAIN inbox : j > i => ~Announced(j)
  /\ phase = 1 => \/ told = 1
                  \/ \E s \in Start : start[s] \in {"system", "refresh", "announce"}
                  \/ \E i \in DOMAIN inbox : Announced(i)
  /\ phase = 2 => told = 2 \/ leaving \/ \E i \in DOMAIN inbox : Removed(i)
  /\ \A s \in Start : start[s] = "system" =>
       group /\ told = 0 /\ \A i \in DOMAIN inbox : ~Announced(i)

\* A row that is not stale shows what was told,
Shown ==
  ~stale =>
    /\ row # NoRow <=> told = 1
    /\ row # NoRow => /\ over = 1..row.last /\ row.preview = row.last
                      /\ row.unread = row.last - row.mark

\* and its mark is the server's, but for the own messages and the frame under way.
Marked ==
  ~stale /\ row # NoRow /\ phase = 1 =>
    IF Owned
    THEN Own(mark)
    ELSE /\ mark <= row.mark
         /\ ~unsent => mark = row.mark \/ \E f \in frame : f = 0 \/ f >= row.mark

-----------------------------------------------------------------------------
\* A snapshot read from the database, and the row made of a snapshot, are well typed.
LEMMA NowType == TypeOK => Now \in Snapshot
  BY DEF TypeOK, Now, Snapshot

LEMMA EmptyType == Empty \in Snapshot
  BY BoundAssumption DEF Empty, Snapshot, Seq0

LEMMA RowOfType ==
  ASSUME NEW s \in Snapshot
  PROVE  RowOf(s) \in {NoRow} \cup Row
  BY BoundAssumption DEF RowOf, Snapshot, Row, Seq0

\* Reading keeps the type of what was read.
LEMMA ReadType ==
  ASSUME TypeOK, NEW r \in Reader, NEW read \in Snapshot,
         NEW step \in {"none", "asked", "member", "page", "answer"}, Read(r, step, read)
  PROVE  snap' \in [Reader -> [step : {"none", "asked", "member", "page", "answer"}, read : Snapshot]]
  BY DEF TypeOK, Read

\* What a snapshot becomes when another number is read, too.
LEMMA SnapshotFacts ==
  ASSUME TypeOK, NEW r \in Reader
  PROVE  /\ snap[r].read \in Snapshot
         /\ [snap[r].read EXCEPT !.preview = lastSeq] \in Snapshot
         /\ [snap[r].read EXCEPT !.last = lastSeq] \in Snapshot
         /\ [Now EXCEPT !.phase = 1, !.mark = 0] \in Snapshot
         /\ [Now EXCEPT !.preview = 0] \in Snapshot
         /\ [Empty EXCEPT !.phase = 1, !.mark = mark] \in Snapshot
  <1>1. snap[r].read \in Snapshot
    BY DEF TypeOK
  <1>2. lastSeq \in Seq0 /\ mark \in Seq0 /\ 0 \in Seq0 /\ 1 \in 0..2
    BY BoundAssumption DEF TypeOK, Seq0
  <1>3. ASSUME NEW s \in Snapshot, NEW n \in Seq0, NEW m \in Seq0
        PROVE  /\ [s EXCEPT !.preview = n] \in Snapshot /\ [s EXCEPT !.last = n] \in Snapshot
               /\ [s EXCEPT !.phase = 1, !.mark = m] \in Snapshot
    BY <1>2 DEF Snapshot
  <1> QED
    BY <1>1, <1>2, <1>3, NowType, EmptyType

\* An event that is pushed is on its way or told.
LEMMA PushType ==
  ASSUME TypeOK, NEW e \in Event, Push(e)
  PROVE  /\ inbox' \in Seq(Event)
         /\ over' \subseteq 1..MaxSeq
         /\ told' \in 0..2
         /\ stale' \in BOOLEAN
  <1>1. CASE link = "up"
    <2>1. inbox' = Append(inbox, e) /\ inbox \in Seq(Event)
      BY <1>1 DEF TypeOK, Push
    <2>2. inbox' \in Seq(Event)
      BY <2>1
    <2> QED
      BY <1>1, <2>2 DEF TypeOK, Push
  <1>2. CASE link # "up"
    <2>1. e.kind = "new" => e.seq \in 1..MaxSeq
      BY DEF Event
    <2> QED
      BY <1>2, <2>1 DEF TypeOK, Push, Tells
  <1> QED
    BY <1>1, <1>2

\* Marking a row as read keeps the types.
LEMMA MarksReadType ==
  ASSUME TypeOK, NEW r \in Row, NEW ends \in SUBSET Seq0, MarksRead(r, ends)
  PROVE  /\ row' \in Row
         /\ frame' \subseteq Seq0 /\ Cardinality(frame') <= 1
         /\ rest' \subseteq Seq0 /\ Cardinality(rest') <= 1
         /\ unsent' \in BOOLEAN
  <1>1. [r EXCEPT !.unread = 0, !.mark = r.last] \in Row
    <2>1. r.last \in Seq0 /\ 0 \in Nat
      BY DEF Row, Seq0
    <2> QED
      BY <2>1 DEF Row
  <1>2. /\ {} \subseteq Seq0 /\ Cardinality({}) <= 1
        /\ \A to \in Seq0 : {to} \subseteq Seq0 /\ Cardinality({to}) <= 1
    <2>1. Cardinality({}) = 0 /\ \A to \in Seq0 : Cardinality({to}) = 1
      BY FS_EmptySet, FS_Singleton
    <2> QED
      BY <2>1
  <1>3. \/ /\ row' = [r EXCEPT !.unread = 0, !.mark = r.last]
           /\ \E to \in {0} \cup ends : frame' = {to} \/ frame' = {}
           /\ rest' = {} \/ rest' = frame'
           /\ unsent' \in BOOLEAN
        \/ row' = r /\ unsent' \in BOOLEAN /\ UNCHANGED <<frame, rest>>
    BY DEF MarksRead, TypeOK
  <1>4. 0 \in Seq0
    BY BoundAssumption DEF Seq0
  <1> QED
    BY <1>1, <1>2, <1>3, <1>4 DEF TypeOK

\* The messages a thread may end in.
LEMMA EndsType ==
  ASSUME TypeOK
  PROVE  /\ 1..lastSeq \in SUBSET Seq0
         /\ \A e \in Event : e.kind = "new" => e.seq..lastSeq \in SUBSET Seq0
  <1>1. \A e \in Event : e.kind = "new" => e.seq \in 1..MaxSeq
    BY DEF Event
  <1> QED
    BY <1>1, BoundAssumption DEF TypeOK, Seq0

\* Marking messages as read keeps the types.
LEMMA MarksUpToType ==
  ASSUME TypeOK, NEW f \in Seq0, MarksUpTo(f)
  PROVE  mark' \in Seq0 /\ stale' \in BOOLEAN
  <1>1. mark' \in {mark, lastSeq, f} /\ stale' \in BOOLEAN
    BY DEF MarksUpTo
  <1> QED
    BY <1>1 DEF TypeOK

\* The row after a message is well typed.
LEMMA GrownType ==
  ASSUME TypeOK, row # NoRow, NEW e \in Event, e.kind = "new", NEW seen \in BOOLEAN
  PROVE  /\ Grown(e, 0, seen) \in Row
         /\ Grown(e, row.unread + 1, seen) \in Row
  <1>1. row \in Row /\ e.seq \in Seq0
    BY BoundAssumption DEF TypeOK, Event, Seq0
  <1> QED
    BY <1>1 DEF Grown, Row

-----------------------------------------------------------------------------
\* A start keeps the types.
LEMMA StartingTypes ==
  ASSUME TypeOK, NEW s \in Start, Starting(s)
  PROVE  TypeOK'
  <1> USE DEF Goto
  <1>0. s \in Reader
    BY DEF Reader
  <1>1. CASE StartLoad(s)
    BY <1>0, <1>1, ReadType, NowType DEF StartLoad, TypeOK, database, client, history
  <1>2. CASE StartFlush(s)
    BY <1>2 DEF StartFlush, TypeOK, database, client, history
  <1>3. CASE StartCommit(s)
    BY <1>3 DEF StartCommit, TypeOK, client, history
  <1>4. CASE StartSystem(s)
    <2>1. lastSeq' \in Seq0 /\ lastSeq + 1 \in 1..MaxSeq
      BY <1>4, BoundAssumption DEF StartSystem, TypeOK, Seq0
    <2> QED
      BY <1>4, <2>1 DEF StartSystem, TypeOK, client
  <1>5. CASE StartRefresh(s)
    BY <1>0, <1>5, ReadType, SnapshotFacts DEF StartRefresh, TypeOK, database, client, history
  <1>6. CASE StartAnnounce(s)
    <2>1. snap' \in [Reader -> [step : {"none", "asked", "member", "page", "answer"},
                                read : Snapshot]]
      BY <1>0, <1>6, ReadType, EmptyType DEF StartAnnounce, Forget, TypeOK
    <2>2. [kind |-> "conversation",
           snapshot |-> [snap[s].read EXCEPT !.preview = lastSeq]] \in Event
      BY <1>0, SnapshotFacts DEF Event
    <2>3. inbox' \in Seq(Event) /\ over' \subseteq 1..MaxSeq /\ told' \in 0..2 /\ stale' \in BOOLEAN
      BY <1>6, <2>2, PushType DEF StartAnnounce
    <2> QED
      BY <1>6, <2>1, <2>3 DEF StartAnnounce, TypeOK, database
  <1>7. CASE StartReply(s)
    BY <1>0, <1>7, ReadType, SnapshotFacts DEF StartReply, TypeOK, database, client, history
  <1> QED
    BY <1>1, <1>2, <1>3, <1>4, <1>5, <1>6, <1>7 DEF Starting

\* A message, its fan-out and a removal keep the types.
LEMMA HappeningTypes ==
  ASSUME TypeOK,
         \/ \E p \in Party : StoreMessage(p) \/ FanOut(p)
         \/ Remove \/ TellRemoved \/ HandleRead \/ HandleRest
  PROVE  TypeOK'
  <1> USE BoundAssumption
  <1>1. ASSUME NEW p \in Party, StoreMessage(p) PROVE TypeOK'
    <2>1. lastSeq' \in Seq0 /\ mark' \in Seq0 /\ posts' \in [Party -> Seq0]
      BY <1>1 DEF StoreMessage, TypeOK, Seq0, Party
    <2> QED
      BY <1>1, <2>1 DEF StoreMessage, TypeOK, client, history, Party
  <1>2. ASSUME NEW p \in Party, FanOut(p) PROVE TypeOK'
    <2>1. [kind |-> "new", seq |-> posts[p], mine |-> p = "viewer"] \in Event
      BY <1>2 DEF FanOut, TypeOK, Event, Seq0, Party
    <2>2. inbox' \in Seq(Event) /\ over' \subseteq 1..MaxSeq /\ told' \in 0..2 /\ stale' \in BOOLEAN
      BY <1>2, <2>1, PushType DEF FanOut
    <2>3. posts' \in [Party -> Seq0]
      BY <1>2 DEF FanOut, TypeOK, Seq0, Party
    <2> QED
      BY <1>2, <2>2, <2>3 DEF FanOut, TypeOK, database, Party
  <1>3. CASE Remove
    BY <1>3 DEF Remove, TypeOK, client, history
  <1>4. CASE TellRemoved
    <2>1. [kind |-> "removed"] \in Event
      BY DEF Event
    <2>2. inbox' \in Seq(Event) /\ over' \subseteq 1..MaxSeq /\ told' \in 0..2 /\ stale' \in BOOLEAN
      BY <1>4, <2>1, PushType DEF TellRemoved
    <2> QED
      BY <1>4, <2>2 DEF TellRemoved, TypeOK, database
  <1>5. CASE HandleRead
    <2>1. Cardinality({}) = 0
      BY FS_EmptySet
    <2>2. frame' = {} /\ mark' \in Seq0 /\ stale' \in BOOLEAN
      BY <1>5, MarksUpToType DEF HandleRead, TypeOK
    <2> QED
      BY <1>5, <2>1, <2>2 DEF HandleRead, TypeOK, serving
  <1>6. CASE HandleRest
    <2>1. Cardinality({}) = 0
      BY FS_EmptySet
    <2>2. rest' = {} /\ mark' \in Seq0 /\ stale' \in BOOLEAN
      BY <1>6, MarksUpToType DEF HandleRest, TypeOK
    <2> QED
      BY <1>6, <2>1, <2>2 DEF HandleRest, TypeOK, serving
  <1> QED
    BY <1>1, <1>2, <1>3, <1>4, <1>5, <1>6

\* Reading a snapshot and its arrival keep the types.
LEMMA SnapshotTypes ==
  ASSUME TypeOK,
         \/ ReadPage \/ DetailMember \/ DetailConversation
         \/ \E r \in Reader : ReadPreview(r) \/ DetailEnds(r)
         \/ ListEnds \/ ListFails
  PROVE  TypeOK'
  <1> USE SnapshotFacts, EmptyType, ReadType
  <1>0. "list" \in Reader /\ "detail" \in Reader
    BY DEF Reader
  <1>1. CASE ReadPage
    BY <1>0, <1>1 DEF ReadPage, TypeOK, database, client, history
  <1>2. CASE DetailMember
    BY <1>0, <1>2 DEF DetailMember, Forget, TypeOK, database, client, history
  <1>3. CASE DetailConversation
    BY <1>0, <1>3 DEF DetailConversation, TypeOK, database, client, history
  <1>4. ASSUME NEW r \in Reader, ReadPreview(r) PROVE TypeOK'
    BY <1>4 DEF ReadPreview, TypeOK, database, client, history
  <1>5. ASSUME NEW r \in Reader, Forget(r), Replace(snap[r].read)
        PROVE  /\ snap' \in [Reader -> [step : {"none", "asked", "member", "page", "answer"},
                                        read : Snapshot]]
               /\ row' \in {NoRow} \cup Row
               /\ stale' \in BOOLEAN /\ unsent' \in BOOLEAN
    BY <1>5, RowOfType DEF Forget, Replace
  <1>6. ASSUME NEW r \in Reader, DetailEnds(r) PROVE TypeOK'
    BY <1>5, <1>6 DEF DetailEnds, TypeOK, database
  <1>7. CASE ListEnds
    BY <1>0, <1>5, <1>7 DEF ListEnds, TypeOK, database
  <1>8. CASE ListFails
    BY <1>0, <1>8 DEF ListFails, Forget, TypeOK, database, client, history
  <1> QED
    BY <1>1, <1>2, <1>3, <1>4, <1>6, <1>7, <1>8

\* An event that is handled keeps the types, whatever it tells.
LEMMA HandleTypes ==
  ASSUME TypeOK, Handle
  PROVE  TypeOK'
  <1> DEFINE e == Head(inbox)
  <1>1. e \in Event /\ inbox' \in Seq(Event)
    BY DEF Handle, TypeOK
  <1> HIDE DEF e
  <1>2. Tells(e) /\ (HearMessage(e) \/ HearUnknown(e) \/ HearConversation(e) \/ HearRemoved(e))
    BY DEF Handle, e
  <1>3. over' \subseteq 1..MaxSeq /\ told' \in 0..2
    <2>1. e.kind = "new" => e.seq \in 1..MaxSeq
      BY <1>1 DEF Event
    <2> QED
      BY <1>2, <2>1 DEF Tells, TypeOK
  <1>4. /\ snap' \in [Reader -> [step : {"none", "asked", "member", "page", "answer"},
                                 read : Snapshot]]
        /\ row' \in {NoRow} \cup Row
        /\ frame' \subseteq Seq0 /\ Cardinality(frame') <= 1
        /\ rest' \subseteq Seq0 /\ Cardinality(rest') <= 1
        /\ view' \in {"away", "left", "open", "hidden"}
        /\ unsent' \in BOOLEAN /\ stale' \in BOOLEAN
    <2>1. CASE HearMessage(e)
      <3>1. Grown(e, 0, TRUE) \in Row /\ Grown(e, row.unread + 1, FALSE) \in Row
        BY <1>1, <2>1, GrownType DEF HearMessage
      <3>2. UNCHANGED <<snap, view>> /\ stale' \in BOOLEAN
        BY <2>1 DEF HearMessage, TypeOK
      <3>3. CASE view = "open" /\ ~e.mine
        BY <1>1, <2>1, <3>1, <3>2, <3>3, MarksReadType, EndsType DEF HearMessage, TypeOK
      <3>4. CASE ~(view = "open" /\ ~e.mine)
        BY <2>1, <3>1, <3>2, <3>4 DEF HearMessage, TypeOK
      <3> QED
        BY <3>3, <3>4
    <2>2. CASE HearUnknown(e)
      <3>1. "detail" \in Reader
        BY DEF Reader
      <3> QED
        BY <2>2, <3>1, ReadType, EmptyType DEF HearUnknown, TypeOK
    <2>3. CASE HearConversation(e)
      <3>1. e.snapshot \in Snapshot
        BY <1>1, <2>3 DEF HearConversation, Event
      <3> QED
        BY <2>3, <3>1, RowOfType DEF HearConversation, TypeOK
    <2>4. CASE HearRemoved(e)
      BY <2>4 DEF HearRemoved, TypeOK
    <2> QED
      BY <1>2, <2>1, <2>2, <2>3, <2>4
  <1> QED
    BY <1>1, <1>3, <1>4 DEF Handle, TypeOK, database

\* The viewer and the connection keep the types.
LEMMA ViewerTypes ==
  ASSUME TypeOK, Open \/ Look \/ Hide \/ Leave \/ Connect \/ Drop \/ Reconnect
  PROVE  TypeOK'
  <1>1. CASE Open \/ Look
    <2>1. row \in Row /\ MarksRead(row, 1..lastSeq) /\ view' \in {"away", "left", "open", "hidden"}
      BY <1>1 DEF Open, Look, TypeOK
    <2>2. /\ row' \in Row
          /\ frame' \subseteq Seq0 /\ Cardinality(frame') <= 1
          /\ rest' \subseteq Seq0 /\ Cardinality(rest') <= 1
          /\ unsent' \in BOOLEAN
      BY <2>1, MarksReadType, EndsType
    <2> QED
      BY <1>1, <2>1, <2>2 DEF Open, Look, TypeOK, database, serving
  <1>2. CASE Hide \/ Leave
    BY <1>2 DEF Hide, Leave, TypeOK, database, serving, history
  <1>3. CASE Connect
    BY <1>3 DEF Connect, TypeOK, database, serving, history
  <1>4. CASE Drop
    <2> DEFINE events == {inbox[i] : i \in 1..Len(inbox)}
    <2>1. events \subseteq Event
      BY DEF TypeOK
    <2> HIDE DEF events
    <2>2. {e.seq : e \in {f \in events : f.kind = "new"}} \subseteq 1..MaxSeq
      BY <2>1 DEF Event
    <2>3. over' \subseteq 1..MaxSeq
      BY <1>4, <2>2 DEF Drop, TypeOK, events
    <2>4. told' \in 0..2 /\ drops' \in 0..MaxDrops /\ stale' \in BOOLEAN
      BY <1>4, BoundAssumption DEF Drop, TypeOK
    <2>5. Cardinality(frame') = 0
      BY <1>4, FS_EmptySet DEF Drop
    <2> QED
      BY <1>4, <2>3, <2>4, <2>5 DEF Drop, TypeOK, database, serving
  <1>5. CASE Reconnect
    <2>1. "list" \in Reader
      BY DEF Reader
    <2> QED
      BY <1>5, <2>1, ReadType, EmptyType DEF Reconnect, TypeOK, database, history
  <1> QED
    BY <1>1, <1>2, <1>3, <1>4, <1>5

\* Every variable keeps its type, whatever starts, messages and snapshots cross.
THEOREM TypeCorrect == Spec => []TypeOK
  <1>1. Init => TypeOK
    <2>1. Cardinality({}) = 0
      BY FS_EmptySet
    <2>2. ASSUME Init
          PROVE  snap \in [Reader -> [step : {"none", "asked", "member", "page", "answer"},
                                     read : Snapshot]]
      BY <2>2, EmptyType DEF Init
    <2>3. inbox = <<>> => inbox \in Seq(Event)
      OBVIOUS
    <2>4. 0 \in Seq0 /\ 0 \in 0..MaxDrops /\ 0 \in 0..2
      BY BoundAssumption DEF Seq0
    <2>5. ASSUME Init
          PROVE  /\ start \in [Start -> {"idle", "flush", "commit", "system", "refresh",
                                        "announce", "reply", "done", "failed"}]
                 /\ posts \in [{"viewer", "peer"} -> Seq0]
      BY <2>4, <2>5 DEF Init
    <2>6. ASSUME Init
          PROVE  /\ link \in {"booting", "down", "up", "reconnecting"}
                 /\ view \in {"away", "left", "open", "hidden"}
                 /\ chats \subseteq Start /\ frame \subseteq Seq0 /\ rest \subseteq Seq0
                 /\ over \subseteq 1..MaxSeq
      BY <2>6 DEF Init
    <2>7. Cardinality({}) <= 1
      BY <2>1
    <2> QED
      BY <2>2, <2>3, <2>4, <2>5, <2>6, <2>7, Zenon DEF Init, TypeOK
  <1>2. TypeOK /\ [Next]_vars => TypeOK'
    <2> SUFFICES ASSUME TypeOK, [Next]_vars PROVE TypeOK'
      OBVIOUS
    <2>1. CASE Next
      <3>1. ASSUME NEW s \in Start, Starting(s) PROVE TypeOK'
        BY <3>1, StartingTypes
      <3>2. ASSUME \/ \E p \in Party : StoreMessage(p) \/ FanOut(p)
                   \/ Remove \/ TellRemoved \/ HandleRead \/ HandleRest
            PROVE  TypeOK'
        BY <3>2, HappeningTypes
      <3>3. ASSUME \/ ReadPage \/ DetailMember \/ DetailConversation
                   \/ \E r \in Reader : ReadPreview(r) \/ DetailEnds(r)
                   \/ ListEnds \/ ListFails
            PROVE  TypeOK'
        BY <3>3, SnapshotTypes
      <3> QED
        BY <2>1, <3>1, <3>2, <3>3, HandleTypes, ViewerTypes DEF Next, Party
    <2>2. CASE UNCHANGED vars
      BY <2>2 DEF vars, database, serving, client, history, TypeOK
    <2> QED
      BY <2>1, <2>2
  <1> QED
    BY <1>1, <1>2, PTL DEF Spec

-----------------------------------------------------------------------------
\* Where a start may be.
Stage == {"idle", "flush", "commit", "system", "refresh", "announce", "reply", "done", "failed"}

LEMMA GotoFacts ==
  ASSUME TypeOK, NEW s \in Start, NEW from, NEW to, Goto(s, from, to)
  PROVE  /\ start[s] = from /\ start'[s] = to
         /\ \A t \in Start : t # s => start'[t] = start[t]
         /\ \A t \in Start : start[t] \in Stage
  BY DEF Goto, TypeOK, Stage

\* A start that goes on keeps the key to one conversation.
LEMMA StartingFounding ==
  ASSUME TypeOK, Founding, NEW s \in Start, Starting(s)
  PROVE  Founding'
  <1> USE DEF Founding, Founded
  <1>1. CASE StartLoad(s)
    <2>1. UNCHANGED <<group, chats>>
      BY <1>1 DEF StartLoad, database, history
    <2>2. PICK to \in {"reply", "done", "flush"} :
            /\ Goto(s, "idle", to)
            /\ to # "flush" => ~group /\ chats # {}
            /\ to = "flush" => group \/ chats = {}
      BY <1>1 DEF StartLoad
    <2>3. group => chats = {} /\ \A t \in Start : start[t] = "idle"
      BY <1>1 DEF StartLoad, TypeOK
    <2> QED
      BY <2>1, <2>2, <2>3, GotoFacts
  <1>2. CASE StartFlush(s)
    <2>1. UNCHANGED <<group, chats>>
      BY <1>2 DEF StartFlush, database, history
    <2>2. \A t \in Start : start[t] # "commit"
      BY <1>2 DEF StartFlush
    <2>3. CASE ~group /\ chats # {}
      <3>1. Goto(s, "flush", "failed")
        BY <1>2, <2>3 DEF StartFlush
      <3> QED
        BY <2>1, <2>3, <3>1, GotoFacts
    <2>4. CASE group \/ chats = {}
      <3>1. Goto(s, "flush", "commit")
        BY <1>2, <2>4 DEF StartFlush
      <3>2. chats = {}
        BY <2>4, <3>1, GotoFacts
      <3> QED
        BY <2>1, <2>2, <3>1, <3>2, GotoFacts
    <2> QED
      BY <2>3, <2>4
  <1>3. CASE StartCommit(s)
    <2>1. /\ chats = {} /\ chats' = {s} /\ UNCHANGED group
          /\ \A t \in Start : t # s => start[t] # "commit"
      BY <1>3 DEF StartCommit, Goto
    <2>2. PICK to \in {"system", "refresh"} : Goto(s, "commit", to)
      BY <1>3 DEF StartCommit
    <2> QED
      BY <2>1, <2>2, GotoFacts
  <1>4. CASE StartSystem(s) \/ StartRefresh(s) \/ StartAnnounce(s) \/ StartReply(s)
    <2>1. UNCHANGED <<group, chats>>
      BY <1>4 DEF StartSystem, StartRefresh, StartAnnounce, StartReply, database, history
    <2>2. PICK from \in Founded, to \in Founded : Goto(s, from, to)
      BY <1>4 DEF StartSystem, StartRefresh, StartAnnounce, StartReply
    <2> QED
      BY <2>1, <2>2, GotoFacts
  <1> QED
    BY <1>1, <1>2, <1>3, <1>4 DEF Starting

\* What the starts do not read, and what a step that is none of theirs leaves alone.
LEMMA OtherSteps ==
  ASSUME Next, \A s \in Start : ~Starting(s)
  PROVE  UNCHANGED <<group, chats, start>>
  BY DEF Next, StoreMessage, FanOut, Remove, TellRemoved, HandleRead, HandleRest, ReadPage, DetailMember,
         DetailConversation, ReadPreview, DetailEnds, ListEnds, ListFails, Handle, Open, Look, Hide,
         Leave, Connect, Drop, Reconnect, database, serving, history

\* One key, one conversation: at most one start is between its INSERT and its commit.
LEMMA FoundingHolds == Spec => [](TypeOK /\ Founding)
  <1>1. Init => Founding
    BY DEF Init, Founding, Founded
  <1>2. TypeOK /\ Founding /\ [Next]_vars => Founding'
    <2> SUFFICES ASSUME TypeOK, Founding, [Next]_vars PROVE Founding'
      OBVIOUS
    <2>1. CASE UNCHANGED <<group, chats, start>>
      BY <2>1 DEF Founding
    <2>2. ASSUME NEW s \in Start, Starting(s) PROVE Founding'
      BY <2>2, StartingFounding
    <2>3. UNCHANGED vars => UNCHANGED <<group, chats, start>>
      BY DEF vars, database, serving, history
    <2> QED
      BY <2>1, <2>2, <2>3, OtherSteps
  <1> QED
    BY <1>1, <1>2, TypeCorrect, PTL DEF Spec

\* However many start the conversation, and whatever they overlap, there is one, and who
\* is answered is answered with it (get_or_create_direct, create_group).
THEOREM ThereIsOneChat == Spec => []OneChat
  <1>1. TypeOK /\ Founding => OneChat
    <2> SUFFICES ASSUME TypeOK, Founding PROVE OneChat
      OBVIOUS
    <2>1. Cardinality(chats) <= 1
      <3>1. CASE chats = {}
        BY <3>1, FS_EmptySet
      <3>2. ASSUME NEW s \in chats PROVE Cardinality(chats) = 1
        <4>1. chats = {s}
          BY DEF Founding
        <4> QED
          BY <4>1, FS_Singleton
      <3> QED
        BY <3>1, <3>2
    <2> QED
      BY <2>1 DEF OneChat, Founding, Founded
  <1> QED
    BY <1>1, FoundingHolds, PTL

-----------------------------------------------------------------------------
\* What an event on its way is.
LEMMA EventFacts ==
  ASSUME TypeOK
  PROVE  /\ Len(inbox) \in Nat /\ DOMAIN inbox = 1..Len(inbox)
         /\ \A i \in DOMAIN inbox :
              /\ inbox[i] \in Event
              /\ inbox[i].kind \in {"new", "conversation", "removed"}
              /\ IsNew(i) => inbox[i].seq \in 1..MaxSeq
              /\ inbox[i].kind = "conversation" => inbox[i].snapshot \in Snapshot
  <1>1. Len(inbox) \in Nat /\ DOMAIN inbox = 1..Len(inbox)
        /\ \A i \in DOMAIN inbox : inbox[i] \in Event
    BY DEF TypeOK
  <1>2. \A e \in Event : /\ e.kind \in {"new", "conversation", "removed"}
                         /\ e.kind = "new" => e.seq \in 1..MaxSeq
                         /\ e.kind = "conversation" => e.snapshot \in Snapshot
    BY DEF Event
  <1> QED
    BY <1>1, <1>2 DEF IsNew

\* An event that is pushed over a connection comes last.
LEMMA Pushed ==
  ASSUME TypeOK, NEW e \in Event, Push(e), link = "up"
  PROVE  /\ UNCHANGED <<over, told, stale>> /\ DOMAIN inbox' \subseteq Nat
         /\ \E last \in DOMAIN inbox' :
              /\ last \notin DOMAIN inbox /\ inbox'[last] = e
              /\ DOMAIN inbox' = DOMAIN inbox \cup {last}
              /\ \A i \in DOMAIN inbox : i < last /\ inbox'[i] = inbox[i]
  <1>1. inbox' = Append(inbox, e) /\ inbox \in Seq(Event)
    BY DEF Push, TypeOK
  <1>2. Len(inbox) \in Nat /\ DOMAIN inbox = 1..Len(inbox)
    BY EventFacts
  <1>3. DOMAIN inbox' = 1..(Len(inbox) + 1) /\ inbox'[Len(inbox) + 1] = e
        /\ \A i \in DOMAIN inbox : inbox'[i] = inbox[i]
    BY <1>1, <1>2
  <1> QED
    BY <1>2, <1>3 DEF Push

\* The event that is handled was the first, and the others move up.
LEMMA Taken ==
  ASSUME TypeOK, Handle
  PROVE  /\ 1 \in DOMAIN inbox /\ inbox[1] = Head(inbox)
         /\ \A i \in DOMAIN inbox' : /\ i + 1 \in DOMAIN inbox /\ i + 1 # 1
                                     /\ inbox'[i] = inbox[i + 1]
         /\ \A i \in DOMAIN inbox : i # 1 => /\ i - 1 \in DOMAIN inbox'
                                             /\ inbox'[i - 1] = inbox[i]
         /\ DOMAIN inbox \subseteq Nat /\ DOMAIN inbox' \subseteq Nat
  <1>1. inbox # <<>> /\ inbox' = Tail(inbox) /\ inbox \in Seq(Event)
    BY DEF Handle, TypeOK
  <1>2. Len(inbox) \in Nat /\ DOMAIN inbox = 1..Len(inbox) /\ Len(inbox) # 0
    BY <1>1, EventFacts
  <1>3. DOMAIN inbox' = 1..(Len(inbox) - 1)
        /\ \A i \in 1..(Len(inbox) - 1) : inbox'[i] = inbox[i + 1]
    BY <1>1, <1>2
  <1> QED
    BY <1>1, <1>2, <1>3

\* Without a connection nothing is on its way.
LEMMA ConnectedStep ==
  ASSUME TypeOK, Connected, Next
  PROVE  Connected'
  <1>1. ASSUME NEW e, Push(e), UNCHANGED link PROVE Connected'
    BY <1>1 DEF Push, Connected
  <1>2. ASSUME NEW s \in Start, Starting(s) PROVE Connected'
    BY <1>1, <1>2 DEF Starting, StartLoad, StartFlush, StartCommit, StartSystem, StartRefresh,
                      StartAnnounce, StartReply, client, Connected
  <1>3. ASSUME NEW p \in Party, StoreMessage(p) \/ FanOut(p) PROVE Connected'
    BY <1>1, <1>3 DEF StoreMessage, FanOut, client, Connected
  <1>4. CASE TellRemoved
    BY <1>1, <1>4 DEF TellRemoved
  <1>5. CASE UNCHANGED <<link, inbox>>
    BY <1>5 DEF Connected
  <1>6. CASE ListEnds \/ Connect \/ Reconnect
    BY <1>6 DEF ListEnds, Connect, Reconnect, Connected
  <1>7. CASE Drop \/ Handle
    BY <1>7 DEF Drop, Handle, Connected
  <1> QED
    BY <1>2, <1>3, <1>4, <1>5, <1>6, <1>7
       DEF Next, Party, Remove, HandleRead, HandleRest, ReadPage, DetailMember, DetailConversation,
           ReadPreview, DetailEnds, ListFails, Open, Look, Hide, Leave, client

-----------------------------------------------------------------------------
\* A new message has a new number.
LEMMA StoreNumbers ==
  ASSUME TypeOK, Numbers, NEW p \in Party, StoreMessage(p)
  PROVE  Numbers'
  <1>1. /\ lastSeq \in Nat /\ lastSeq' = lastSeq + 1 /\ posts[p] = 0
        /\ posts'[p] = lastSeq + 1 /\ \A q \in Party : q # p => posts'[q] = posts[q]
        /\ \A q \in Party : posts[q] \in Nat
        /\ UNCHANGED <<over, inbox>>
    BY DEF StoreMessage, TypeOK, Seq0, Party, client, history
  <1>2. \A i \in DOMAIN inbox : IsNew(i) => inbox[i].seq \in Nat
    BY EventFacts
  <1>3. over' \subseteq 1..lastSeq'
    BY <1>1 DEF Numbers
  <1>4. \A q \in Party : posts'[q] <= lastSeq' /\ posts'[q] \notin over'
    BY <1>1 DEF Numbers
  <1>5. posts'["viewer"] # 0 => posts'["viewer"] # posts'["peer"]
    BY <1>1 DEF Numbers, Party
  <1>6. \A i \in DOMAIN inbox : IsNew(i) =>
          /\ inbox[i].seq <= lastSeq' /\ inbox[i].seq \notin over
          /\ \A q \in Party : posts'[q] # inbox[i].seq
          /\ \A j \in DOMAIN inbox : IsNew(j) /\ inbox[j].seq = inbox[i].seq => j = i
    BY <1>1, <1>2 DEF Numbers
  <1>7. \A n \in 1..lastSeq' :
          \/ n \in over
          \/ \E q \in Party : posts'[q] = n
          \/ \E i \in DOMAIN inbox : IsNew(i) /\ inbox[i].seq = n
    <2> SUFFICES ASSUME NEW n \in 1..lastSeq', n # lastSeq + 1
                 PROVE  \/ n \in over
                        \/ \E q \in Party : posts'[q] = n
                        \/ \E i \in DOMAIN inbox : IsNew(i) /\ inbox[i].seq = n
      BY <1>1
    <2>1. n \in 1..lastSeq /\ posts[p] # n
      BY <1>1
    <2> QED
      BY <1>1, <2>1 DEF Numbers
  <1> QED
    BY <1>1, <1>3, <1>4, <1>5, <1>6, <1>7 DEF Numbers, IsNew

\* "... created the group" has a new number, and is never on its way.
LEMMA SystemNumbers ==
  ASSUME TypeOK, Numbers, NEW s \in Start, StartSystem(s)
  PROVE  Numbers'
  <1>1. /\ lastSeq \in Nat /\ lastSeq' = lastSeq + 1 /\ over' = over \cup {lastSeq + 1}
        /\ UNCHANGED <<posts, inbox>>
    BY DEF StartSystem, TypeOK, Seq0, client
  <1>2. \A i \in DOMAIN inbox : IsNew(i) => inbox[i].seq \in Nat
    BY EventFacts
  <1>3. \A q \in Party : posts[q] \in Nat
    BY DEF TypeOK, Seq0, Party
  <1> QED
    BY <1>1, <1>2, <1>3 DEF Numbers, IsNew

\* An event that is no message changes no number.
LEMMA OtherPushNumbers ==
  ASSUME TypeOK, Numbers, NEW e \in Event, e.kind # "new", Push(e), UNCHANGED <<lastSeq, posts>>
  PROVE  Numbers'
  <1>1. CASE link = "up"
    <2>1. UNCHANGED over
      BY <1>1, Pushed
    <2>2. PICK last \in DOMAIN inbox' :
            /\ last \notin DOMAIN inbox /\ inbox'[last] = e
            /\ DOMAIN inbox' = DOMAIN inbox \cup {last}
            /\ \A i \in DOMAIN inbox : i < last /\ inbox'[i] = inbox[i]
      BY <1>1, Pushed
    <2>3. \A i \in DOMAIN inbox' : IsNew(i)' <=> i \in DOMAIN inbox /\ IsNew(i)
      BY <2>2 DEF IsNew
    <2> QED
      BY <2>1, <2>2, <2>3 DEF Numbers
  <1>2. CASE link # "up"
    BY <1>2 DEF Push, Tells, Numbers, IsNew
  <1> QED
    BY <1>1, <1>2

\* The fan-out moves a message from its sender's session to its way, or loses it.
LEMMA FanOutNumbers ==
  ASSUME TypeOK, Numbers, NEW p \in Party, FanOut(p)
  PROVE  Numbers'
  <1> DEFINE e == [kind |-> "new", seq |-> posts[p], mine |-> p = "viewer"]
  <1>1. /\ posts[p] # 0 /\ posts'[p] = 0 /\ UNCHANGED lastSeq
        /\ \A q \in Party : q # p => posts'[q] = posts[q]
        /\ \A q \in Party : posts[q] \in Nat
        /\ Push(e)
    BY DEF FanOut, TypeOK, Seq0, Party, database
  <1>2. e \in Event /\ e.kind = "new" /\ e.seq = posts[p]
    BY <1>1 DEF TypeOK, Event, Seq0, Party
  <1> HIDE DEF e
  <1>3. \A q \in Party : q # p => posts[q] # posts[p]
    BY <1>1 DEF Numbers, Party
  <1>4. lastSeq \in Nat /\ posts[p] \in 1..lastSeq /\ 0 \notin over
    BY <1>1 DEF Numbers, TypeOK, Seq0
  <1>5. CASE link = "up"
    <2>1. UNCHANGED over
      BY <1>1, <1>2, <1>5, Pushed
    <2>2. PICK last \in DOMAIN inbox' :
            /\ last \notin DOMAIN inbox /\ inbox'[last] = e
            /\ DOMAIN inbox' = DOMAIN inbox \cup {last}
            /\ \A i \in DOMAIN inbox : i < last /\ inbox'[i] = inbox[i]
      BY <1>1, <1>2, <1>5, Pushed
    <2>3. \A i \in DOMAIN inbox : IsNew(i) =>
            /\ inbox[i].seq # posts[p] /\ inbox[i].seq \in 1..MaxSeq
            /\ inbox[i].seq <= lastSeq /\ inbox[i].seq \notin over
      BY EventFacts DEF Numbers
    <2>4. IsNew(last)' /\ \A i \in DOMAIN inbox : IsNew(i)' <=> IsNew(i)
      BY <1>2, <2>2 DEF IsNew
    <2>5. \A i \in DOMAIN inbox' : IsNew(i)' =>
            /\ inbox'[i].seq <= lastSeq' /\ inbox'[i].seq \notin over'
            /\ \A q \in Party : posts'[q] # inbox'[i].seq
            /\ \A j \in DOMAIN inbox' : IsNew(j)' /\ inbox'[j].seq = inbox'[i].seq => j = i
      BY <1>1, <1>2, <1>3, <1>4, <2>1, <2>2, <2>3, <2>4 DEF Numbers
    <2>6. \A n \in 1..lastSeq' :
            \/ n \in over'
            \/ \E q \in Party : posts'[q] = n
            \/ \E i \in DOMAIN inbox' : IsNew(i)' /\ inbox'[i].seq = n
      <3> SUFFICES ASSUME NEW n \in 1..lastSeq, n \notin over, n # posts[p]
                   PROVE  \/ \E q \in Party : posts'[q] = n
                          \/ \E i \in DOMAIN inbox' : IsNew(i)' /\ inbox'[i].seq = n
        BY <1>1, <1>2, <2>1, <2>2, <2>4
      <3>1. \/ \E q \in Party : posts[q] = n
            \/ \E i \in DOMAIN inbox : IsNew(i) /\ inbox[i].seq = n
        BY DEF Numbers
      <3> QED
        BY <1>1, <2>2, <2>4, <3>1
    <2> QED
      BY <1>1, <1>3, <1>4, <2>1, <2>5, <2>6 DEF Numbers, Party
  <1>6. CASE link # "up"
    <2>1. over' = over \cup {posts[p]} /\ UNCHANGED inbox
      BY <1>1, <1>2, <1>6 DEF Push, Tells
    <2>2. \A i \in DOMAIN inbox : IsNew(i) => inbox[i].seq \in 1..MaxSeq
      BY EventFacts
    <2>3. over' \subseteq 1..lastSeq' /\ UNCHANGED lastSeq
      BY <1>1, <1>4, <2>1 DEF Numbers
    <2>4. \A q \in Party : posts'[q] <= lastSeq' /\ posts'[q] \notin over'
      BY <1>1, <1>3, <1>4, <2>1 DEF Numbers
    <2>5. posts'["viewer"] # 0 => posts'["viewer"] # posts'["peer"]
      BY <1>1 DEF Numbers, Party
    <2>6. \A i \in DOMAIN inbox : IsNew(i) =>
            /\ inbox[i].seq <= lastSeq /\ inbox[i].seq \notin over'
            /\ \A q \in Party : posts'[q] # inbox[i].seq
            /\ \A j \in DOMAIN inbox : IsNew(j) /\ inbox[j].seq = inbox[i].seq => j = i
      BY <1>1, <2>1, <2>2 DEF Numbers
    <2>7. \A n \in 1..lastSeq :
            \/ n \in over'
            \/ \E q \in Party : posts'[q] = n
            \/ \E i \in DOMAIN inbox : IsNew(i) /\ inbox[i].seq = n
      BY <1>1, <2>1 DEF Numbers
    <2> QED
      BY <2>1, <2>3, <2>4, <2>5, <2>6, <2>7 DEF Numbers, IsNew
  <1> QED
    BY <1>5, <1>6

\* A message that is handled was told.
LEMMA HandleNumbers ==
  ASSUME TypeOK, Numbers, Handle
  PROVE  Numbers'
  <1>1. UNCHANGED <<lastSeq, posts>> /\ Tells(inbox[1])
    BY Taken DEF Handle, database
  <1>2. \A i \in DOMAIN inbox' : i + 1 \in DOMAIN inbox /\ (IsNew(i)' <=> IsNew(i + 1))
    BY Taken DEF IsNew
  <1>3. \A i \in DOMAIN inbox' : IsNew(i)' =>
          /\ inbox'[i].seq <= lastSeq' /\ inbox'[i].seq \notin over'
          /\ \A q \in Party : posts'[q] # inbox'[i].seq
          /\ \A j \in DOMAIN inbox' : IsNew(j)' /\ inbox'[j].seq = inbox'[i].seq => j = i
    <2> SUFFICES ASSUME NEW i \in DOMAIN inbox', IsNew(i)'
                 PROVE  /\ inbox'[i].seq <= lastSeq' /\ inbox'[i].seq \notin over'
                        /\ \A q \in Party : posts'[q] # inbox'[i].seq
                        /\ \A j \in DOMAIN inbox' :
                             IsNew(j)' /\ inbox'[j].seq = inbox'[i].seq => j = i
      OBVIOUS
    <2>1. i + 1 \in DOMAIN inbox /\ IsNew(i + 1) /\ inbox'[i] = inbox[i + 1] /\ i + 1 # 1
      BY <1>2, Taken
    <2>2. inbox[i + 1].seq \notin over'
      BY <1>1, <2>1, Taken DEF Numbers, Tells, IsNew
    <2>3. ASSUME NEW j \in DOMAIN inbox', IsNew(j)', inbox'[j].seq = inbox'[i].seq
          PROVE  j = i
      <3>1. j + 1 \in DOMAIN inbox /\ IsNew(j + 1) /\ inbox'[j] = inbox[j + 1]
        BY <1>2, <2>3, Taken
      <3>2. j + 1 = i + 1
        BY <2>1, <2>3, <3>1 DEF Numbers
      <3> QED
        BY <3>2, Taken
    <2> QED
      BY <1>1, <2>1, <2>2, <2>3 DEF Numbers
  <1>4. \A n \in 1..lastSeq' :
          \/ n \in over'
          \/ \E q \in Party : posts'[q] = n
          \/ \E i \in DOMAIN inbox' : IsNew(i)' /\ inbox'[i].seq = n
    <2> SUFFICES ASSUME NEW n \in 1..lastSeq, NEW i \in DOMAIN inbox, IsNew(i), inbox[i].seq = n
                 PROVE  \/ n \in over'
                        \/ \E k \in DOMAIN inbox' : IsNew(k)' /\ inbox'[k].seq = n
      BY <1>1 DEF Numbers, Tells
    <2>1. CASE i = 1
      BY <1>1, <2>1 DEF Tells, IsNew
    <2>2. CASE i # 1
      BY <2>2, Taken DEF IsNew
    <2> QED
      BY <2>1, <2>2
  <1>5. over' \subseteq 1..lastSeq'
        /\ \A q \in Party : posts'[q] <= lastSeq' /\ posts'[q] \notin over'
    <2>1. IsNew(1) => /\ inbox[1].seq \in 1..lastSeq
                      /\ \A q \in Party : posts[q] # inbox[1].seq
      BY Taken, EventFacts DEF Numbers, TypeOK, Seq0
    <2> QED
      BY <1>1, <2>1 DEF Numbers, Tells, IsNew
  <1> QED
    BY <1>1, <1>3, <1>4, <1>5 DEF Numbers

\* What a dropped connection loses counts as told.
LEMMA DropNumbers ==
  ASSUME TypeOK, Numbers, Drop
  PROVE  Numbers'
  <1>1. \A n : n \in over' <=> n \in over \/ \E i \in DOMAIN inbox : IsNew(i) /\ inbox[i].seq = n
    BY EventFacts DEF Drop, IsNew
  <1>2. UNCHANGED <<lastSeq, posts>> /\ DOMAIN inbox' = {}
    BY DEF Drop, database, serving
  <1>3. \A i \in DOMAIN inbox : IsNew(i) => inbox[i].seq \in 1..lastSeq
    BY EventFacts DEF Numbers, TypeOK, Seq0
  <1>4. over' \subseteq 1..lastSeq'
    <2> SUFFICES ASSUME NEW n \in over' PROVE n \in 1..lastSeq
      BY <1>2
    <2>1. over \subseteq 1..lastSeq
      BY DEF Numbers
    <2> QED
      BY <1>1, <1>3, <2>1
  <1>5. \A n \in 1..lastSeq' : n \in over' \/ \E q \in Party : posts'[q] = n
    BY <1>1, <1>2 DEF Numbers
  <1>6. \A q \in Party : posts'[q] <= lastSeq' /\ posts'[q] \notin over'
    BY <1>1, <1>2 DEF Numbers
  <1>7. posts'["viewer"] # 0 => posts'["viewer"] # posts'["peer"]
    BY <1>2 DEF Numbers
  <1> QED
    BY <1>2, <1>4, <1>5, <1>6, <1>7 DEF Numbers

\* Every step keeps each number in one place.
LEMMA NumbersStep ==
  ASSUME TypeOK, Numbers, Next
  PROVE  Numbers'
  <1>1. CASE UNCHANGED <<over, lastSeq, posts, inbox>>
    BY <1>1 DEF Numbers, IsNew
  <1>2. ASSUME NEW s \in Start, Starting(s) PROVE Numbers'
    <2>1. CASE StartAnnounce(s)
      <3> DEFINE e == [kind |-> "conversation",
                       snapshot |-> [snap[s].read EXCEPT !.preview = lastSeq]]
      <3>1. e \in Event /\ e.kind # "new"
        BY SnapshotFacts DEF Event, Reader
      <3>2. Push(e) /\ UNCHANGED <<lastSeq, posts>>
        BY <2>1 DEF StartAnnounce, database
      <3> QED
        BY <3>1, <3>2, OtherPushNumbers
    <2>2. CASE StartSystem(s)
      BY <2>2, SystemNumbers
    <2>3. CASE StartLoad(s) \/ StartFlush(s) \/ StartCommit(s) \/ StartRefresh(s) \/ StartReply(s)
      BY <1>1, <2>3 DEF StartLoad, StartFlush, StartCommit, StartRefresh, StartReply,
                        database, client, history
    <2> QED
      BY <1>2, <2>1, <2>2, <2>3 DEF Starting
  <1>3. ASSUME NEW p \in Party, StoreMessage(p) \/ FanOut(p) PROVE Numbers'
    BY <1>3, StoreNumbers, FanOutNumbers
  <1>4. CASE TellRemoved
    <2>1. [kind |-> "removed"] \in Event
      BY DEF Event
    <2> QED
      BY <1>4, <2>1, OtherPushNumbers DEF TellRemoved, database
  <1>5. CASE Handle \/ Drop
    BY <1>5, HandleNumbers, DropNumbers
  <1>6. CASE \/ Remove \/ HandleRead \/ HandleRest \/ ReadPage \/ DetailMember \/ DetailConversation
             \/ \E r \in Reader : ReadPreview(r) \/ DetailEnds(r)
             \/ ListEnds \/ ListFails
    BY <1>1, <1>6 DEF Remove, HandleRead, HandleRest, ReadPage, DetailMember, DetailConversation,
           ReadPreview, DetailEnds, ListEnds, ListFails, database, client, history, serving
  <1>7. CASE Open \/ Look \/ Hide \/ Leave \/ Connect \/ Reconnect
    BY <1>1, <1>7 DEF Open, Look, Hide, Leave, Connect, Reconnect, database, history, serving
  <1> QED
    BY <1>2, <1>3, <1>4, <1>5, <1>6, <1>7 DEF Next, Party

-----------------------------------------------------------------------------
LEMMA ReadFacts ==
  ASSUME TypeOK, NEW r \in Reader, NEW step, NEW read, Read(r, step, read)
  PROVE  /\ snap'[r].step = step /\ snap'[r].read = read
         /\ \A q \in Reader : q # r => snap'[q] = snap[q]
  BY DEF TypeOK, Read

\* The numbers in what is read.
LEMMA NumberFacts ==
  ASSUME TypeOK
  PROVE  /\ mark \in Nat /\ lastSeq \in Nat
         /\ Now.mark = mark /\ Now.last = lastSeq /\ Empty.mark = 0 /\ Empty.last = 0
         /\ LET s == [Now EXCEPT !.phase = 1, !.mark = 0]
            IN  s.phase = 1 /\ s.mark = 0 /\ s.last = lastSeq
         /\ LET s == [Now EXCEPT !.preview = 0]
            IN  s.mark = mark /\ s.last = lastSeq
         /\ LET s == [Empty EXCEPT !.phase = 1, !.mark = mark]
            IN  s.mark = mark /\ s.last = 0
  BY BoundAssumption DEF TypeOK, Seq0, Now, Empty

\* The numbers in what is read again.
LEMMA AgainFacts ==
  ASSUME TypeOK, NEW r \in Reader
  PROVE  /\ snap[r].read.last \in Nat /\ snap[r].read.mark \in Nat
         /\ LET s == [snap[r].read EXCEPT !.preview = lastSeq]
            IN  /\ s.phase = snap[r].read.phase /\ s.mark = snap[r].read.mark
                /\ s.last = snap[r].read.last
         /\ LET s == [snap[r].read EXCEPT !.last = lastSeq]
            IN  s.mark = snap[r].read.mark /\ s.last = lastSeq
  <1>1. snap[r].read \in Snapshot
    BY SnapshotFacts
  <1> QED
    BY <1>1, BoundAssumption DEF Snapshot, Seq0

\* The readers of the list and of the detail are no starts.
LEMMA ReaderFacts ==
  /\ "list" \in Reader /\ "detail" \in Reader
  /\ \A s \in Start : s \in Reader /\ s # "list" /\ s # "detail"
  BY StartAssumption DEF Reader

\* A snapshot that is read knows of no more than there is.
LEMMA ReadKnown ==
  ASSUME TypeOK, SnapshotsKnown, NEW r \in Reader, NEW step, NEW read, Read(r, step, read),
         read.last <= lastSeq, read.mark <= lastSeq,
         step \in {"page", "answer"} => read.mark <= read.last,
         r \in Start => /\ start'[r] \in {"announce", "reply"} => step = "page"
                        /\ start'[r] = "announce" => read.phase = 1,
         \A s \in Start : s # r => start'[s] = start[s],
         UNCHANGED <<lastSeq, inbox>>
  PROVE  SnapshotsKnown'
  BY ReadFacts, ReaderFacts DEF SnapshotsKnown

\* The same for the snapshots of the list and the detail.
LEMMA ListReadKnown ==
  ASSUME TypeOK, SnapshotsKnown, NEW r \in {"list", "detail"}, NEW step, NEW read,
         Read(r, step, read), read.last <= lastSeq, read.mark <= lastSeq,
         step \in {"page", "answer"} => read.mark <= read.last,
         UNCHANGED <<start, lastSeq, inbox>>
  PROVE  SnapshotsKnown'
  BY ReadKnown, ReaderFacts

\* A further message changes nothing of this.
LEMMA GrowthKnown ==
  ASSUME TypeOK, SnapshotsKnown, lastSeq' = lastSeq + 1, UNCHANGED <<snap, inbox>>,
         \A s \in Start : start'[s] = start[s] \/ start'[s] \notin {"announce", "reply"}
  PROVE  SnapshotsKnown'
  <1>1. lastSeq \in Nat /\ \A n \in Nat : n <= lastSeq => n <= lastSeq'
    BY NumberFacts
  <1>2. \A r \in Reader : snap[r].read.last <= lastSeq' /\ snap[r].read.mark <= lastSeq'
    BY <1>1, AgainFacts DEF SnapshotsKnown
  <1>3. \A i \in DOMAIN inbox : inbox[i].kind = "conversation" => inbox[i].snapshot.last <= lastSeq'
    <2>1. \A n \in Snapshot : n.last \in Nat
      BY BoundAssumption DEF Snapshot, Seq0
    <2> QED
      BY <1>1, <2>1, EventFacts DEF SnapshotsKnown
  <1> QED
    BY <1>2, <1>3 DEF SnapshotsKnown

\* The starts read what there is, and announce what they have read.
LEMMA StartingSnapshots ==
  ASSUME TypeOK, MarksKnown, SnapshotsKnown, NEW s \in Start, Starting(s)
  PROVE  SnapshotsKnown'
  <1> USE ReaderFacts
  <1>1. CASE StartLoad(s)
    <2>1. UNCHANGED <<lastSeq, inbox>>
      BY <1>1 DEF StartLoad, database, client
    <2>2. PICK to \in {"reply", "done", "flush"} : Goto(s, "idle", to)
                                                   /\ (to = "reply" => Read(s, "page", Now))
                                                   /\ (to # "reply" => UNCHANGED snap)
      BY <1>1 DEF StartLoad
    <2>3. CASE to = "reply"
      BY <2>1, <2>2, <2>3, GotoFacts, NumberFacts, ReadKnown DEF MarksKnown
    <2>4. CASE to # "reply"
      BY <2>1, <2>2, <2>4, GotoFacts DEF SnapshotsKnown
    <2> QED
      BY <2>3, <2>4
  <1>2. CASE StartFlush(s) \/ StartCommit(s)
    <2>1. UNCHANGED <<lastSeq, inbox, snap>>
      BY <1>2 DEF StartFlush, StartCommit, database, client
    <2>2. PICK from \in Stage, to \in {"failed", "commit", "system", "refresh"} : Goto(s, from, to)
      BY <1>2 DEF StartFlush, StartCommit, Stage
    <2> QED
      BY <2>1, <2>2, GotoFacts DEF SnapshotsKnown
  <1>3. CASE StartSystem(s)
    <2>1. lastSeq' = lastSeq + 1 /\ UNCHANGED <<inbox, snap>> /\ Goto(s, "system", "refresh")
      BY <1>3 DEF StartSystem, client
    <2> QED
      BY <2>1, GotoFacts, GrowthKnown
  <1>4. CASE StartRefresh(s)
    <2>1. UNCHANGED <<lastSeq, inbox>> /\ Goto(s, "refresh", "announce")
          /\ Read(s, "page", [Now EXCEPT !.phase = 1, !.mark = 0])
      BY <1>4 DEF StartRefresh, database, client
    <2> DEFINE read == [Now EXCEPT !.phase = 1, !.mark = 0]
    <2>2. read.phase = 1 /\ read.mark <= read.last /\ read.last <= lastSeq /\ read.mark <= lastSeq
      BY NumberFacts
    <2> HIDE DEF read
    <2>3. Read(s, "page", read)
      BY <2>1 DEF read
    <2> QED
      BY <2>1, <2>2, <2>3, GotoFacts, ReadKnown
  <1>5. CASE StartAnnounce(s)
    <2> DEFINE read == [snap[s].read EXCEPT !.preview = lastSeq]
               e == [kind |-> "conversation", snapshot |-> read]
    <2>1. read \in Snapshot /\ read.phase = 1 /\ read.mark <= read.last /\ read.last <= lastSeq
      <3>1. start[s] = "announce" /\ snap[s].step = "page"
        BY <1>5 DEF StartAnnounce, Goto, SnapshotsKnown
      <3>2. snap[s].read.phase = 1 /\ snap[s].read.mark <= snap[s].read.last
            /\ snap[s].read.last <= lastSeq
        BY <3>1 DEF SnapshotsKnown
      <3> QED
        BY <3>2, SnapshotFacts, AgainFacts
    <2> HIDE DEF read
    <2>2. UNCHANGED lastSeq /\ Push(e)
      BY <1>5 DEF StartAnnounce, database, read
    <2>3. e \in Event
      BY <2>1 DEF Event
    <2>4. \A i \in DOMAIN inbox' : inbox'[i].kind = "conversation" =>
            LET n == inbox'[i].snapshot
            IN  n.phase = 1 /\ n.mark <= n.last /\ n.last <= lastSeq
      <3>1. CASE link = "up"
        <4>1. \A i \in DOMAIN inbox' : inbox'[i] = e \/ (i \in DOMAIN inbox /\ inbox'[i] = inbox[i])
          BY <2>2, <2>3, <3>1, Pushed
        <4>2. e.snapshot = read
          OBVIOUS
        <4> QED
          BY <2>1, <4>1, <4>2 DEF SnapshotsKnown
      <3>2. CASE link # "up"
        BY <2>2, <3>2 DEF SnapshotsKnown, Push
      <3> QED
        BY <3>1, <3>2
    <2>5. PICK to \in {"reply", "done"} : Goto(s, "announce", to)
                                          /\ (to = "reply" => UNCHANGED snap)
                                          /\ (to # "reply" => Forget(s))
      BY <1>5 DEF StartAnnounce
    <2>6. CASE to = "reply"
      <3>1. \A t \in Start : /\ start'[t] \in {"announce", "reply"} => snap[t].step = "page"
                             /\ start'[t] = "announce" => snap[t].read.phase = 1
        BY <2>5, <2>6, GotoFacts DEF SnapshotsKnown
      <3> QED
        BY <2>2, <2>4, <2>5, <2>6, <3>1 DEF SnapshotsKnown
    <2>7. CASE to # "reply"
      <3>1. \A t \in Start : /\ start'[t] \in {"announce", "reply"} => snap'[t].step = "page"
                             /\ start'[t] = "announce" => snap'[t].read.phase = 1
        BY <2>5, <2>7, GotoFacts, ReadFacts DEF SnapshotsKnown, Forget
      <3>2. \A r \in Reader : snap'[r] = snap[r] \/ (/\ snap'[r].step = "none"
                                                     /\ snap'[r].read = Empty)
        BY <2>5, <2>7, ReadFacts DEF Forget
      <3> QED
        BY <2>2, <2>4, <3>1, <3>2, NumberFacts DEF SnapshotsKnown
    <2> QED
      BY <2>6, <2>7
  <1>6. CASE StartReply(s)
    <2>1. UNCHANGED <<lastSeq, inbox>> /\ Goto(s, "reply", "done")
          /\ Read(s, "answer", [snap[s].read EXCEPT !.preview = lastSeq])
      BY <1>6 DEF StartReply, database, client
    <2>2. snap[s].step = "page"
      BY <2>1, GotoFacts DEF SnapshotsKnown
    <2> DEFINE read == [snap[s].read EXCEPT !.preview = lastSeq]
    <2>3. read.mark <= read.last /\ read.last <= lastSeq /\ read.mark <= lastSeq
      BY <2>2, AgainFacts DEF SnapshotsKnown
    <2> HIDE DEF read
    <2>4. Read(s, "answer", read)
      BY <2>1 DEF read
    <2> QED
      BY <2>1, <2>3, <2>4, GotoFacts, ReadKnown
  <1> QED
    BY <1>1, <1>2, <1>3, <1>4, <1>5, <1>6 DEF Starting

\* So does every other step.
LEMMA SnapshotsStep ==
  ASSUME TypeOK, MarksKnown, SnapshotsKnown, Next
  PROVE  SnapshotsKnown'
  <1> USE ReaderFacts
  <1>1. ASSUME NEW s \in Start, Starting(s) PROVE SnapshotsKnown'
    BY <1>1, StartingSnapshots
  <1>2. CASE UNCHANGED <<snap, start, inbox, lastSeq>>
    BY <1>2 DEF SnapshotsKnown
  <1>3. ASSUME NEW p \in Party, StoreMessage(p) PROVE SnapshotsKnown'
    <2>1. lastSeq' = lastSeq + 1 /\ UNCHANGED <<snap, start, inbox>>
      BY <1>3 DEF StoreMessage, client
    <2> QED
      BY <2>1, GrowthKnown
  <1>4. ASSUME NEW e \in Event, e.kind # "conversation", Push(e), UNCHANGED <<snap, start, lastSeq>>
        PROVE  SnapshotsKnown'
    <2>1. CASE link = "up"
      <3>1. \A i \in DOMAIN inbox' : inbox'[i] = e \/ (i \in DOMAIN inbox /\ inbox'[i] = inbox[i])
        BY <1>4, <2>1, Pushed
      <3> QED
        BY <1>4, <3>1 DEF SnapshotsKnown
    <2>2. CASE link # "up"
      BY <1>4, <2>2 DEF Push, SnapshotsKnown
    <2> QED
      BY <2>1, <2>2
  <1>5. ASSUME NEW p \in Party, FanOut(p) PROVE SnapshotsKnown'
    <2>1. [kind |-> "new", seq |-> posts[p], mine |-> p = "viewer"] \in Event
      BY <1>5 DEF FanOut, TypeOK, Event, Seq0, Party
    <2> QED
      BY <1>4, <1>5, <2>1 DEF FanOut, database
  <1>6. CASE TellRemoved
    <2>1. [kind |-> "removed"] \in Event
      BY DEF Event
    <2> QED
      BY <1>4, <1>6, <2>1 DEF TellRemoved, database
  <1>7. CASE ReadPage
    <2>1. /\ Read("list", "page", [Now EXCEPT !.preview = 0])
          /\ UNCHANGED <<start, inbox, lastSeq>>
      BY <1>7 DEF ReadPage, database, client
    <2> DEFINE read == [Now EXCEPT !.preview = 0]
    <2>2. read.mark <= read.last /\ read.last <= lastSeq /\ read.mark <= lastSeq
      BY NumberFacts DEF MarksKnown
    <2> HIDE DEF read
    <2>3. Read("list", "page", read)
      BY <2>1 DEF read
    <2> QED
      BY <2>1, <2>2, <2>3, ListReadKnown
  <1>8. CASE DetailMember
    <2>1. UNCHANGED <<start, inbox, lastSeq>>
      BY <1>8 DEF DetailMember, database, client
    <2>2. CASE Read("detail", "member", [Empty EXCEPT !.phase = 1, !.mark = mark])
      <3> DEFINE read == [Empty EXCEPT !.phase = 1, !.mark = mark]
      <3>1. read.last <= lastSeq /\ read.mark <= lastSeq
        BY NumberFacts DEF MarksKnown
      <3> HIDE DEF read
      <3>2. Read("detail", "member", read)
        BY <2>2 DEF read
      <3> QED
        BY <2>1, <3>1, <3>2, ListReadKnown
    <2>3. CASE Forget("detail")
      BY <2>1, <2>3, NumberFacts, ListReadKnown DEF Forget
    <2> QED
      BY <1>8, <2>2, <2>3 DEF DetailMember
  <1>9. CASE DetailConversation
    <2>1. /\ Read("detail", "page", [snap["detail"].read EXCEPT !.last = lastSeq])
          /\ UNCHANGED <<start, inbox, lastSeq>>
      BY <1>9 DEF DetailConversation, database, client
    <2> DEFINE read == [snap["detail"].read EXCEPT !.last = lastSeq]
    <2>2. read.mark <= read.last /\ read.last <= lastSeq /\ read.mark <= lastSeq
      BY NumberFacts, AgainFacts DEF SnapshotsKnown
    <2> HIDE DEF read
    <2>3. Read("detail", "page", read)
      BY <2>1 DEF read
    <2> QED
      BY <2>1, <2>2, <2>3, ListReadKnown
  <1>10. ASSUME NEW r \in Reader, ReadPreview(r) PROVE SnapshotsKnown'
    <2>1. /\ Read(r, "answer", [snap[r].read EXCEPT !.preview = lastSeq])
          /\ r \in {"list", "detail"} /\ UNCHANGED <<start, inbox, lastSeq>>
      BY <1>10 DEF ReadPreview, database, client
    <2>2. /\ snap[r].read.last <= lastSeq /\ snap[r].read.mark <= lastSeq
          /\ snap[r].read.mark <= snap[r].read.last
      BY <1>10 DEF SnapshotsKnown, ReadPreview
    <2> DEFINE read == [snap[r].read EXCEPT !.preview = lastSeq]
    <2>3. read.mark <= read.last /\ read.last <= lastSeq /\ read.mark <= lastSeq
      BY <2>2, AgainFacts
    <2> HIDE DEF read
    <2>4. Read(r, "answer", read)
      BY <2>1 DEF read
    <2> QED
      BY <2>1, <2>3, <2>4, ListReadKnown
  <1>11. ASSUME NEW r \in Reader, Forget(r), snap[r].step # "page" \/ r \notin Start,
                UNCHANGED <<start, inbox, lastSeq>>
         PROVE  SnapshotsKnown'
    <2>1. r \in Start => start[r] \notin {"announce", "reply"}
      BY <1>11 DEF SnapshotsKnown
    <2> QED
      BY <1>11, <2>1, NumberFacts, ReadKnown DEF Forget
  <1>12. ASSUME NEW r \in Reader, DetailEnds(r) PROVE SnapshotsKnown'
    BY <1>11, <1>12 DEF DetailEnds, database
  <1>13. CASE ListEnds \/ ListFails
    BY <1>11, <1>13 DEF ListEnds, ListFails, database, client
  <1>14. CASE Handle
    <2>1. UNCHANGED <<start, lastSeq>>
          /\ (UNCHANGED snap \/ Read("detail", "asked", Empty))
      BY <1>14 DEF Handle, database, HearMessage, HearUnknown, HearConversation, HearRemoved
    <2>2. \A i \in DOMAIN inbox' : \E j \in DOMAIN inbox : inbox'[i] = inbox[j]
      BY <1>14, Taken
    <2>3. CASE UNCHANGED snap
      BY <2>1, <2>2, <2>3 DEF SnapshotsKnown
    <2>4. CASE Read("detail", "asked", Empty)
      BY <2>1, <2>2, <2>4, ReadFacts, NumberFacts DEF SnapshotsKnown
    <2> QED
      BY <2>1, <2>3, <2>4
  <1>15. CASE Drop
    <2>1. UNCHANGED <<snap, start, lastSeq>> /\ DOMAIN inbox' = {}
      BY <1>15 DEF Drop, database, serving
    <2> QED
      BY <2>1 DEF SnapshotsKnown
  <1>16. CASE Reconnect
    <2>1. Read("list", "asked", Empty) /\ UNCHANGED <<start, inbox, lastSeq>>
      BY <1>16 DEF Reconnect, database
    <2> QED
      BY <2>1, NumberFacts, ListReadKnown
  <1>17. CASE Remove \/ HandleRead \/ HandleRest \/ Open \/ Look \/ Hide \/ Leave \/ Connect
    BY <1>2, <1>17 DEF Remove, HandleRead, HandleRest, Open, Look, Hide, Leave, Connect, serving, database, client
  <1> QED
    BY <1>1, <1>3, <1>5, <1>6, <1>7, <1>8, <1>9, <1>10, <1>12, <1>13, <1>14, <1>15, <1>16, <1>17
       DEF Next, Party

-----------------------------------------------------------------------------
\* Own messages on their way: only the fan-out over no connection, a lost connection
\* and their handling take them away.
LEMMA OwnSame ==
  ASSUME UNCHANGED <<posts, inbox>>
  PROVE  \A n : Own(n)' <=> Own(n)
  BY DEF Own, IsNew

LEMMA OwnPushed ==
  ASSUME TypeOK, NEW e \in Event, e.kind # "new", Push(e), UNCHANGED posts
  PROVE  \A n : Own(n)' <=> Own(n)
  <1>1. CASE link = "up"
    <2>1. PICK last \in DOMAIN inbox' :
            /\ last \notin DOMAIN inbox /\ inbox'[last] = e
            /\ DOMAIN inbox' = DOMAIN inbox \cup {last}
            /\ \A i \in DOMAIN inbox : i < last /\ inbox'[i] = inbox[i]
      BY <1>1, Pushed
    <2> QED
      BY <2>1 DEF Own, IsNew
  <1>2. CASE link # "up"
    BY <1>2, OwnSame DEF Push
  <1> QED
    BY <1>1, <1>2

LEMMA OwnStored ==
  ASSUME TypeOK, NEW p \in Party, StoreMessage(p)
  PROVE  \A n : Own(n)' <=> Own(n) \/ (p = "viewer" /\ n = lastSeq + 1)
  <1>1. /\ UNCHANGED inbox /\ posts["viewer"] \in Nat /\ lastSeq \in Nat
        /\ posts'["viewer"] = IF p = "viewer" THEN lastSeq + 1 ELSE posts["viewer"]
        /\ p = "viewer" => posts["viewer"] = 0
    BY DEF StoreMessage, TypeOK, Seq0, Party, client
  <1> QED
    BY <1>1 DEF Own, IsNew

LEMMA OwnFannedOut ==
  ASSUME TypeOK, NEW p \in Party, FanOut(p)
  PROVE  \A n : /\ Own(n)' => Own(n)
                /\ link = "up" /\ Own(n) => Own(n)'
  <1> DEFINE e == [kind |-> "new", seq |-> posts[p], mine |-> p = "viewer"]
  <1>1. /\ posts[p] # 0 /\ Push(e)
        /\ posts'["viewer"] = IF p = "viewer" THEN 0 ELSE posts["viewer"]
    BY DEF FanOut, TypeOK, Party
  <1>2. /\ e.kind = "new" /\ e.seq = posts[p]
        /\ (p = "viewer" => e.mine) /\ (p # "viewer" => ~e.mine)
    OBVIOUS
  <1>3. e \in Event
    BY <1>1 DEF TypeOK, Event, Seq0, Party
  <1> HIDE DEF e
  <1>4. CASE link = "up"
    <2>1. PICK last \in DOMAIN inbox' :
            /\ last \notin DOMAIN inbox /\ inbox'[last] = e
            /\ DOMAIN inbox' = DOMAIN inbox \cup {last}
            /\ \A i \in DOMAIN inbox : i < last /\ inbox'[i] = inbox[i]
      BY <1>1, <1>2, <1>3, <1>4, Pushed
    <2>2. ASSUME NEW n, Own(n) PROVE Own(n)'
      BY <1>1, <1>2, <2>1, <2>2 DEF Own, IsNew
    <2>3. ASSUME NEW n, Own(n)' PROVE Own(n)
      <3>1. n # 0 /\ (posts'["viewer"] # n =>
                        \E i \in DOMAIN inbox' : IsNew(i)' /\ inbox'[i].mine /\ inbox'[i].seq = n)
        BY <2>3 DEF Own
      <3> QED
        BY <1>1, <1>2, <2>1, <3>1 DEF Own, IsNew
    <2> QED
      BY <2>2, <2>3
  <1>5. CASE link # "up"
    <2>1. UNCHANGED inbox
      BY <1>1, <1>5 DEF Push
    <2> QED
      BY <1>1, <1>5, <2>1 DEF Own, IsNew
  <1> QED
    BY <1>4, <1>5

LEMMA OwnHandled ==
  ASSUME TypeOK, Handle
  PROVE  \A n : /\ Own(n)' => Own(n)
                /\ Own(n) => Own(n)' \/ (IsNew(1) /\ inbox[1].mine /\ inbox[1].seq = n)
  <1>1. UNCHANGED posts
    BY DEF Handle
  <1> QED
    BY <1>1, Taken DEF Own, IsNew

LEMMA OwnDropped ==
  ASSUME Drop
  PROVE  \A n : Own(n)' => Own(n)
  <1>1. UNCHANGED posts /\ DOMAIN inbox' = {}
    BY DEF Drop, serving
  <1> QED
    BY <1>1 DEF Own

\* Only a message of the viewer that is stored is added.
LEMMA OwnStep ==
  ASSUME TypeOK, Next
  PROVE  \A n : Own(n)' => Own(n) \/ (StoreMessage("viewer") /\ n = lastSeq + 1)
  <1> DEFINE Less == \A n : Own(n)' => Own(n)
  <1>1. ASSUME NEW s \in Start, Starting(s) PROVE Less
    <2>1. CASE StartAnnounce(s)
      <3>1. [kind |-> "conversation",
             snapshot |-> [snap[s].read EXCEPT !.preview = lastSeq]] \in Event
        BY SnapshotFacts DEF Event, Reader
      <3> QED
        BY <2>1, <3>1, OwnPushed DEF StartAnnounce
    <2>2. CASE ~StartAnnounce(s)
      BY <1>1, <2>2, OwnSame DEF Starting, StartLoad, StartFlush, StartCommit, StartSystem,
                                 StartRefresh, StartReply, client
    <2> QED
      BY <2>1, <2>2
  <1>2. CASE TellRemoved
    <2>1. [kind |-> "removed"] \in Event
      BY DEF Event
    <2> QED
      BY <1>2, <2>1, OwnPushed DEF TellRemoved
  <1>3. ASSUME NEW p \in Party, StoreMessage(p) \/ FanOut(p)
        PROVE  \A n : Own(n)' => Own(n) \/ (StoreMessage("viewer") /\ n = lastSeq + 1)
    BY <1>3, OwnStored, OwnFannedOut
  <1>4. CASE Handle \/ Drop
    BY <1>4, OwnHandled, OwnDropped
  <1>5. CASE \/ Remove \/ HandleRead \/ HandleRest \/ ReadPage \/ DetailMember \/ DetailConversation
             \/ \E r \in Reader : ReadPreview(r) \/ DetailEnds(r)
             \/ ListEnds \/ ListFails
    BY <1>5, OwnSame DEF Remove, HandleRead, HandleRest, ReadPage, DetailMember, DetailConversation,
           ReadPreview, DetailEnds, ListEnds, ListFails, client, serving
  <1>6. CASE Open \/ Look \/ Hide \/ Leave \/ Connect \/ Reconnect
    BY <1>6, OwnSame DEF Open, Look, Hide, Leave, Connect, Reconnect, serving
  <1> QED
    BY <1>1, <1>2, <1>3, <1>4, <1>5, <1>6 DEF Next, Party

-----------------------------------------------------------------------------
\* What a row made of a snapshot shows.
LEMMA RowOfFacts ==
  ASSUME NEW s \in Snapshot
  PROVE  /\ RowOf(s) = NoRow <=> s.phase # 1
         /\ s.phase = 1 =>
              /\ RowOf(s).last = s.last /\ RowOf(s).mark = s.mark
              /\ RowOf(s).preview = s.preview
              /\ s.mark <= s.last => RowOf(s).unread = s.last - s.mark
  <1>1. s.phase = 1 => RowOf(s) \in Row
    BY BoundAssumption DEF RowOf, Snapshot, Row, Seq0
  <1> QED
    BY <1>1, NoRowAssumption, BoundAssumption DEF RowOf, Snapshot, Seq0

\* What a row shows after a message, and after it was marked as read.
LEMMA GrownFacts ==
  ASSUME NEW e, NEW unread, NEW seen \in BOOLEAN
  PROVE  LET r == Grown(e, unread, seen)
         IN  /\ r.unread = unread /\ r.preview = e.seq
             /\ r.last = IF e.seq > row.last THEN e.seq ELSE row.last
             /\ r.mark = IF seen THEN e.seq ELSE row.mark
  BY DEF Grown

LEMMA MarksReadFacts ==
  ASSUME TypeOK, NEW r \in Row, NEW ends \in SUBSET Seq0, MarksRead(r, ends)
  PROVE  /\ frame = {} /\ rest = {} /\ row' \in Row /\ row' # NoRow
         /\ row'.last = r.last /\ row'.preview = r.preview
         /\ \/ /\ row'.unread = 0 /\ row'.mark = r.last
               /\ \E to \in {0} \cup ends :
                    /\ frame' = IF to = 0 \/ to > mark THEN {to} ELSE {}
                    /\ rest' = {} \/ rest' = frame'
                    /\ unsent' = IF to = 0 \/ to >= r.last THEN FALSE
                                 ELSE unsent \/ r.mark < r.last
            \/ /\ r.unread = 0 /\ row' = r /\ frame' = {} /\ rest' = {}
               /\ unsent' = (unsent \/ r # row)
  <1>1. /\ [r EXCEPT !.unread = 0, !.mark = r.last].last = r.last
        /\ [r EXCEPT !.unread = 0, !.mark = r.last].mark = r.last
        /\ [r EXCEPT !.unread = 0, !.mark = r.last].preview = r.preview
        /\ [r EXCEPT !.unread = 0, !.mark = r.last].unread = 0
    BY DEF Row
  <1>2. row' \in Row /\ row' # NoRow
    BY MarksReadType, NoRowAssumption
  <1>3. frame = {} /\ rest = {}
    BY DEF MarksRead
  <1>4. CASE /\ row' = [r EXCEPT !.unread = 0, !.mark = r.last]
             /\ \E to \in {0} \cup ends :
                  /\ frame' = IF to = 0 \/ to > mark THEN {to} ELSE {}
                  /\ rest' = IF link = "up" THEN {} ELSE frame'
                  /\ unsent' = IF to = 0 \/ to >= r.last THEN FALSE
                               ELSE unsent \/ r.mark < r.last
    BY <1>1, <1>2, <1>3, <1>4
  <1>5. CASE /\ r.unread = 0 /\ row' = r /\ unsent' = (unsent \/ r # row)
             /\ UNCHANGED <<frame, rest>>
    BY <1>2, <1>3, <1>5
  <1> QED
    BY <1>4, <1>5 DEF MarksRead

\* The message a frame names, and what is left of the row.
LEMMA FrameNames ==
  ASSUME TypeOK, NEW r \in Row, NEW ends \in SUBSET Seq0, MarksRead(r, ends)
  PROVE  /\ row'.last = r.last /\ (row'.mark = r.last \/ row' = r)
         /\ \A f \in frame' \cup rest' : f \in {0} \cup ends
  <1>1. ASSUME NEW to \in {0} \cup ends,
               frame' = IF to = 0 \/ to > mark THEN {to} ELSE {}, rest' = {} \/ rest' = frame'
        PROVE  \A f \in frame' \cup rest' : f = to
    <2>1. frame' \subseteq {to}
      BY <1>1
    <2>2. rest' \subseteq frame'
      BY <1>1
    <2> QED
      BY <2>1, <2>2
  <1>2. \A f \in frame' \cup rest' : f \in {0} \cup ends
    <2>1. CASE /\ row'.unread = 0 /\ row'.mark = r.last
               /\ \E to \in {0} \cup ends :
                    /\ frame' = IF to = 0 \/ to > mark THEN {to} ELSE {}
                    /\ rest' = {} \/ rest' = frame'
      <3>1. PICK to \in {0} \cup ends :
                    /\ frame' = IF to = 0 \/ to > mark THEN {to} ELSE {}
                    /\ rest' = {} \/ rest' = frame'
        BY <2>1
      <3>2. \A f \in frame' \cup rest' : f = to
        BY <1>1, <3>1
      <3> QED
        BY <3>2
    <2>2. CASE frame' = {} /\ rest' = {}
      BY <2>2
    <2> QED
      BY <2>1, <2>2, MarksReadFacts
  <1>3. row'.last = r.last /\ (row'.mark = r.last \/ row' = r)
    BY MarksReadFacts
  <1> QED
    BY <1>2, <1>3

\* The event that is handled.
LEMMA HandleFacts ==
  ASSUME TypeOK, Handle
  PROVE  /\ inbox[1] \in Event /\ Tells(inbox[1]) /\ UNCHANGED <<database, start, leaving>>
         /\ \/ HearMessage(inbox[1]) \/ HearUnknown(inbox[1])
            \/ HearConversation(inbox[1]) \/ HearRemoved(inbox[1])
  BY Taken, EventFacts DEF Handle

\* A snapshot that arrives knows of no more than there is.
LEMMA ReplaceMarks ==
  ASSUME TypeOK, MarksKnown, SnapshotsKnown, NEW r \in Reader, snap[r].step = "answer",
         Replace(snap[r].read)
  PROVE  row' # NoRow => row'.mark <= row'.last /\ row'.last <= lastSeq
  BY SnapshotFacts, RowOfFacts DEF Replace, SnapshotsKnown

\* Neither does what an event tells.
LEMMA HandleMarks ==
  ASSUME TypeOK, Numbers, MarksKnown, SnapshotsKnown, Handle
  PROVE  /\ row' # NoRow => row'.mark <= row'.last /\ row'.last <= lastSeq
         /\ \A f \in frame' \cup rest' : f <= lastSeq
  <1> DEFINE e == inbox[1]
  <1>1. e \in Event /\ 1 \in DOMAIN inbox
    BY HandleFacts, Taken
  <1>2. IsNew(1) => e.seq \in Nat /\ e.seq <= lastSeq
    BY <1>1, EventFacts DEF Numbers
  <1>3. e.kind = "conversation" =>
          /\ e.snapshot \in Snapshot /\ e.snapshot.phase = 1
          /\ e.snapshot.mark <= e.snapshot.last /\ e.snapshot.last <= lastSeq
    BY <1>1, EventFacts DEF SnapshotsKnown
  <1> HIDE DEF e
  <1>4. CASE HearMessage(e)
    <2>1. /\ row \in Row /\ row.last \in Nat /\ row.mark \in Nat
          /\ row.mark <= row.last /\ row.last <= lastSeq
      BY <1>4, BoundAssumption DEF HearMessage, TypeOK, Row, Seq0, MarksKnown
    <2>2. e.seq \in Nat /\ e.seq <= lastSeq
      BY <1>2, <1>4 DEF HearMessage, IsNew, e
    <2>3. \A seen \in BOOLEAN : \A unread :
            Grown(e, unread, seen).mark <= Grown(e, unread, seen).last
            /\ Grown(e, unread, seen).last <= lastSeq
      BY <2>1, <2>2, GrownFacts
    <2>4. CASE view = "open" /\ ~e.mine
      <3> DEFINE r == Grown(e, 0, TRUE)
      <3>1. MarksRead(r, e.seq..lastSeq) /\ r \in Row /\ e.seq..lastSeq \in SUBSET Seq0
        BY <1>1, <1>4, <2>4, GrownType, EndsType DEF HearMessage
      <3>2. r.mark <= r.last /\ r.last <= lastSeq
        BY <2>3
      <3> HIDE DEF r
      <3>3. r.last \in Nat
        BY <3>1 DEF Row, Seq0
      <3>4. /\ row'.last = r.last /\ (row'.mark = r.last \/ row' = r)
            /\ \A f \in frame' \cup rest' : f \in {0} \cup (e.seq..lastSeq)
        BY <3>1, FrameNames
      <3> QED
        BY <2>2, <3>2, <3>3, <3>4, NumberFacts
    <2>5. CASE ~(view = "open" /\ ~e.mine)
      <3>1. /\ UNCHANGED <<frame, rest>>
            /\ row' = Grown(e, 0, TRUE) \/ row' = Grown(e, row.unread + 1, FALSE)
        BY <1>4, <2>5 DEF HearMessage
      <3> QED
        BY <2>3, <3>1 DEF MarksKnown
    <2> QED
      BY <2>4, <2>5
  <1>5. CASE HearUnknown(e)
    BY <1>5 DEF HearUnknown, MarksKnown
  <1>6. CASE HearConversation(e)
    BY <1>3, <1>6, RowOfFacts DEF HearConversation, MarksKnown
  <1>7. CASE HearRemoved(e)
    BY <1>7 DEF HearRemoved, MarksKnown
  <1> QED
    BY <1>4, <1>5, <1>6, <1>7, HandleFacts DEF e

\* No step takes a mark past what there is.
LEMMA MarksStep ==
  ASSUME TypeOK, Numbers, MarksKnown, SnapshotsKnown, Next
  PROVE  MarksKnown'
  <1> USE NumberFacts
  <1>1. CASE UNCHANGED <<lastSeq, mark>>
    <2> USE <1>1
    <2>1. \A n \in 1..lastSeq : Own(n)' => n <= mark
      <3>1. ~StoreMessage("viewer")
        BY DEF StoreMessage
      <3> QED
        BY <3>1, OwnStep DEF MarksKnown
    <2>2. ASSUME /\ row' # NoRow => row'.mark <= row'.last /\ row'.last <= lastSeq
                 /\ \A f \in frame' \cup rest' : f <= lastSeq
          PROVE  MarksKnown'
      BY <2>1, <2>2 DEF MarksKnown
    <2>3. CASE UNCHANGED <<row, frame, rest>>
      BY <2>2, <2>3 DEF MarksKnown
    <2>4. ASSUME NEW r \in Reader, DetailEnds(r) PROVE MarksKnown'
      BY <2>2, <2>4, ReplaceMarks DEF DetailEnds, MarksKnown
    <2>5. CASE ListEnds
      BY <2>2, <2>5, ReplaceMarks, ReaderFacts DEF ListEnds, MarksKnown
    <2>6. CASE Handle
      BY <2>2, <2>6, HandleMarks
    <2>7. CASE Open \/ Look
      <3>1. /\ row \in Row /\ row # NoRow /\ row.last \in Nat
            /\ MarksRead(row, 1..lastSeq) /\ 1..lastSeq \in SUBSET Seq0
        BY <2>7, EndsType DEF Open, Look, TypeOK, Row, Seq0
      <3>2. /\ row'.last = row.last /\ (row'.mark = row.last \/ row' = row)
            /\ \A f \in frame' \cup rest' : f \in {0} \cup (1..lastSeq)
        BY <3>1, FrameNames
      <3> QED
        BY <2>2, <3>1, <3>2 DEF MarksKnown
    <2>8. CASE Drop
      BY <2>2, <2>8 DEF Drop, MarksKnown
    <2>9. ASSUME NEW s \in Start, Starting(s) PROVE UNCHANGED <<row, frame, rest>>
      BY <2>9 DEF Starting, StartLoad, StartFlush, StartCommit, StartSystem, StartRefresh,
                  StartAnnounce, StartReply, client
    <2>10. CASE HandleRead \/ HandleRest
      BY <2>2, <2>10 DEF HandleRead, HandleRest, MarksKnown
    <2>11. CASE \/ \E p \in Party : StoreMessage(p) \/ FanOut(p)
                \/ Remove \/ TellRemoved \/ ReadPage \/ DetailMember \/ DetailConversation
                \/ \E r \in Reader : ReadPreview(r)
                \/ ListFails \/ Hide \/ Leave \/ Connect \/ Reconnect
      BY <2>3, <2>11 DEF StoreMessage, FanOut, Remove, TellRemoved, ReadPage, DetailMember,
             DetailConversation, ReadPreview, ListFails, Hide, Leave, Connect, Reconnect, client
    <2> QED
      BY <2>3, <2>4, <2>5, <2>6, <2>7, <2>8, <2>9, <2>10, <2>11 DEF Next, Party
  <1>2. ASSUME NEW p \in Party, StoreMessage(p) PROVE MarksKnown'
    <2>1. /\ lastSeq' = lastSeq + 1 /\ UNCHANGED <<row, frame, rest>>
          /\ mark' = IF p = "viewer" THEN lastSeq + 1 ELSE mark
      BY <1>2 DEF StoreMessage, client
    <2>2. \A n \in 1..lastSeq' : Own(n)' => n <= mark'
      <3> SUFFICES ASSUME NEW n \in 1..lastSeq', Own(n)' PROVE n <= mark'
        OBVIOUS
      <3>1. CASE p = "viewer"
        BY <2>1, <3>1
      <3>2. CASE p # "viewer"
        <4>1. Own(n)
          BY <1>2, <3>2, OwnStored
        <4>2. n # lastSeq + 1
          BY <4>1, EventFacts DEF Own, Numbers, Party
        <4> QED
          BY <2>1, <3>2, <4>1, <4>2 DEF MarksKnown
      <3> QED
        BY <3>1, <3>2
    <2>3. \A f \in frame \cup rest : f \in Nat
      BY DEF TypeOK, Seq0
    <2>4. row # NoRow => row.last \in Nat
      BY DEF TypeOK, Row, Seq0
    <2> QED
      BY <2>1, <2>2, <2>3, <2>4 DEF MarksKnown
  <1>3. ASSUME NEW s \in Start, StartSystem(s) PROVE MarksKnown'
    <2>1. lastSeq' = lastSeq + 1 /\ UNCHANGED <<row, frame, rest, mark, inbox, posts>>
      BY <1>3 DEF StartSystem, client
    <2>2. \A n \in 1..lastSeq' : Own(n)' => n <= mark'
      <3> SUFFICES ASSUME NEW n \in 1..lastSeq', Own(n)' PROVE n <= mark
        BY <2>1
      <3>1. Own(n)
        BY <2>1, OwnSame
      <3>2. n # lastSeq + 1
        BY <3>1, EventFacts DEF Own, Numbers, Party
      <3> QED
        BY <2>1, <3>1, <3>2 DEF MarksKnown
    <2>3. \A f \in frame \cup rest : f \in Nat
      BY DEF TypeOK, Seq0
    <2>4. row # NoRow => row.last \in Nat
      BY DEF TypeOK, Row, Seq0
    <2> QED
      BY <2>1, <2>2, <2>3, <2>4 DEF MarksKnown
  <1>4. CASE HandleRead \/ HandleRest
    <2>1. PICK f \in frame \cup rest : MarksUpTo(f) \/ UNCHANGED mark
      BY <1>4 DEF HandleRead, HandleRest
    <2>2. f \in Nat /\ f <= lastSeq
      BY DEF TypeOK, Seq0, MarksKnown
    <2>3. mark' \in Nat /\ mark <= mark' /\ mark' <= lastSeq
      BY <2>1, <2>2 DEF MarksKnown, MarksUpTo
    <2>4. /\ frame' \subseteq frame /\ rest' \subseteq rest
          /\ UNCHANGED <<lastSeq, row, posts, inbox>>
      BY <1>4 DEF HandleRead, HandleRest, serving
    <2>5. \A n \in 1..lastSeq : Own(n)' => n <= mark'
      BY <2>3, <2>4, OwnSame DEF MarksKnown
    <2> QED
      BY <2>3, <2>4, <2>5 DEF MarksKnown
  <1>5. ASSUME NEW s \in Start, Starting(s), ~StartSystem(s) PROVE UNCHANGED <<lastSeq, mark>>
    BY <1>5 DEF Starting, StartLoad, StartFlush, StartCommit, StartRefresh, StartAnnounce,
                StartReply, database
  <1>6. \/ UNCHANGED <<lastSeq, mark>> \/ HandleRead \/ HandleRest
        \/ \E p \in Party : StoreMessage(p)
        \/ \E s \in Start : Starting(s)
    BY DEF Next, Party, FanOut, Remove, TellRemoved, ReadPage, DetailMember,
           DetailConversation, ReadPreview, DetailEnds, ListEnds, ListFails, Handle, Open, Look,
           Hide, Leave, Connect, Drop, Reconnect, database
  <1> QED
    BY <1>1, <1>2, <1>3, <1>4, <1>5, <1>6

-----------------------------------------------------------------------------
\* A start tells of the conversation once it is there, and never after a removal.
LEMMA StartingMembership ==
  ASSUME TypeOK, Founding, Connected, Membership, NEW s \in Start, Starting(s)
  PROVE  Membership'
  <1>1. CASE StartLoad(s)
    <2>1. UNCHANGED <<group, chats, phase, leaving, told, inbox>>
      BY <1>1 DEF StartLoad, database, client, history
    <2>2. PICK to \in {"reply", "done", "flush"} : Goto(s, "idle", to)
      BY <1>1 DEF StartLoad
    <2>3. phase # 2
      BY <1>1, <2>2, GotoFacts DEF StartLoad, Membership, Founding, Founded, TypeOK
    <2> QED
      BY <2>1, <2>2, <2>3, GotoFacts DEF Membership, Announced, Removed
  <1>2. CASE StartFlush(s)
    <2>1. UNCHANGED <<group, chats, phase, leaving, told, inbox>>
      BY <1>2 DEF StartFlush, database, client, history
    <2>2. PICK to \in {"failed", "commit"} : Goto(s, "flush", to)
      BY <1>2 DEF StartFlush
    <2> QED
      BY <2>1, <2>2, GotoFacts DEF Membership, Announced, Removed
  <1>3. CASE StartCommit(s)
    <2>1. UNCHANGED <<group, leaving, told, inbox>> /\ phase' = 1 /\ chats' # {}
      BY <1>3 DEF StartCommit, client, history
    <2>2. Goto(s, "commit", IF group THEN "system" ELSE "refresh")
      BY <1>3 DEF StartCommit
    <2>3. chats = {} /\ phase = 0 /\ told = 0 /\ ~leaving
          /\ \A i \in DOMAIN inbox : ~Announced(i) /\ ~Removed(i)
      BY <2>2, GotoFacts DEF Founding, Membership
    <2>4. \A t \in Start : start[t] # "system"
      BY <2>3 DEF Founding, Founded
    <2> QED
      BY <2>1, <2>2, <2>3, <2>4, GotoFacts DEF Membership, Announced, Removed
  <1>4. CASE StartSystem(s) \/ StartRefresh(s)
    <2>1. UNCHANGED <<group, chats, phase, leaving, told, inbox>>
      BY <1>4 DEF StartSystem, StartRefresh, database, client, history
    <2>2. PICK from \in {"system", "refresh"}, to \in {"refresh", "announce"} : Goto(s, from, to)
      BY <1>4 DEF StartSystem, StartRefresh
    <2> QED
      BY <2>1, <2>2, GotoFacts DEF Membership, Announced, Removed
  <1>5. CASE StartAnnounce(s)
    <2> DEFINE e == [kind |-> "conversation",
                     snapshot |-> [snap[s].read EXCEPT !.preview = lastSeq]]
    <2>1. e \in Event /\ e.kind = "conversation"
      BY SnapshotFacts DEF Event, Reader
    <2>2. UNCHANGED <<group, chats, phase, leaving>> /\ Push(e)
      BY <1>5 DEF StartAnnounce, database
    <2> HIDE DEF e
    <2>3. PICK to \in {"reply", "done"} : Goto(s, "announce", to)
      BY <1>5 DEF StartAnnounce
    <2>4. phase = 1 /\ told # 2 /\ ~leaving /\ \A i \in DOMAIN inbox : ~Removed(i)
      BY <2>3, GotoFacts DEF Membership, Founding, Founded, TypeOK
    <2>5. \A t \in Start : start'[t] # "system"
      BY <2>3, GotoFacts DEF Membership, Founding
    <2>6. CASE link = "up"
      <3>1. UNCHANGED told
        BY <2>1, <2>2, <2>6, Pushed
      <3>2. PICK last \in DOMAIN inbox' :
              /\ last \notin DOMAIN inbox /\ inbox'[last] = e
              /\ DOMAIN inbox' = DOMAIN inbox \cup {last}
              /\ \A i \in DOMAIN inbox : i < last /\ inbox'[i] = inbox[i]
        BY <2>1, <2>2, <2>6, Pushed
      <3>3. Announced(last)' /\ \A i \in DOMAIN inbox' : ~Removed(i)'
        BY <2>1, <2>4, <3>2 DEF Announced, Removed
      <3> QED
        BY <2>2, <2>4, <2>5, <3>1, <3>3 DEF Membership
    <2>7. CASE link # "up"
      <3>1. told' = 1 /\ UNCHANGED inbox
        BY <2>1, <2>2, <2>7 DEF Push, Tells
      <3> QED
        BY <2>2, <2>4, <2>5, <3>1 DEF Membership, Announced, Removed
    <2> QED
      BY <2>6, <2>7
  <1>6. CASE StartReply(s)
    <2>1. UNCHANGED <<group, chats, phase, leaving, told, inbox>> /\ Goto(s, "reply", "done")
      BY <1>6 DEF StartReply, database, client, history
    <2> QED
      BY <2>1, GotoFacts DEF Membership, Announced, Removed
  <1> QED
    BY <1>1, <1>2, <1>3, <1>4, <1>5, <1>6 DEF Starting

\* A message tells nothing of the membership.
LEMMA FanOutMembership ==
  ASSUME TypeOK, Membership, NEW p \in Party, FanOut(p)
  PROVE  Membership'
  <1> DEFINE e == [kind |-> "new", seq |-> posts[p], mine |-> p = "viewer"]
  <1>1. e \in Event /\ e.kind = "new"
    BY DEF FanOut, TypeOK, Event, Seq0, Party
  <1>2. UNCHANGED <<group, chats, phase, start, leaving>> /\ Push(e)
    BY DEF FanOut, database
  <1> HIDE DEF e
  <1>3. CASE link = "up"
    <2>1. PICK last \in DOMAIN inbox' :
            /\ last \notin DOMAIN inbox /\ inbox'[last] = e
            /\ DOMAIN inbox' = DOMAIN inbox \cup {last}
            /\ \A i \in DOMAIN inbox : i < last /\ inbox'[i] = inbox[i]
      BY <1>1, <1>2, <1>3, Pushed
    <2>2. ~Announced(last)' /\ ~Removed(last)'
          /\ \A i \in DOMAIN inbox : (Announced(i)' <=> Announced(i)) /\ (Removed(i)' <=> Removed(i))
      BY <1>1, <2>1 DEF Announced, Removed
    <2>3. UNCHANGED told
      BY <1>1, <1>2, <1>3, Pushed
    <2> QED
      BY <1>2, <2>1, <2>2, <2>3 DEF Membership
  <1>4. CASE link # "up"
    BY <1>1, <1>2, <1>4 DEF Push, Tells, Membership, Announced, Removed
  <1> QED
    BY <1>3, <1>4

\* The one removed is told last.
LEMMA RemovalMembership ==
  ASSUME TypeOK, Founding, Connected, Membership, Remove \/ TellRemoved
  PROVE  Membership'
  <1>1. CASE Remove
    BY <1>1 DEF Remove, Membership, Announced, Removed, client, history, Founding, Founded
  <1>2. CASE TellRemoved
    <2> DEFINE e == [kind |-> "removed"]
    <2>1. e \in Event /\ e.kind = "removed"
      BY DEF Event
    <2>2. UNCHANGED <<group, chats, phase, start>> /\ ~leaving' /\ Push(e) /\ phase = 2
      BY <1>2 DEF TellRemoved, database, Membership
    <2> HIDE DEF e
    <2>3. CASE link = "up"
      <3>1. PICK last \in DOMAIN inbox' :
              /\ last \notin DOMAIN inbox /\ inbox'[last] = e
              /\ DOMAIN inbox' = DOMAIN inbox \cup {last}
              /\ \A i \in DOMAIN inbox : i < last /\ inbox'[i] = inbox[i]
        BY <2>1, <2>2, <2>3, Pushed
      <3>2. ~Announced(last)' /\ Removed(last)'
            /\ \A i \in DOMAIN inbox : (Announced(i)' <=> Announced(i)) /\ (Removed(i)' <=> Removed(i))
        BY <2>1, <3>1 DEF Announced, Removed
      <3>3. UNCHANGED told
        BY <2>1, <2>2, <2>3, Pushed
      <3>4. \A i, j \in DOMAIN inbox' : j > i /\ Removed(i)' => ~Announced(j)'
        <4> SUFFICES ASSUME NEW i \in DOMAIN inbox', NEW j \in DOMAIN inbox', j > i, Removed(i)'
                     PROVE  ~Announced(j)'
          OBVIOUS
        <4>1. CASE j = last
          BY <3>2, <4>1
        <4>2. CASE j # last
          <5>1. j \in DOMAIN inbox
            BY <3>1, <4>2
          <5>2. CASE i = last
            <6>1. j < last /\ j \in Nat /\ last \in Nat
              BY <2>1, <2>2, <2>3, <3>1, <5>1, Pushed
            <6> QED
              BY <5>2, <6>1
          <5>3. CASE i # last
            BY <3>1, <3>2, <5>1, <5>3 DEF Membership
          <5> QED
            BY <5>2, <5>3
        <4> QED
          BY <4>1, <4>2
      <3> QED
        BY <2>2, <3>1, <3>2, <3>3, <3>4 DEF Membership
    <2>4. CASE link # "up"
      <3>1. told' = 2 /\ UNCHANGED inbox /\ DOMAIN inbox = {}
        BY <2>1, <2>2, <2>4 DEF Push, Tells, Connected
      <3> QED
        BY <2>2, <3>1 DEF Membership
    <2> QED
      BY <2>3, <2>4
  <1> QED
    BY <1>1, <1>2

\* The event that is handled was the first of them.
LEMMA HandleMembership ==
  ASSUME TypeOK, Founding, Membership, Handle
  PROVE  Membership'
  <1>1. UNCHANGED <<group, chats, phase, start, leaving>>
    BY HandleFacts DEF database
  <1>2. \A i \in DOMAIN inbox' :
          /\ i + 1 \in DOMAIN inbox /\ i + 1 > 1
          /\ (Announced(i)' <=> Announced(i + 1)) /\ (Removed(i)' <=> Removed(i + 1))
    BY Taken DEF Announced, Removed
  <1>3. \A i \in DOMAIN inbox : i # 1 =>
          /\ i - 1 \in DOMAIN inbox'
          /\ (Announced(i - 1)' <=> Announced(i)) /\ (Removed(i - 1)' <=> Removed(i))
    BY Taken DEF Announced, Removed
  <1>4. told' = IF Announced(1) THEN 1 ELSE IF Removed(1) THEN 2 ELSE told
    BY HandleFacts DEF Tells, Announced, Removed
  <1>5. 1 \in DOMAIN inbox /\ DOMAIN inbox \subseteq Nat /\ DOMAIN inbox' \subseteq Nat
    BY Taken
  <1>6. /\ told' # 0 => phase # 0
        /\ told' = 2 => phase = 2
    BY <1>4, <1>5 DEF Membership
  <1>7. told' = 2 => \A i \in DOMAIN inbox' : ~Announced(i)'
    BY <1>2, <1>4, <1>5 DEF Membership
  <1>8. \A i \in DOMAIN inbox' :
          /\ Announced(i)' => phase # 0
          /\ Removed(i)' => phase = 2 /\ \A j \in DOMAIN inbox' : j > i => ~Announced(j)'
    <2> SUFFICES ASSUME NEW i \in DOMAIN inbox'
                 PROVE  /\ Announced(i)' => phase # 0
                        /\ Removed(i)' => /\ phase = 2
                                          /\ \A j \in DOMAIN inbox' : j > i => ~Announced(j)'
      OBVIOUS
    <2>1. Announced(i)' => phase # 0
      BY <1>2 DEF Membership
    <2>2. ASSUME Removed(i)', NEW j \in DOMAIN inbox', j > i PROVE ~Announced(j)'
      <3>1. j + 1 > i + 1 /\ i + 1 \in DOMAIN inbox /\ j + 1 \in DOMAIN inbox
        BY <1>2, <1>5, <2>2
      <3>2. Removed(i + 1)
        BY <1>2, <2>2
      <3>3. ~Announced(j + 1)
        BY <3>1, <3>2 DEF Membership
      <3> QED
        BY <1>2, <3>3
    <2> QED
      BY <1>2, <2>1, <2>2 DEF Membership
  <1>9. phase = 1 => \/ told' = 1
                     \/ \E s \in Start : start[s] \in {"system", "refresh", "announce"}
                     \/ \E i \in DOMAIN inbox' : Announced(i)'
    BY <1>3, <1>4, <1>5 DEF Membership
  <1>10. phase = 2 => told' = 2 \/ leaving \/ \E i \in DOMAIN inbox' : Removed(i)'
    <2> SUFFICES ASSUME phase = 2, told' # 2, ~leaving PROVE \E i \in DOMAIN inbox' : Removed(i)'
      OBVIOUS
    <2>1. ~Removed(1) /\ told # 2
      BY <1>4, <1>5 DEF Membership, Announced, Removed
    <2>2. PICK i \in DOMAIN inbox : Removed(i)
      BY <2>1 DEF Membership
    <2> QED
      BY <1>3, <2>1, <2>2
  <1>11. \A s \in Start : start[s] = "system" =>
           group /\ told' = 0 /\ \A i \in DOMAIN inbox' : ~Announced(i)'
    BY <1>2, <1>4, <1>5 DEF Membership
  <1>12. /\ phase = 0 <=> chats = {}
         /\ leaving => phase = 2
         /\ phase = 2 => group /\ \A s \in Start : start[s] \in {"idle", "done"}
    BY DEF Membership
  <1> QED
    BY <1>1, <1>6, <1>7, <1>8, <1>9, <1>10, <1>11, <1>12 DEF Membership

\* A connection that drops tells nothing of what it loses; the history knows.
LEMMA DropMembership ==
  ASSUME TypeOK, Membership, Drop
  PROVE  Membership'
  <1>1. UNCHANGED <<group, chats, phase, start, leaving>> /\ DOMAIN inbox' = {}
    BY DEF Drop, database, serving
  <1>2. DOMAIN inbox = 1..Len(inbox)
    BY EventFacts
  <1>3. told' = IF \E i \in DOMAIN inbox : Removed(i) THEN 2
                ELSE IF \E i \in DOMAIN inbox : Announced(i) THEN 1 ELSE told
    BY <1>2 DEF Drop, Announced, Removed
  <1> QED
    BY <1>1, <1>3 DEF Membership

\* Every step keeps what was told in line with the membership.
LEMMA MembershipStep ==
  ASSUME TypeOK, Founding, Connected, Membership, Next
  PROVE  Membership'
  <1>1. CASE UNCHANGED <<group, chats, phase, start, leaving, told, inbox>>
    BY <1>1 DEF Membership, Announced, Removed
  <1>2. ASSUME NEW s \in Start, Starting(s) PROVE Membership'
    BY <1>2, StartingMembership
  <1>3. ASSUME NEW p \in Party, StoreMessage(p) \/ FanOut(p) PROVE Membership'
    BY <1>1, <1>3, FanOutMembership DEF StoreMessage, client, history
  <1>4. CASE Remove \/ TellRemoved \/ Handle \/ Drop
    BY <1>4, RemovalMembership, HandleMembership, DropMembership
  <1>5. CASE \/ HandleRead \/ HandleRest \/ ReadPage \/ DetailMember \/ DetailConversation
             \/ \E r \in Reader : ReadPreview(r) \/ DetailEnds(r)
             \/ ListEnds \/ ListFails
    BY <1>1, <1>5 DEF HandleRead, HandleRest, ReadPage, DetailMember, DetailConversation,
           ReadPreview, DetailEnds, ListEnds, ListFails, database, client, history, serving
  <1>6. CASE Open \/ Look \/ Hide \/ Leave \/ Connect \/ Reconnect
    BY <1>1, <1>6 DEF Open, Look, Hide, Leave, Connect, Reconnect, database, history, serving
  <1> QED
    BY <1>2, <1>3, <1>4, <1>5, <1>6 DEF Next, Party

-----------------------------------------------------------------------------
\* Two counts of the same messages are the same.
LEMMA CountsAgree ==
  ASSUME NEW a \in Nat, NEW b \in Nat, 1..a = 1..b
  PROVE  a = b
  <1>1. a \in 1..a \/ a = 0
    OBVIOUS
  <1>2. b \in 1..b \/ b = 0
    OBVIOUS
  <1> QED
    BY <1>1, <1>2

\* A snapshot that arrives in step shows what was told.
LEMMA ReplaceShown ==
  ASSUME TypeOK, SnapshotsKnown, NEW r \in Reader, snap[r].step = "answer",
         Replace(snap[r].read), UNCHANGED <<over, told>>
  PROVE  Shown'
  <1> DEFINE s == snap[r].read
  <1>1. s \in Snapshot /\ s.mark <= s.last
    BY SnapshotFacts DEF SnapshotsKnown
  <1>2. row' = RowOf(s) /\ stale' = ~InStep(s)
    BY DEF Replace
  <1> HIDE DEF s
  <1>3. ~stale' => s.phase = told /\ (s.phase = 1 => over = 1..s.last /\ s.preview = s.last)
    BY <1>2 DEF InStep
  <1> QED
    BY <1>1, <1>2, <1>3, RowOfFacts DEF Shown

\* What is left when a message is heard in order.
LEMMA HeardInOrder ==
  ASSUME TypeOK, Shown, NEW e \in Event, HearMessage(e), Tells(e), ~stale'
  PROVE  /\ ~stale /\ row \in Row /\ row # NoRow /\ told' = 1 /\ told = 1
         /\ row.last \in Nat /\ row.mark \in Nat /\ row.unread \in Nat
         /\ e.seq = row.last + 1 /\ over = 1..row.last /\ over' = 1..e.seq
         /\ row.unread = row.last - row.mark
  <1>1. /\ ~stale /\ over = 1..(e.seq - 1) /\ row # NoRow /\ e.kind = "new"
        /\ over' = over \cup {e.seq} /\ told' = told
    BY DEF HearMessage, InOrder, Tells
  <1>2. /\ row \in Row /\ row.last \in Nat /\ row.mark \in Nat /\ row.unread \in Nat
    BY <1>1 DEF TypeOK, Row, Seq0
  <1>3. e.seq \in Nat \ {0} /\ e.seq - 1 \in Nat
    BY <1>1 DEF Event
  <1>4. over = 1..row.last /\ row.unread = row.last - row.mark /\ told = 1
    BY <1>1 DEF Shown
  <1>5. e.seq - 1 = row.last
    BY <1>1, <1>2, <1>3, <1>4, CountsAgree
  <1>6. over' = 1..e.seq
    BY <1>1, <1>3
  <1> QED
    BY <1>1, <1>2, <1>3, <1>4, <1>5, <1>6

LEMMA HandleShown ==
  ASSUME TypeOK, SnapshotsKnown, Shown, Handle
  PROVE  Shown'
  <1> DEFINE e == inbox[1]
  <1>1. e \in Event /\ Tells(e) /\ 1 \in DOMAIN inbox
    BY HandleFacts, Taken
  <1>2. e.kind = "conversation" =>
          /\ e.snapshot \in Snapshot /\ e.snapshot.phase = 1 /\ e.snapshot.mark <= e.snapshot.last
    BY <1>1, EventFacts DEF SnapshotsKnown
  <1> HIDE DEF e
  <1>3. CASE HearMessage(e)
    <2> SUFFICES ASSUME ~stale' PROVE Shown'
      BY DEF Shown
    <2>1. /\ row # NoRow /\ told' = 1 /\ row.last \in Nat /\ row.mark \in Nat
          /\ row.unread \in Nat /\ row.unread = row.last - row.mark
          /\ e.seq = row.last + 1 /\ over' = 1..e.seq
      BY <1>1, <1>3, HeardInOrder
    <2>2. \A seen \in BOOLEAN : \A unread :
            LET r == Grown(e, unread, seen)
            IN  /\ r.unread = unread /\ r.preview = e.seq /\ r.last = e.seq
                /\ r.mark = IF seen THEN e.seq ELSE row.mark
      BY <2>1, GrownFacts
    <2>3. CASE view = "open" /\ ~e.mine
      <3> DEFINE r == Grown(e, 0, TRUE)
      <3>1. MarksRead(r, e.seq..lastSeq) /\ r \in Row /\ e.seq..lastSeq \in SUBSET Seq0
        BY <1>1, <1>3, <2>3, GrownType, EndsType DEF HearMessage
      <3>2. r.preview = e.seq /\ r.last = e.seq /\ r.mark = e.seq /\ r.unread = 0
        BY <2>2
      <3> HIDE DEF r
      <3>3. row' # NoRow /\ row'.preview = e.seq /\ row'.last = e.seq
            /\ row'.mark = e.seq /\ row'.unread = 0
        BY <3>1, <3>2, MarksReadFacts
      <3> QED
        BY <2>1, <3>3 DEF Shown
    <2>4. CASE ~(view = "open" /\ ~e.mine)
      <3>1. row' = Grown(e, 0, TRUE) \/ row' = Grown(e, row.unread + 1, FALSE)
        BY <1>3, <2>4 DEF HearMessage
      <3>2. row' \in Row /\ row' # NoRow
        BY <1>1, <1>3, <3>1, GrownType, NoRowAssumption DEF HearMessage
      <3>3. row'.preview = e.seq /\ row'.last = e.seq /\ row'.unread = row'.last - row'.mark
        <4>1. ASSUME NEW unread, NEW seen \in BOOLEAN, row' = Grown(e, unread, seen)
              PROVE  /\ row'.preview = e.seq /\ row'.last = e.seq /\ row'.unread = unread
                     /\ row'.mark = IF seen THEN e.seq ELSE row.mark
          BY <2>2, <4>1
        <4>2. \/ /\ row'.preview = e.seq /\ row'.last = e.seq
                 /\ row'.unread = 0 /\ row'.mark = e.seq
              \/ /\ row'.preview = e.seq /\ row'.last = e.seq
                 /\ row'.unread = row.unread + 1 /\ row'.mark = row.mark
          BY <3>1, <4>1
        <4> QED
          BY <2>1, <4>2
      <3> QED
        BY <2>1, <3>2, <3>3 DEF Shown
    <2> QED
      BY <2>3, <2>4
  <1>4. CASE HearUnknown(e)
    BY <1>1, <1>4 DEF HearUnknown, Tells, Shown
  <1>5. CASE HearConversation(e)
    <2>1. over' = over /\ told' = 1
      BY <1>1, <1>5 DEF HearConversation, Tells
    <2>2. ~stale' => over = 1..e.snapshot.last /\ e.snapshot.preview = e.snapshot.last
      BY <1>5 DEF HearConversation
    <2>3. row' = RowOf(e.snapshot) /\ e.kind = "conversation"
      BY <1>5 DEF HearConversation
    <2> QED
      BY <1>2, <2>1, <2>2, <2>3, RowOfFacts DEF Shown
  <1>6. CASE HearRemoved(e)
    BY <1>1, <1>6 DEF HearRemoved, Tells, Shown
  <1> QED
    BY <1>3, <1>4, <1>5, <1>6, HandleFacts DEF e

\* Every step keeps a row that is not stale in line with what was told.
LEMMA ShownStep ==
  ASSUME TypeOK, SnapshotsKnown, Membership, Shown, Next
  PROVE  Shown'
  <1>1. CASE UNCHANGED <<row, told, over>> /\ (stale => stale')
    BY <1>1 DEF Shown
  <1>2. ASSUME NEW e, Push(e), UNCHANGED row PROVE Shown'
    BY <1>2 DEF Push, Shown
  <1>3. ASSUME NEW s \in Start, Starting(s) PROVE Shown'
    <2>1. CASE StartSystem(s)
      <3>1. told = 0 /\ UNCHANGED <<row, told, stale>>
        BY <2>1 DEF StartSystem, Goto, Membership, client
      <3> QED
        BY <3>1 DEF Shown
    <2>2. CASE StartAnnounce(s)
      BY <1>2, <2>2 DEF StartAnnounce
    <2>3. CASE StartLoad(s) \/ StartFlush(s) \/ StartCommit(s) \/ StartRefresh(s) \/ StartReply(s)
      BY <1>1, <2>3 DEF StartLoad, StartFlush, StartCommit, StartRefresh, StartReply,
                        client, history
    <2> QED
      BY <1>3, <2>1, <2>2, <2>3 DEF Starting
  <1>4. ASSUME NEW p \in Party, StoreMessage(p) \/ FanOut(p) PROVE Shown'
    BY <1>1, <1>2, <1>4 DEF StoreMessage, FanOut, client, history
  <1>5. CASE TellRemoved
    BY <1>2, <1>5 DEF TellRemoved
  <1>6. CASE Remove \/ HandleRead \/ HandleRest
    BY <1>1, <1>6 DEF Remove, HandleRead, HandleRest, MarksUpTo, client, history
  <1>7. ASSUME NEW r \in Reader, DetailEnds(r) PROVE Shown'
    BY <1>7, ReplaceShown DEF DetailEnds
  <1>8. CASE ListEnds
    BY <1>8, ReplaceShown, ReaderFacts DEF ListEnds
  <1>9. CASE \/ ReadPage \/ DetailMember \/ DetailConversation
             \/ \E r \in Reader : ReadPreview(r)
             \/ ListFails
    BY <1>1, <1>9 DEF ReadPage, DetailMember, DetailConversation, ReadPreview, ListFails,
                      client, history
  <1>10. CASE Handle
    BY <1>10, HandleShown
  <1>11. CASE Open \/ Look
    <2>1. /\ row \in Row /\ row # NoRow /\ UNCHANGED <<told, over, stale>>
          /\ MarksRead(row, 1..lastSeq) /\ 1..lastSeq \in SUBSET Seq0
      BY <1>11, EndsType DEF Open, Look, TypeOK
    <2>2. row.last \in Nat /\ row.last - row.last = 0
      BY <2>1 DEF Row, Seq0
    <2> QED
      BY <2>1, <2>2, MarksReadFacts DEF Shown
  <1>12. CASE Drop
    <2> SUFFICES ASSUME ~stale' PROVE Shown'
      BY DEF Shown
    <2>1. ~stale /\ inbox = <<>> /\ UNCHANGED row
      BY <1>12 DEF Drop
    <2>2. {inbox[i] : i \in 1..Len(inbox)} = {}
      BY <2>1
    <2>3. UNCHANGED <<over, told>>
      BY <1>12, <2>2 DEF Drop
    <2> QED
      BY <2>1, <2>3 DEF Shown
  <1>13. CASE Hide \/ Leave \/ Connect \/ Reconnect
    BY <1>1, <1>13 DEF Hide, Leave, Connect, Reconnect, history
  <1> QED
    BY <1>3, <1>4, <1>5, <1>6, <1>7, <1>8, <1>9, <1>10, <1>11, <1>12, <1>13 DEF Next, Party

-----------------------------------------------------------------------------
\* An own message that is not handled yet was not told, and has a number.
LEMMA OwnFacts ==
  ASSUME TypeOK, Numbers, NEW n, Own(n)
  PROVE  n \in 1..lastSeq /\ n \notin over
  <1>1. CASE posts["viewer"] = n
    BY <1>1 DEF Own, Numbers, Party, TypeOK, Seq0
  <1>2. ASSUME NEW i \in DOMAIN inbox, IsNew(i), inbox[i].seq = n
        PROVE  n \in 1..lastSeq /\ n \notin over
    BY <1>2, EventFacts DEF Numbers, TypeOK, Seq0
  <1> QED
    BY <1>1, <1>2 DEF Own

\* At most one frame is under way.
LEMMA OneFrame ==
  ASSUME TypeOK, NEW f \in frame, NEW g \in frame
  PROVE  f = g
  <1> SUFFICES ASSUME f # g PROVE FALSE
    OBVIOUS
  <1>1. IsFiniteSet(frame)
    <2>1. IsFiniteSet(0..MaxSeq)
      BY BoundAssumption, FS_Interval
    <2> QED
      BY <2>1, FS_Subset DEF TypeOK, Seq0
  <1>2. Cardinality({f, g}) = 2
    <2>1. IsFiniteSet({f}) /\ Cardinality({f}) = 1 /\ g \notin {f} /\ {f, g} = {f} \cup {g}
      BY FS_Singleton
    <2> QED
      BY <2>1, FS_AddElement
  <1>3. Cardinality({f, g}) <= Cardinality(frame)
    BY <1>1, FS_Subset
  <1> QED
    BY <1>1, <1>2, <1>3, FS_CardinalityType DEF TypeOK

\* The number of a row's last message, and of its mark.
LEMMA RowNumbers ==
  ASSUME TypeOK, MarksKnown, row # NoRow
  PROVE  /\ row \in Row /\ row.last \in Nat /\ row.mark \in Nat
         /\ row.mark <= row.last /\ row.last <= lastSeq
  BY DEF TypeOK, Row, Seq0, MarksKnown

\* What the mark of a row does not depend on.
LEMMA SameMarked ==
  ASSUME TypeOK, Numbers, Marked, UNCHANGED <<row, frame, phase, mark, unsent>>,
         stale => stale', \A n : Own(n)' <=> Own(n), lastSeq' \in Nat, lastSeq <= lastSeq'
  PROVE  Marked'
  <1>1. Owned' <=> Owned
    BY OwnFacts, NumberFacts DEF Owned
  <1> QED
    BY <1>1 DEF Marked

\* A snapshot with the mark of the server has every own message there is.
LEMMA NoneOwned ==
  ASSUME TypeOK, Numbers, MarksKnown, NEW s \in Snapshot, over = 1..s.last, s.mark = mark,
         s.mark <= s.last
  PROVE  ~Owned
  <1> SUFFICES ASSUME NEW n \in 1..lastSeq, Own(n) PROVE FALSE
    BY DEF Owned
  <1>1. n <= s.last /\ n \notin 1..s.last
    BY OwnFacts, NumberFacts DEF MarksKnown, Snapshot, Seq0
  <1> QED
    BY <1>1 DEF Snapshot, Seq0

LEMMA ReplaceMarked ==
  ASSUME TypeOK, Numbers, MarksKnown, SnapshotsKnown, NEW r \in Reader, snap[r].step = "answer",
         Replace(snap[r].read), UNCHANGED <<posts, inbox, lastSeq, mark, frame, told, over, phase>>
  PROVE  Marked'
  <1> DEFINE s == snap[r].read
  <1>1. s \in Snapshot /\ s.mark <= s.last
    BY SnapshotFacts DEF SnapshotsKnown
  <1>2. row' = RowOf(s) /\ stale' = ~InStep(s)
    BY DEF Replace
  <1> HIDE DEF s
  <1> SUFFICES ASSUME ~stale', row' # NoRow PROVE Marked'
    BY DEF Marked
  <1>3. /\ s.phase = 1 /\ row'.mark = s.mark
        /\ over = 1..s.last /\ s.mark = mark
    BY <1>1, <1>2, RowOfFacts DEF InStep
  <1>4. ~Owned
    BY <1>1, <1>3, NoneOwned
  <1>5. ~Owned'
    BY <1>4, OwnSame DEF Owned
  <1> QED
    BY <1>3, <1>5, NumberFacts DEF Marked

\* A mark that is handled goes to that of the row, or shows it to be stale.
LEMMA ReadMarked ==
  ASSUME TypeOK, Numbers, MarksKnown, Shown, Marked, HandleRead \/ HandleRest
  PROVE  Marked'
  <1> USE NumberFacts
  <1>1. /\ UNCHANGED <<row, phase, lastSeq, posts, inbox, unsent>>
        /\ stale => stale'
    <2>1. CASE HandleRead
      <3>1. stale => stale'
        BY <2>1 DEF HandleRead, MarksUpTo
      <3> QED
        BY <2>1, <3>1 DEF HandleRead, serving
    <2>2. CASE HandleRest
      <3>1. stale => stale'
        BY <2>2, Zenon DEF HandleRest, MarksUpTo
      <3> QED
        BY <2>2, <3>1 DEF HandleRest, serving
    <2> QED
      BY <2>1, <2>2
  <1>2. /\ \A n : Own(n)' <=> Own(n)
        /\ Owned' <=> Owned
    BY <1>1, OwnSame DEF Owned
  <1> SUFFICES ASSUME ~stale', ~stale, row # NoRow, phase = 1 PROVE Marked'
    BY <1>1 DEF Marked
  <1>3. /\ row.mark \in Nat /\ row.last \in Nat
        /\ row.mark <= row.last /\ row.last <= lastSeq
    BY RowNumbers
  <1>4. CASE UNCHANGED <<mark, frame>>
    BY <1>1, <1>2, <1>4, SameMarked
  <1>5. ASSUME NEW f \in frame \cup rest, MarksUpTo(f),
               \/ frame' = {} /\ f \in frame
               \/ UNCHANGED frame
        PROVE  Marked'
    <2>1. f \in Nat /\ f <= lastSeq
      BY DEF TypeOK, Seq0, MarksKnown
    <2> DEFINE to == IF f = 0 THEN lastSeq ELSE f
    <2>2. /\ to \in Nat /\ mark' = IF to > mark THEN to ELSE mark
          /\ mark' > mark => mark' <= row.mark
      <3>1. stale' = (stale \/ (row # NoRow /\ mark' > mark /\ mark' > row.mark))
        BY <1>5 DEF MarksUpTo
      <3>2. mark' = IF to > mark THEN to ELSE mark
        BY <1>5 DEF MarksUpTo
      <3>3. ~(mark' > mark /\ mark' > row.mark)
        BY <3>1, Zenon
      <3>4. to \in Nat
        BY <2>1
      <3> QED
        BY <1>3, <3>2, <3>3, <3>4
    <2>3. to >= row.mark \/ to = f
      BY <1>3
    <2> HIDE DEF to
    <2>4. CASE Owned
      <3>1. Own(mark)
        BY <1>1, <2>4 DEF Marked
      <3>2. mark \notin 1..row.last /\ mark # 0
        BY <1>1, <3>1, OwnFacts DEF Shown
      <3>3. mark' = mark
        BY <1>3, <2>2, <3>2
      <3>4. Own(mark)'
        <4>1. \A n : n = mark => (Own(n)' <=> Own(mark)')
          BY <3>3
        <4> QED
          BY <1>2, <3>1, <4>1
      <3> QED
        BY <1>1, <1>2, <2>4, <3>4 DEF Marked
    <2>5. CASE ~Owned
      <3>1. mark <= row.mark
            /\ (~unsent => mark = row.mark \/ \E g \in frame : g = 0 \/ g >= row.mark)
        BY <1>1, <2>5 DEF Marked
      <3>2. mark' <= row.mark
        BY <1>3, <2>2, <3>1
      <3>3. ASSUME ~unsent
            PROVE  mark' = row.mark \/ \E g \in frame' : g = 0 \/ g >= row.mark
        <4>1. CASE mark = row.mark
          BY <1>3, <2>2, <3>2, <4>1
        <4>2. ASSUME NEW g \in frame, g = 0 \/ g >= row.mark
              PROVE  mark' = row.mark \/ \E h \in frame' : h = 0 \/ h >= row.mark
          <5>1. CASE UNCHANGED frame
            BY <4>2, <5>1
          <5>2. CASE f \in frame
            <6>1. f = g
              BY <5>2, OneFrame
            <6>2. to >= row.mark
              BY <1>3, <4>2, <6>1 DEF to
            <6> QED
              BY <1>3, <2>2, <3>2, <6>2
          <5> QED
            BY <1>5, <5>1, <5>2
        <4> QED
          BY <3>1, <3>3, <4>1, <4>2
      <3> QED
        BY <1>1, <1>2, <2>5, <3>2, <3>3 DEF Marked
    <2> QED
      BY <2>4, <2>5
  <1>6. \/ UNCHANGED <<mark, frame>>
        \/ \E f \in frame \cup rest :
             /\ MarksUpTo(f)
             /\ \/ frame' = {} /\ f \in frame
                \/ UNCHANGED frame
    BY DEF HandleRead, HandleRest
  <1> QED
    BY <1>4, <1>5, <1>6

\* A frame covers the row that was marked as read, or leaves a badge unsent.
LEMMA ReadCovers ==
  ASSUME TypeOK, NEW r \in Row, NEW ends \in SUBSET Seq0, MarksRead(r, ends),
         mark <= r.mark, r.mark <= r.last,
         r = row /\ ~unsent => mark = r.mark,
         r # row => r.mark = r.last /\ \A to \in ends : to >= r.last
  PROVE  /\ mark <= row'.mark
         /\ ~unsent' => mark = row'.mark \/ \E f \in frame' : f = 0 \/ f >= row'.mark
  <1>1. mark \in Nat /\ r.mark \in Nat /\ r.last \in Nat /\ \A to \in ends : to \in Nat
    BY NumberFacts DEF Row, Seq0
  <1>2. ASSUME row'.mark = r.last, NEW to \in {0} \cup ends,
               frame' = IF to = 0 \/ to > mark THEN {to} ELSE {},
               unsent' = IF to = 0 \/ to >= r.last THEN FALSE ELSE unsent \/ r.mark < r.last
        PROVE  /\ mark <= row'.mark
               /\ ~unsent' => mark = row'.mark \/ \E f \in frame' : f = 0 \/ f >= row'.mark
    <2>1. mark <= row'.mark
      BY <1>1, <1>2
    <2>2. CASE to = 0
      BY <1>2, <2>1, <2>2
    <2>3. CASE to # 0 /\ to >= r.last
      BY <1>1, <1>2, <2>1, <2>3
    <2>4. CASE to # 0 /\ to < r.last
      <3>1. r = row /\ ~(to = 0 \/ to >= r.last)
        BY <1>1, <1>2, <2>4
      <3>2. ~unsent' => ~unsent /\ ~(r.mark < r.last)
        BY <1>2, <3>1
      <3> QED
        BY <1>1, <1>2, <2>1, <3>1, <3>2
    <2> QED
      BY <1>1, <2>2, <2>3, <2>4
  <1>3. CASE row' = r /\ unsent' = (unsent \/ r # row)
    BY <1>1, <1>3
  <1> QED
    BY <1>2, <1>3, MarksReadFacts

\* Reading the conversation takes the mark of the row to its last message.
LEMMA OpenMarked ==
  ASSUME TypeOK, Numbers, MarksKnown, Marked, Open \/ Look
  PROVE  Marked'
  <1>1. /\ row \in Row /\ row # NoRow
        /\ MarksRead(row, 1..lastSeq) /\ 1..lastSeq \in SUBSET Seq0
        /\ UNCHANGED <<phase, mark, lastSeq, posts, inbox, stale>>
    BY EndsType DEF Open, Look, TypeOK, database, serving
  <1>2. row.mark <= row.last
    BY <1>1, RowNumbers
  <1>3. /\ \A n : Own(n)' <=> Own(n)
        /\ Owned' <=> Owned
    BY <1>1, OwnSame DEF Owned
  <1>4. frame = {}
    BY <1>1, MarksReadFacts
  <1> SUFFICES ASSUME ~stale, phase = 1 PROVE Marked'
    BY <1>1 DEF Marked
  <1>5. CASE Owned
    BY <1>1, <1>3, <1>5 DEF Marked
  <1>6. CASE ~Owned
    <2>1. mark <= row.mark /\ (~unsent => mark = row.mark)
      BY <1>1, <1>4, <1>6 DEF Marked
    <2>2. /\ mark <= row'.mark
          /\ ~unsent' => mark = row'.mark \/ \E f \in frame' : f = 0 \/ f >= row'.mark
      BY <1>1, <1>2, <2>1, ReadCovers
    <2> QED
      BY <1>1, <1>3, <1>6, <2>2 DEF Marked
  <1> QED
    BY <1>5, <1>6

\* The row after the message that is next.
LEMMA GrownNext ==
  ASSUME NEW e, NEW unread, row.last \in Nat, e.seq = row.last + 1
  PROVE  /\ Grown(e, unread, TRUE).last = e.seq /\ Grown(e, unread, TRUE).mark = e.seq
         /\ Grown(e, unread, FALSE).mark = row.mark
  <1>1. e.seq > row.last
    OBVIOUS
  <1>2. /\ Grown(e, unread, TRUE).last = IF e.seq > row.last THEN e.seq ELSE row.last
        /\ Grown(e, unread, TRUE).mark = e.seq
        /\ Grown(e, unread, FALSE).mark = row.mark
    BY DEF Grown
  <1> QED
    BY <1>1, <1>2

\* An own message that is heard is the last there is, or leaves the last on its way.
LEMMA HearOwnMarked ==
  ASSUME TypeOK, Numbers, MarksKnown, Shown, Marked, Handle, HearMessage(inbox[1]),
         inbox[1].mine, ~stale'
  PROVE  Marked'
  <1> DEFINE e == inbox[1]
  <1>1. e \in Event /\ Tells(e) /\ 1 \in DOMAIN inbox /\ IsNew(1)
        /\ UNCHANGED <<phase, mark, lastSeq, posts>>
    BY HandleFacts, Taken DEF HearMessage, IsNew, database, Handle
  <1> HIDE DEF e
  <1>2. /\ ~stale /\ row # NoRow /\ row.last \in Nat /\ row.mark \in Nat
        /\ e.seq = row.last + 1 /\ over = 1..row.last
    BY <1>1, HeardInOrder DEF e
  <1>3. row' = Grown(e, 0, TRUE) /\ UNCHANGED frame
    BY DEF HearMessage, e
  <1>4. row'.mark = e.seq /\ row'.last = e.seq
    BY <1>2, <1>3, GrownNext
  <1>5. row.mark <= row.last /\ row.last <= lastSeq
    BY <1>2, RowNumbers
  <1>7. PICK m : m = e.seq /\ Own(m)
    <2>1. Own(e.seq)
      BY <1>1, <1>2 DEF Own, e
    <2> QED
      BY <2>1
  <1>8. ~Own(m)'
    <2>1. posts["viewer"] # m
      BY <1>1, <1>7 DEF Numbers, Party, e
    <2>2. ASSUME NEW i \in DOMAIN inbox', IsNew(i)', inbox'[i].seq = m PROVE FALSE
      <3>1. i + 1 \in DOMAIN inbox /\ i + 1 # 1 /\ IsNew(i + 1) /\ inbox[i + 1].seq = m
        BY <2>2, Taken DEF IsNew
      <3> QED
        BY <1>1, <1>7, <3>1 DEF Numbers, e
    <2> QED
      BY <1>1, <2>1, <2>2 DEF Own
  <1>9. \A n : /\ Own(n)' => Own(n)
               /\ Own(n) => Own(n)' \/ n = m
    BY <1>7, OwnHandled DEF e
  <1>10. phase = 1 => Own(mark)
    <2>1. Owned
      BY <1>7, OwnFacts DEF Owned
    <2> QED
      BY <1>2, <2>1 DEF Marked
  <1>11. CASE phase = 1 /\ Owned'
    <2>1. PICK n \in 1..lastSeq : Own(n)'
      BY <1>1, <1>11 DEF Owned
    <2>2. Own(n) /\ n # m /\ n <= mark /\ n \notin over
      <3>1. Own(n)
        BY <1>9, <2>1
      <3>2. n # m
        BY <1>8, <2>1
      <3> QED
        BY <3>1, <3>2, OwnFacts DEF MarksKnown
    <2>3. mark # m
      BY <1>2, <1>7, <2>1, <2>2, NumberFacts
    <2>4. Own(mark)'
      <3>1. Own(mark) /\ mark' = mark
        BY <1>1, <1>10, <1>11
      <3>2. \A n1 : n1 = mark => (Own(n1)' <=> Own(mark)')
        BY <3>1
      <3> QED
        BY <1>9, <2>3, <3>1, <3>2
    <2> QED
      BY <1>1, <1>11, <2>4 DEF Marked
  <1>12. CASE phase = 1 /\ ~Owned'
    <2>1. ~Own(mark)'
      BY <1>1, <1>10, <1>12, OwnFacts DEF Owned
    <2>2. mark = m
      BY <1>1, <1>9, <1>10, <1>12, <2>1
    <2>3. mark' = row'.mark /\ mark' <= row'.mark
      BY <1>1, <1>2, <1>4, <1>5, <1>7, <2>2
    <2> QED
      BY <1>1, <1>12, <2>3 DEF Marked
  <1>13. CASE phase # 1
    BY <1>1, <1>13 DEF Marked
  <1> QED
    BY <1>11, <1>12, <1>13

\* A message of another is read at once, read and not told to the server, or counted.
LEMMA HearOtherMarked ==
  ASSUME TypeOK, Numbers, MarksKnown, Shown, Marked, Handle, HearMessage(inbox[1]),
         ~inbox[1].mine, ~stale'
  PROVE  Marked'
  <1> DEFINE e == inbox[1]
  <1>1. e \in Event /\ Tells(e) /\ e.kind = "new" /\ UNCHANGED <<phase, mark, lastSeq>>
    BY HandleFacts DEF HearMessage, database
  <1>2. Owned' <=> Owned
    BY <1>1, OwnHandled DEF Owned
  <1>3. Own(mark)' <=> Own(mark)
    BY <1>1, OwnHandled
  <1>4. HearMessage(e) /\ ~e.mine
    OBVIOUS
  <1> HIDE DEF e
  <1>5. /\ ~stale /\ row # NoRow /\ row.last \in Nat /\ row.mark \in Nat
        /\ e.seq = row.last + 1
    BY <1>1, <1>4, HeardInOrder
  <1>6. row.mark <= row.last /\ mark \in Nat
    BY <1>5, RowNumbers, NumberFacts
  <1>7. phase = 1 => IF Owned THEN Own(mark)
                     ELSE /\ mark <= row.mark
                          /\ ~unsent => mark = row.mark \/ \E f \in frame : f = 0 \/ f >= row.mark
    BY <1>5 DEF Marked
  <1>8. CASE view = "open"
    <2> DEFINE r == Grown(e, 0, TRUE)
    <2>1. /\ MarksRead(r, e.seq..lastSeq) /\ r \in Row
          /\ e.seq..lastSeq \in SUBSET Seq0
      BY <1>1, <1>4, <1>8, GrownType, EndsType DEF HearMessage
    <2>2. r.last = e.seq /\ r.mark = e.seq
      BY <1>5, GrownNext
    <2>3. r # row
      <3>1. e.seq # row.last
        BY <1>5
      <3> QED
        BY <2>2, <3>1, Zenon
    <2> HIDE DEF r
    <2>4. mark <= row.mark => mark <= r.mark
      BY <1>5, <1>6, <2>2
    <2>5. \A to \in e.seq..lastSeq : to >= r.last
      BY <1>5, <2>2
    <2>6. mark <= row.mark =>
            /\ mark <= row'.mark
            /\ ~unsent' => mark = row'.mark \/ \E f \in frame' : f = 0 \/ f >= row'.mark
      <3> SUFFICES ASSUME mark <= row.mark
                   PROVE  /\ mark <= row'.mark
                          /\ ~unsent' => \/ mark = row'.mark
                                         \/ \E f \in frame' : f = 0 \/ f >= row'.mark
        OBVIOUS
      <3>1. mark <= r.mark /\ r.mark <= r.last /\ r.mark = r.last
        BY <1>5, <2>2, <2>4
      <3> QED
        BY <2>1, <2>3, <2>5, <3>1, ReadCovers
    <2> QED
      BY <1>1, <1>2, <1>3, <1>7, <2>6 DEF Marked
  <1>9. CASE view = "hidden"
    <2>1. row' = Grown(e, 0, TRUE) /\ unsent'
      BY <1>4, <1>9 DEF HearMessage
    <2>2. row'.mark = e.seq
      BY <1>5, <2>1, GrownNext
    <2>3. mark <= row.mark => mark <= row'.mark
      BY <1>5, <1>6, <2>2
    <2> QED
      BY <1>1, <1>2, <1>3, <1>7, <2>1, <2>3 DEF Marked
  <1>10. CASE view \in {"away", "left"}
    <2>1. row' = Grown(e, row.unread + 1, FALSE) /\ unsent' = unsent /\ UNCHANGED frame
      BY <1>4, <1>10 DEF HearMessage, TypeOK
    <2>2. row'.mark = row.mark
      BY <2>1, GrownFacts
    <2> QED
      BY <1>1, <1>2, <1>3, <1>7, <2>1, <2>2 DEF Marked
  <1> QED
    BY <1>8, <1>9, <1>10 DEF TypeOK

LEMMA HandleMarked ==
  ASSUME TypeOK, Numbers, MarksKnown, SnapshotsKnown, Shown, Marked, Handle
  PROVE  Marked'
  <1> SUFFICES ASSUME ~stale', row' # NoRow PROVE Marked'
    BY DEF Marked
  <1>1. CASE HearMessage(inbox[1])
    BY <1>1, HearOwnMarked, HearOtherMarked
  <1>2. CASE HearUnknown(inbox[1]) \/ HearRemoved(inbox[1])
    BY <1>2 DEF HearUnknown, HearRemoved
  <1>3. CASE HearConversation(inbox[1])
    <2> DEFINE s == inbox[1].snapshot
    <2>1. s \in Snapshot /\ s.mark <= s.last /\ s.phase = 1
      BY <1>3, Taken, EventFacts DEF HearConversation, SnapshotsKnown
    <2>2. row' = RowOf(s) /\ over = 1..s.last /\ s.mark = mark
      BY <1>3 DEF HearConversation
    <2>3. UNCHANGED <<mark, lastSeq, phase>>
      BY HandleFacts DEF database
    <2> HIDE DEF s
    <2>4. ~Owned'
      BY <2>1, <2>2, <2>3, NoneOwned, OwnHandled DEF Owned
    <2>5. row'.mark = mark
      BY <2>1, <2>2, RowOfFacts
    <2> QED
      BY <2>2, <2>3, <2>4, <2>5, NumberFacts DEF Marked
  <1> QED
    BY <1>1, <1>2, <1>3, HandleFacts

\* A message that is stored is the viewer's own, which is on its way, or leaves the marks.
LEMMA StoreMarked ==
  ASSUME TypeOK, Numbers, Marked, NEW p \in Party, StoreMessage(p)
  PROVE  Marked'
  <1>1. /\ lastSeq \in Nat /\ lastSeq' = lastSeq + 1
        /\ mark' = IF p = "viewer" THEN lastSeq + 1 ELSE mark
        /\ UNCHANGED <<row, frame, phase, unsent, stale>>
    BY NumberFacts DEF StoreMessage, client, history
  <1>2. CASE p = "viewer"
    <2>1. mark' = lastSeq + 1 /\ mark' \in 1..lastSeq'
      BY <1>1, <1>2
    <2>2. Own(mark)'
      <3>1. \A n : n = lastSeq + 1 => Own(n)'
        BY <1>2, OwnStored
      <3> QED
        BY <2>1, <3>1
    <2>3. Owned'
      BY <2>1, <2>2 DEF Owned
    <2> QED
      BY <1>1, <2>2, <2>3 DEF Marked
  <1>3. CASE p # "viewer"
    <2>1. \A n : Own(n)' <=> Own(n)
      BY <1>3, OwnStored
    <2>2. lastSeq' \in Nat /\ lastSeq <= lastSeq' /\ UNCHANGED mark
      BY <1>1, <1>3
    <2> QED
      BY <1>1, <2>1, <2>2, SameMarked
  <1> QED
    BY <1>2, <1>3

LEMMA MarkedStep ==
  ASSUME TypeOK, Founding, Numbers, MarksKnown, SnapshotsKnown, Membership, Shown, Marked, Next
  PROVE  Marked'
  <1> USE NumberFacts
  <1>1. ASSUME UNCHANGED <<row, frame, phase, mark, unsent, lastSeq>>, stale => stale',
               UNCHANGED <<posts, inbox>>
        PROVE  Marked'
    BY <1>1, OwnSame, SameMarked
  <1>2. ASSUME NEW e \in Event, e.kind # "new", Push(e), UNCHANGED posts,
               UNCHANGED <<row, frame, phase, mark, unsent, lastSeq>>
        PROVE  Marked'
    <2>1. stale => stale'
      BY <1>2 DEF Push
    <2> QED
      BY <1>2, <2>1, OwnPushed, SameMarked
  <1>3. ASSUME NEW s \in Start, Starting(s) PROVE Marked'
    <2>1. CASE StartCommit(s)
      <3>1. chats = {} /\ UNCHANGED <<row, stale>>
        BY <2>1 DEF StartCommit, Goto, Founding, client, history
      <3>2. told = 0
        BY <3>1 DEF Membership, TypeOK
      <3> QED
        BY <3>1, <3>2 DEF Shown, Marked
    <2>2. CASE StartSystem(s)
      <3>1. told = 0 /\ UNCHANGED <<row, stale>>
        BY <2>2 DEF StartSystem, Goto, Membership, client
      <3> QED
        BY <3>1 DEF Shown, Marked
    <2>3. CASE StartAnnounce(s)
      <3> DEFINE e == [kind |-> "conversation",
                       snapshot |-> [snap[s].read EXCEPT !.preview = lastSeq]]
      <3>1. e \in Event /\ e.kind # "new"
        BY SnapshotFacts DEF Event, Reader
      <3>2. /\ Push(e) /\ UNCHANGED posts
            /\ UNCHANGED <<row, frame, phase, mark, unsent, lastSeq>>
        BY <2>3 DEF StartAnnounce, database
      <3> HIDE DEF e
      <3> QED
        BY <1>2, <3>1, <3>2
    <2>4. CASE StartLoad(s) \/ StartFlush(s) \/ StartRefresh(s) \/ StartReply(s)
      BY <1>1, <2>4 DEF StartLoad, StartFlush, StartRefresh, StartReply, client, history, database
    <2> QED
      BY <1>3, <2>1, <2>2, <2>3, <2>4 DEF Starting
  <1>4. ASSUME NEW p \in Party, FanOut(p) PROVE Marked'
    <2>1. UNCHANGED <<row, frame, phase, mark, unsent, lastSeq>>
      BY <1>4 DEF FanOut, database
    <2>2. CASE link = "up"
      <3>1. UNCHANGED stale
        BY <1>4, <2>2 DEF FanOut, Push
      <3> QED
        BY <1>4, <2>1, <2>2, <3>1, OwnFannedOut, SameMarked
    <2>3. CASE link # "up"
      BY <1>4, <2>3 DEF FanOut, Push, Marked
    <2> QED
      BY <2>2, <2>3
  <1>5. CASE Remove
    BY <1>5 DEF Remove, Marked, client, history
  <1>6. CASE TellRemoved
    <2>1. [kind |-> "removed"] \in Event /\ [kind |-> "removed"].kind # "new"
      BY DEF Event
    <2>2. /\ Push([kind |-> "removed"]) /\ UNCHANGED posts
          /\ UNCHANGED <<row, frame, phase, mark, unsent, lastSeq>>
      BY <1>6 DEF TellRemoved, database
    <2> QED
      BY <1>2, <2>1, <2>2
  <1>7. ASSUME NEW r \in Reader, DetailEnds(r) PROVE Marked'
    BY <1>7, ReplaceMarked DEF DetailEnds, database
  <1>8. CASE ListEnds
    BY <1>8, ReplaceMarked, ReaderFacts DEF ListEnds, database
  <1>9. CASE \/ ReadPage \/ DetailMember \/ DetailConversation
             \/ \E r \in Reader : ReadPreview(r)
             \/ ListFails
    BY <1>1, <1>9 DEF ReadPage, DetailMember, DetailConversation, ReadPreview, ListFails,
                      client, history, database
  <1>10. CASE Drop
    <2> SUFFICES ASSUME ~stale' PROVE Marked'
      BY DEF Marked
    <2>1. /\ ~stale /\ inbox = <<>> /\ frame = {}
          /\ UNCHANGED <<inbox, frame>>
      BY <1>10 DEF Drop
    <2> QED
      BY <1>1, <1>10, <2>1 DEF Drop, database, serving
  <1>11. CASE Hide \/ Leave \/ Connect \/ Reconnect
    BY <1>1, <1>11 DEF Hide, Leave, Connect, Reconnect, history, serving, database
  <1> QED
    BY <1>3, <1>4, <1>5, <1>6, <1>7, <1>8, <1>9, <1>10, <1>11, StoreMarked, ReadMarked,
       OpenMarked, HandleMarked DEF Next, Party

-----------------------------------------------------------------------------
\* What the steps keep, beside the types and who has founded the conversation.
Agreement ==
  Connected /\ Numbers /\ MarksKnown /\ SnapshotsKnown /\ Membership /\ Shown /\ Marked

LEMMA InitAgreement == Init => Agreement
  <1> SUFFICES ASSUME Init PROVE Agreement
    OBVIOUS
  <1>1. /\ chats = {} /\ phase = 0 /\ lastSeq = 0 /\ mark = 0 /\ ~leaving
        /\ inbox = <<>> /\ DOMAIN inbox = {} /\ frame = {} /\ rest = {} /\ row = NoRow
        /\ over = {} /\ told = 0 /\ 1..lastSeq = {}
        /\ \A s \in Start : start[s] = "idle"
        /\ \A p \in Party : posts[p] = 0
        /\ \A r \in Reader : snap[r].step \in {"asked", "none"} /\ snap[r].read = Empty
    BY DEF Init, Party
  <1>2. Connected /\ Numbers
    <2>1. "viewer" \in Party
      BY DEF Party
    <2>2. \A p \in Party : posts[p] <= lastSeq /\ posts[p] \notin over
      BY <1>1
    <2>3. \A n \in 1..lastSeq : n \in over
      BY <1>1, Zenon
    <2> QED
      BY <1>1, <2>1, <2>2, <2>3 DEF Connected, Numbers
  <1>3. MarksKnown
    BY <1>1 DEF MarksKnown
  <1>4. SnapshotsKnown
    BY <1>1 DEF SnapshotsKnown, Empty
  <1>5. Membership /\ Shown /\ Marked
    BY <1>1 DEF Membership, Shown, Marked
  <1> QED
    BY <1>2, <1>3, <1>4, <1>5 DEF Agreement

\* A step that changes nothing keeps all of it.
LEMMA StutterAgreement ==
  ASSUME Agreement, UNCHANGED vars
  PROVE  Agreement'
  <1>1. /\ UNCHANGED <<group, chats, phase, lastSeq, mark, start, snap, posts, leaving>>
        /\ UNCHANGED <<link, inbox, frame, rest, row, over, told, unsent, stale>>
    BY DEF vars, database, serving, client, history
  <1>2. Connected' /\ MarksKnown' /\ Shown'
    BY <1>1, OwnSame DEF Agreement, Connected, MarksKnown, Shown
  <1>3. Numbers'
    BY <1>1 DEF Agreement, Numbers, IsNew
  <1>4. SnapshotsKnown'
    BY <1>1 DEF Agreement, SnapshotsKnown
  <1>5. Membership'
    BY <1>1 DEF Agreement, Membership, Announced, Removed
  <1>6. Marked'
    BY <1>1, OwnSame DEF Agreement, Marked, Owned
  <1> QED
    BY <1>2, <1>3, <1>4, <1>5, <1>6 DEF Agreement

LEMMA AgreementHolds == Spec => [](TypeOK /\ Founding /\ Agreement)
  <1>1. TypeOK /\ Founding /\ Agreement /\ [Next]_vars => Agreement'
    <2> SUFFICES ASSUME TypeOK, Founding, Agreement, [Next]_vars PROVE Agreement'
      OBVIOUS
    <2>1. CASE Next
      <3> USE DEF Agreement
      <3>1. Connected' /\ Numbers' /\ SnapshotsKnown'
        BY <2>1, ConnectedStep, NumbersStep, SnapshotsStep
      <3>2. MarksKnown' /\ Membership' /\ Shown'
        BY <2>1, MarksStep, MembershipStep, ShownStep
      <3>3. Marked'
        BY <2>1, MarkedStep
      <3> QED
        BY <3>1, <3>2, <3>3
    <2>2. CASE UNCHANGED vars
      BY <2>2, StutterAgreement
    <2> QED
      BY <2>1, <2>2
  <1> QED
    BY <1>1, InitAgreement, FoundingHolds, PTL DEF Spec

\* When nothing is under way every message was told, and the last phase.
LEMMA RestFacts ==
  ASSUME TypeOK, Agreement, AtRest
  PROVE  /\ over = 1..lastSeq /\ told = phase /\ ~Owned
         /\ inbox = <<>> /\ frame = {}
  <1>1. /\ inbox = <<>> /\ DOMAIN inbox = {} /\ frame = {} /\ ~leaving
        /\ posts["viewer"] = 0 /\ posts["peer"] = 0
        /\ \A s \in Start : start[s] \in {"idle", "done", "failed"}
    BY DEF AtRest
  <1>2. over = 1..lastSeq
    <2>1. over \subseteq 1..lastSeq
      BY DEF Agreement, Numbers
    <2>2. ASSUME NEW n \in 1..lastSeq PROVE n \in over
      <3>1. n # 0
        BY NumberFacts
      <3> QED
        BY <1>1, <3>1 DEF Agreement, Numbers, Party
    <2> QED
      BY <2>1, <2>2
  <1>3. told = phase
    BY <1>1 DEF Agreement, Membership, TypeOK
  <1>4. ~Owned
    BY <1>1 DEF Owned, Own
  <1> QED
    BY <1>1, <1>2, <1>3, <1>4

\* The row in the list is the one the database would give, whenever nothing is under
\* way: unless a snapshot and an event crossed, an event was lost or a badge was cleared
\* of messages that no frame covers (list_conversations and serialize_conversation against handleEvent).
THEOREM RowWillAgree == Spec => []RowAgrees
  <1>1. TypeOK /\ Agreement => RowAgrees
    <2> SUFFICES ASSUME TypeOK, Agreement, AtRest, ~stale, ~unsent PROVE row = RowOf(Now)
      BY DEF RowAgrees
    <2>1. /\ row # NoRow <=> told = 1
          /\ row # NoRow => /\ over = 1..row.last /\ row.preview = row.last
                            /\ row.unread = row.last - row.mark
      BY DEF Agreement, Shown
    <2>2. /\ Now.phase = phase /\ Now.last = lastSeq /\ Now.mark = mark /\ Now.preview = lastSeq
          /\ lastSeq \in Nat /\ mark \in Nat /\ mark <= lastSeq
      BY NumberFacts DEF Now, Agreement, MarksKnown
    <2>3. CASE phase # 1
      <3>1. row = NoRow
        BY <2>1, <2>3, RestFacts
      <3> QED
        BY <2>2, <2>3, <3>1 DEF RowOf
    <2>4. CASE phase = 1
      <3>1. row # NoRow /\ row \in Row /\ row.last \in Nat
        BY <2>1, <2>4, RestFacts, RowNumbers DEF Agreement
      <3>2. row.last = lastSeq
        BY <2>1, <2>2, <3>1, RestFacts, CountsAgree
      <3>3. row.mark = mark
        BY <2>4, <3>1, RestFacts DEF Agreement, Marked
      <3>4. row.unread = lastSeq - mark /\ row.preview = lastSeq
        BY <2>1, <3>1, <3>2, <3>3
      <3>5. row = [unread |-> lastSeq - mark, last |-> lastSeq, mark |-> mark,
                   preview |-> lastSeq]
        BY <3>1, <3>2, <3>3, <3>4 DEF Row
      <3>6. RowOf(Now) = [unread |-> IF mark > lastSeq THEN 0 ELSE lastSeq - mark,
                          last |-> lastSeq, mark |-> mark, preview |-> lastSeq]
        BY <2>2, <2>4 DEF RowOf
      <3>7. ~(mark > lastSeq)
        BY <2>2
      <3> QED
        BY <3>5, <3>6, <3>7
    <2> QED
      BY <2>3, <2>4
  <1> QED
    BY <1>1, AgreementHolds, PTL
=============================================================================
