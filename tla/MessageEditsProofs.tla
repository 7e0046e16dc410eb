-------------------------- MODULE MessageEditsProofs --------------------------
(***************************************************************************)
(* Proofs about MessageEdits, for any tabs, users and emoji: the types,    *)
(* that racing requests never store a reaction twice, and that tabs show   *)
(* what the database says unless broadcasts crossed.                       *)
(***************************************************************************)
EXTENDS MessageEdits, SequenceTheorems, TLAPS

Shape == [at : Absent \cup {"shown"}, msg : Shown]
PageShape == [step : {"none", "asked", "answer"}, read : Shown]

\* A request for the history, from its beginning to its end.
PageStep(t, c) ==
  Open(t, c) \/ LoadOlder(t, c) \/ ReadPage(t, c) \/ PageEnds(t, c) \/ PageFails(t, c)

-----------------------------------------------------------------------------
\* What the server would send is a message.
LEMMA ViewTypes ==
  ASSUME TypeOK
  PROVE  Reactions \subseteq Reaction /\ View \in Shown
  <1>1. Reactions \subseteq Reaction
    BY DEF TypeOK, Reactions
  <1> QED
    BY <1>1 DEF TypeOK, View, Shown

\* What a tab makes of an event, a page or an answer is a message, or none.
LEMMA CopyTypes ==
  /\ Unloaded \in Shape /\ Blank \in Shape
  /\ \A msg \in Shown : Show(msg) \in Shape
  /\ \A c \in Shape : HearNew(c) \in Shape /\ HearDeleted(c) \in Shape
  /\ \A c \in Shape, rs \in SUBSET Reaction : HearReaction(c, rs) \in Shape
  <1>1. None \in Shown /\ [deleted |-> TRUE, reactions |-> {}] \in Shown
    BY DEF None, Shown
  <1>2. \A msg \in Shown : Show(msg) \in Shape
    BY DEF Show, Shape
  <1>3. Unloaded \in Shape /\ Blank \in Shape
    BY <1>1 DEF Unloaded, Blank, Shape, Absent
  <1>4. \A c \in Shape : HearNew(c) \in Shape /\ HearDeleted(c) \in Shape
    BY <1>1, <1>2, <1>3 DEF HearNew, HearDeleted
  <1>5. ASSUME NEW c \in Shape, NEW rs \in SUBSET Reaction
        PROVE  HearReaction(c, rs) \in Shape
    <2>1. [c.msg EXCEPT !.reactions = rs] \in Shown
      BY DEF Shape, Shown
    <2> QED
      BY <1>2, <1>3, <2>1 DEF HearReaction
  <1> QED
    BY <1>2, <1>3, <1>4, <1>5

\* An event that is pushed keeps the inboxes typed.
LEMMA PushTypes ==
  ASSUME TypeOK, NEW e \in Event, Push(e)
  PROVE  inbox' \in [Tab -> Seq(Event)]
  <1>1. \A t \in Tab : Append(inbox[t], e) \in Seq(Event)
    BY DEF TypeOK
  <1> QED
    BY <1>1 DEF Push

\* The types hold of a request that is over, or is elsewhere.
LEMMA OverTypes ==
  ASSUME TypeOK, NEW t \in Tab, Over(t)
  PROVE  /\ edit' \in [Tab -> Edit] /\ found' \in [Tab -> BOOLEAN]
         /\ seen' \in [Tab -> SUBSET Reaction]
  BY DEF TypeOK, Over, Edit

LEMMA CrossesTypes ==
  ASSUME TypeOK, NEW late, Crosses(late)
  PROVE  crossed' \subseteq Tab
  BY DEF TypeOK, Crosses

-----------------------------------------------------------------------------
\* A tab asks: the types.
LEMMA AskTypes ==
  ASSUME TypeOK, NEW t \in Tab,
         (\E emoji \in Emoji : Toggle(t, emoji)) \/ Delete(t)
  PROVE  TypeOK'
  <1>1. ASSUME NEW e \in Edit, Ask(t, e) PROVE TypeOK'
    BY <1>1, BoundAssumption DEF TypeOK, Ask, Goto
  <1>2. CASE Delete(t)
    BY <1>1, <1>2 DEF Delete, Edit
  <1>3. ASSUME NEW emoji \in Emoji, Toggle(t, emoji) PROVE TypeOK'
    <2>1. <<Owner[t], emoji>> \in Reaction
      BY OwnerAssumption DEF Reaction
    <2>2. \A k \in {"add", "remove"} : [kind |-> k, reaction |-> <<Owner[t], emoji>>] \in Edit
      BY <2>1 DEF Edit
    <2> QED
      BY <1>1, <1>3, <2>2 DEF Toggle
  <1> QED
    BY <1>2, <1>3

\* toggle_reaction: the types.
LEMMA ToggleTypes ==
  ASSUME TypeOK, NEW t \in Tab,
         Get(t) \/ Select(t) \/ Commit(t) \/ Refresh(t) \/ PushReactions(t)
  PROVE  TypeOK'
  <1>1. CASE Get(t)
    <2>1. step' \in [Tab -> {"idle", "get", "select", "commit", "refresh", "push", "answer"}]
      BY <1>1 DEF Get, Goto, TypeOK
    <2>2. edit' \in [Tab -> Edit] /\ found' \in [Tab -> BOOLEAN]
          /\ seen' \in [Tab -> SUBSET Reaction]
      BY <1>1, OverTypes DEF Get, TypeOK
    <2> QED
      BY <1>1, <2>1, <2>2 DEF Get, TypeOK
  <1>2. CASE Select(t)
    BY <1>2 DEF Select, Goto, TypeOK
  <1>3. CASE Commit(t)
    <2>1. crossed' \subseteq Tab
      BY <1>3, CrossesTypes DEF Commit
    <2>2. CASE edit[t].kind = "add" /\ ~found[t]
      <3>1. Insert(t)
        BY <1>3, <2>2 DEF Commit
      <3>2. edit[t].reaction \in Reaction
        <4>1. edit[t] \in Edit
          BY DEF TypeOK
        <4> QED
          BY <2>2, <4>1 DEF Edit
      <3>3. rows' \subseteq [reaction : Reaction, by : Tab]
        BY <3>1, <3>2 DEF Insert, TypeOK
      <3>4. step' \in [Tab -> {"idle", "get", "select", "commit", "refresh", "push", "answer"}]
        BY <3>1 DEF Insert, Goto, TypeOK
      <3>5. edit' \in [Tab -> Edit] /\ found' \in [Tab -> BOOLEAN]
            /\ seen' \in [Tab -> SUBSET Reaction]
        BY <3>1, OverTypes DEF Insert, TypeOK
      <3> QED
        BY <1>3, <2>1, <3>3, <3>4, <3>5 DEF Commit, TypeOK
    <2>3. CASE ~(edit[t].kind = "add" /\ ~found[t])
      <3>1. rows' \subseteq rows
        BY <1>3, <2>3 DEF Commit
      <3>2. step' \in [Tab -> {"idle", "get", "select", "commit", "refresh", "push", "answer"}]
        BY <1>3, <2>3 DEF Commit, Goto, TypeOK
      <3> QED
        BY <1>3, <2>1, <2>3, <3>1, <3>2 DEF Commit, TypeOK
    <2> QED
      BY <2>2, <2>3
  <1>4. CASE Refresh(t)
    BY <1>4, ViewTypes DEF Refresh, Goto, TypeOK
  <1>5. CASE PushReactions(t)
    <2>1. [kind |-> "reaction", reactions |-> seen[t]] \in Event
      BY DEF TypeOK, Event
    <2>2. inbox' \in [Tab -> Seq(Event)]
      BY <1>5, <2>1, PushTypes DEF PushReactions
    <2>3. step' \in [Tab -> {"idle", "get", "select", "commit", "refresh", "push", "answer"}]
      BY <1>5 DEF PushReactions, Goto, TypeOK
    <2>4. edit' \in [Tab -> Edit] /\ found' \in [Tab -> BOOLEAN]
          /\ seen' \in [Tab -> SUBSET Reaction]
      BY <1>5, OverTypes DEF PushReactions
    <2> QED
      BY <1>5, <2>2, <2>3, <2>4 DEF PushReactions, TypeOK
  <1> QED
    BY <1>1, <1>2, <1>3, <1>4, <1>5

\* delete_message and the announcement of the message: the types.
LEMMA DeleteTypes ==
  ASSUME TypeOK,
         \/ Announce
         \/ \E t \in Tab : GetForDelete(t) \/ CommitDelete(t) \/ PushDeleted(t) \/ Answer(t)
  PROVE  TypeOK'
  <1>1. CASE Announce
    <2>1. [kind |-> "new"] \in Event
      BY DEF Event
    <2>2. inbox' \in [Tab -> Seq(Event)]
      BY <1>1, <2>1, PushTypes DEF Announce
    <2> QED
      BY <1>1, <2>2 DEF Announce, handler, TypeOK
  <1>2. ASSUME NEW t \in Tab, GetForDelete(t) PROVE TypeOK'
    BY <1>2 DEF GetForDelete, Goto, TypeOK
  <1>3. ASSUME NEW t \in Tab, CommitDelete(t) PROVE TypeOK'
    BY <1>3, CrossesTypes DEF CommitDelete, Goto, TypeOK
  <1>4. ASSUME NEW t \in Tab, PushDeleted(t) PROVE TypeOK'
    <2>1. [kind |-> "deleted"] \in Event
      BY DEF Event
    <2>2. inbox' \in [Tab -> Seq(Event)]
      BY <1>4, <2>1, PushTypes DEF PushDeleted
    <2> QED
      BY <1>4, <2>2 DEF PushDeleted, Goto, TypeOK
  <1>5. ASSUME NEW t \in Tab, Answer(t) PROVE TypeOK'
    <2>1. copy' \in [Tab -> Shape]
      <3>1. [deleted |-> TRUE, reactions |-> {}] \in Shown
        BY DEF Shown
      <3>2. copy \in [Tab -> Shape]
        BY DEF TypeOK, Shape
      <3> QED
        BY <1>5, <3>1, <3>2, CopyTypes DEF Answer
    <2>2. step' \in [Tab -> {"idle", "get", "select", "commit", "refresh", "push", "answer"}]
      BY <1>5 DEF Answer, Goto, TypeOK
    <2>3. edit' \in [Tab -> Edit] /\ found' \in [Tab -> BOOLEAN]
          /\ seen' \in [Tab -> SUBSET Reaction]
      BY <1>5, OverTypes DEF Answer
    <2> QED
      BY <1>5, <2>1, <2>2, <2>3 DEF Answer, TypeOK, Shape
  <1> QED
    BY <1>1, <1>2, <1>3, <1>4, <1>5

\* One request of one tab changes; the others do not.
LEMMA RequestFacts ==
  ASSUME TypeOK, NEW t \in Tab, NEW c \in Call, NEW p \in PageShape,
         page' = [page EXCEPT ![t][c] = p]
  PROVE  /\ page' \in [Tab -> [Call -> PageShape]]
         /\ page'[t][c] = p
         /\ \A d \in Call \ {c} : page'[t][d] = page[t][d]
         /\ \A u \in Tab \ {t} : page'[u] = page[u]
  <1>1. page \in [Tab -> [Call -> PageShape]]
    BY DEF TypeOK, PageShape
  <1>2. page[t] \in [Call -> PageShape]
    BY <1>1
  <1>3. page' = [page EXCEPT ![t] = [page[t] EXCEPT ![c] = p]]
    OBVIOUS
  <1>4. [page[t] EXCEPT ![c] = p] \in [Call -> PageShape]
    BY <1>2
  <1>5. page'[t] = [page[t] EXCEPT ![c] = p] /\ \A u \in Tab \ {t} : page'[u] = page[u]
    BY <1>1, <1>3
  <1> QED
    BY <1>1, <1>2, <1>3, <1>4, <1>5

\* Whatever the step, what it leaves of the request is a page.
LEMMA PageFacts ==
  ASSUME TypeOK, NEW t \in Tab, NEW c \in Call, PageStep(t, c) \/ Request(t, c)
  PROVE  \E p \in PageShape :
           /\ page' = [page EXCEPT ![t][c] = p]
           /\ p.step = "answer" => p.read = View
           /\ p.read \in {page[t][c].read, View, None}
  <1>1. page[t][c] \in PageShape /\ View \in Shown /\ None \in Shown
    BY ViewTypes DEF TypeOK, PageShape, None, Shown
  <1>2. ASSUME Request(t, c)
        PROVE  page' = [page EXCEPT ![t][c] = [step |-> "asked", read |-> page[t][c].read]]
    <2>1. [page[t][c] EXCEPT !.step = "asked"] = [step |-> "asked", read |-> page[t][c].read]
      BY <1>1 DEF PageShape
    <2>2. page' = [page EXCEPT ![t][c] = [page[t][c] EXCEPT !.step = "asked"]]
      BY <1>2 DEF Request
    <2> QED
      BY <2>1, <2>2
  <1>3. CASE Request(t, c) \/ Open(t, c) \/ LoadOlder(t, c)
    <2>1. Request(t, c)
      BY <1>3 DEF Open, LoadOlder
    <2> DEFINE q == [step |-> "asked", read |-> page[t][c].read]
    <2>2. q \in PageShape /\ q.step # "answer" /\ q.read = page[t][c].read
      BY <1>1 DEF PageShape
    <2>3. page' = [page EXCEPT ![t][c] = q]
      BY <1>2, <2>1
    <2> HIDE DEF q
    <2> QED
      BY <2>2, <2>3
  <1>4. CASE ReadPage(t, c)
    <2> DEFINE q == [step |-> "answer", read |-> View]
    <2>1. q \in PageShape /\ q.read = View
      BY <1>1 DEF PageShape
    <2>2. page' = [page EXCEPT ![t][c] = q]
      BY <1>4 DEF ReadPage
    <2> HIDE DEF q
    <2> QED
      BY <2>1, <2>2
  <1>5. CASE PageEnds(t, c) \/ PageFails(t, c)
    <2>1. NoPage \in PageShape /\ NoPage.step # "answer" /\ NoPage.read = None
      BY <1>1 DEF NoPage, PageShape
    <2>2. page' = [page EXCEPT ![t][c] = NoPage]
      BY <1>5 DEF PageEnds, PageFails
    <2> QED
      BY <2>1, <2>2
  <1> QED
    BY <1>3, <1>4, <1>5 DEF PageStep

\* Pages and events at the tabs: the types.
LEMMA TabTypes ==
  ASSUME TypeOK, NEW t \in Tab,
         \/ \E c \in Call : PageStep(t, c)
         \/ Begin(t) \/ Handle(t) \/ Drop(t) \/ Reload(t)
  PROVE  TypeOK'
  <1>0. copy \in [Tab -> Shape] /\ None \in Shown
    BY DEF TypeOK, Shape, None, Shown
  <1>1. ASSUME NEW c \in Call, PageStep(t, c)
        PROVE  TypeOK'
    <2>1. page' \in [Tab -> [Call -> PageShape]]
      BY <1>1, PageFacts, RequestFacts
    <2>2. copy' \in [Tab -> Shape]
      <3>1. CASE PageEnds(t, c)
        <4>1. page[t][c].read \in Shown
          BY DEF TypeOK
        <4>2. Show(page[t][c].read) \in Shape
          BY <4>1, CopyTypes
        <4> QED
          BY <1>0, <3>1, <4>2 DEF PageEnds
      <3>2. CASE ~PageEnds(t, c)
        BY <1>0, <1>1, <3>2 DEF PageStep, Open, LoadOlder, ReadPage, PageFails
      <3> QED
        BY <3>1, <3>2
    <2>3. crossed' \subseteq crossed
      BY <1>1 DEF PageStep, Open, LoadOlder, ReadPage, PageEnds, PageFails
    <2>4. UNCHANGED <<deleted, rows, announced, step, edit, found, seen, inbox, edits, drops>>
      BY <1>1 DEF PageStep, Open, LoadOlder, ReadPage, PageEnds, PageFails, handler
    <2> QED
      BY <2>1, <2>2, <2>3, <2>4 DEF TypeOK, Shape, PageShape
  <1>2. CASE Begin(t)
    <2>1. copy' \in [Tab -> Shape]
      BY <1>0, <1>2, CopyTypes DEF Begin
    <2> QED
      BY <1>2, <2>1 DEF Begin, handler, TypeOK, Shape
  <1>4. CASE Handle(t)
    <2>1. Head(inbox[t]) \in Event /\ Tail(inbox[t]) \in Seq(Event)
      BY <1>4 DEF Handle, TypeOK
    <2>2. PICK e \in Event : e = Head(inbox[t])
      BY <2>1
    <2>3. copy' \in [Tab -> Shape]
      <3>1. copy[t] \in Shape
        BY <1>0
      <3>2. CASE e.kind = "new"
        BY <1>0, <1>4, <2>2, <3>1, <3>2, CopyTypes DEF Handle
      <3>3. CASE e.kind = "deleted"
        BY <1>0, <1>4, <2>2, <3>1, <3>3, CopyTypes DEF Handle
      <3>4. CASE e.kind = "reaction"
        <4>1. e.reactions \in SUBSET Reaction
          BY <3>4 DEF Event
        <4>2. HearReaction(copy[t], e.reactions) \in Shape
          BY <3>1, <4>1, CopyTypes
        <4> QED
          BY <1>0, <1>4, <2>2, <3>4, <4>2 DEF Handle
      <3> QED
        BY <3>2, <3>3, <3>4 DEF Event
    <2> QED
      BY <1>4, <2>1, <2>3 DEF Handle, handler, TypeOK, Shape
  <1>5. CASE Drop(t)
    <2>1. page' \in [Tab -> [Call -> PageShape]]
      <3>1. CASE UNCHANGED page
        BY <3>1 DEF TypeOK, PageShape
      <3>2. CASE \E c \in Call : Request(t, c)
        <4>1. PICK c \in Call : Request(t, c)
          BY <3>2
        <4>2. PICK p \in PageShape : page' = [page EXCEPT ![t][c] = p]
          BY <4>1, PageFacts
        <4> QED
          BY <4>2, RequestFacts
      <3> QED
        BY <1>5, <3>1, <3>2 DEF Drop
    <2>2. inbox' \in [Tab -> Seq(Event)] /\ crossed' \subseteq Tab
      BY <1>5 DEF Drop, TypeOK
    <2>3. drops' \in 0..MaxDrops
      BY <1>5, BoundAssumption DEF Drop, TypeOK
    <2> QED
      BY <1>5, <2>1, <2>2, <2>3 DEF Drop, handler, TypeOK, PageShape
  <1>6. CASE Reload(t)
    <2>1. copy' \in [Tab -> Shape]
      BY <1>0, <1>6, CopyTypes DEF Reload
    <2>2. [c \in Call |-> NoPage] \in [Call -> PageShape]
      BY <1>0 DEF NoPage, PageShape
    <2>3. page' \in [Tab -> [Call -> PageShape]]
      BY <1>6, <2>2 DEF Reload, TypeOK, PageShape
    <2> QED
      BY <1>6, <2>1, <2>3, BoundAssumption DEF Reload, handler, TypeOK, Shape, PageShape
  <1> QED
    BY <1>1, <1>2, <1>4, <1>5, <1>6

\* Every reachable state is well typed: what the tabs show, what is on its way to
\* them and what the handlers hold of the message (TypeOK).
THEOREM TypeCorrect == Spec => []TypeOK
  <1>1. Init => TypeOK
    <2> SUFFICES ASSUME Init PROVE TypeOK
      OBVIOUS
    <2>1. copy \in [Tab -> Shape]
      BY CopyTypes DEF Init
    <2>2. NoPage \in PageShape
      BY DEF NoPage, None, Shown, PageShape
    <2>3. inbox \in [Tab -> Seq(Event)]
      BY DEF Init
    <2>4. edit \in [Tab -> Edit]
      BY DEF Init, Edit
    <2>5. /\ deleted \in BOOLEAN /\ announced \in BOOLEAN
          /\ rows \subseteq [reaction : Reaction, by : Tab]
          /\ step \in [Tab -> {"idle", "get", "select", "commit", "refresh", "push", "answer"}]
          /\ found \in [Tab -> BOOLEAN] /\ seen \in [Tab -> SUBSET Reaction]
          /\ crossed \subseteq Tab
      BY DEF Init
    <2>6. page \in [Tab -> [Call -> PageShape]]
          /\ edits \in 0..MaxEdits /\ drops \in 0..MaxDrops
      BY <2>2, BoundAssumption DEF Init
    <2> QED
      BY <2>1, <2>3, <2>4, <2>5, <2>6 DEF TypeOK, Shape, PageShape
  <1>2. TypeOK /\ [Next]_vars => TypeOK'
    <2> SUFFICES ASSUME TypeOK, [Next]_vars PROVE TypeOK'
      OBVIOUS
    <2>1. CASE UNCHANGED vars
      BY <2>1 DEF vars, handler, TypeOK
    <2>2. CASE Next
      BY <2>2, AskTypes, ToggleTypes, DeleteTypes, TabTypes DEF Next, Handler, PageStep
    <2> QED
      BY <2>1, <2>2
  <1> QED
    BY <1>1, <1>2, PTL DEF Spec

\* A reaction is stored only by Insert, if no row has it; all else removes rows.
LEMMA RowsStep ==
  ASSUME OneOfEach, [Next]_vars
  PROVE  OneOfEach'
  <1>1. ASSUME rows' \subseteq rows PROVE OneOfEach'
    BY <1>1 DEF OneOfEach
  <1>2. ASSUME NEW t \in Tab, Insert(t) PROVE OneOfEach'
    <2>1. CASE edit[t].reaction \in Reactions
      BY <1>1, <1>2, <2>1 DEF Insert
    <2>2. CASE edit[t].reaction \notin Reactions
      <3>1. rows' = rows \cup {[reaction |-> edit[t].reaction, by |-> t]}
        BY <1>2, <2>2 DEF Insert
      <3>2. \A r \in rows : r.reaction # edit[t].reaction
        BY <2>2 DEF Reactions
      <3> QED
        BY <3>1, <3>2 DEF OneOfEach
    <2> QED
      BY <2>1, <2>2
  <1>3. ASSUME NEW t \in Tab, Commit(t) PROVE OneOfEach'
    <2>1. CASE Insert(t)
      BY <1>2, <2>1
    <2>2. CASE ~Insert(t)
      BY <1>1, <1>3, <2>2 DEF Commit
    <2> QED
      BY <2>1, <2>2
  <1>4. CASE UNCHANGED vars \/ Announce
    BY <1>1, <1>4 DEF vars, Announce
  <1>5. ASSUME NEW t \in Tab,
               \/ \E emoji \in Emoji : Toggle(t, emoji)
               \/ Delete(t) \/ Get(t) \/ Select(t) \/ Refresh(t) \/ PushReactions(t)
               \/ GetForDelete(t) \/ CommitDelete(t) \/ PushDeleted(t) \/ Answer(t)
        PROVE  OneOfEach'
    BY <1>1, <1>5 DEF Toggle, Delete, Ask, Get, Select, Refresh, PushReactions,
                      GetForDelete, CommitDelete, PushDeleted, Answer
  <1>6. ASSUME NEW t \in Tab, Begin(t) \/ Handle(t) \/ Drop(t) \/ Reload(t)
        PROVE  OneOfEach'
    BY <1>1, <1>6 DEF Begin, Handle, Drop, Reload
  <1>7. ASSUME NEW t \in Tab, NEW c \in Call, PageStep(t, c)
        PROVE  OneOfEach'
    BY <1>1, <1>7 DEF PageStep, Open, LoadOlder, ReadPage, PageEnds, PageFails
  <1> QED
    BY <1>3, <1>4, <1>5, <1>6, <1>7 DEF Next, Handler, PageStep

\* One row per user and emoji, however many tabs of the user add and remove the same
\* reaction at once: uq_reaction and the check before it (toggle_reaction).
THEOREM ReactionsAreUnique == Spec => []OneOfEach
  <1>1. Init => OneOfEach
    BY DEF Init, OneOfEach
  <1> QED
    BY <1>1, RowsStep, PTL DEF Spec

-----------------------------------------------------------------------------
\* What the tabs are told.

Telling == {"refresh", "push"}
\* Nobody has committed what is not told yet.
Quiet == \A u \in Tab : step[u] \notin Telling

\* Nobody says that the message is deleted unless it is.
TruthfulRequest(u) ==
  /\ step[u] \in {"select", "refresh"} => edit[u].kind # "delete"
  /\ step[u] = "push" /\ edit[u].kind = "delete" => deleted
  /\ step[u] = "answer" => deleted
TruthfulTab(t) ==
  /\ \A c \in Call : page[t][c].read.deleted => deleted
  /\ copy[t].msg.deleted => deleted
  /\ \A i \in 1..Len(inbox[t]) : inbox[t][i].kind = "deleted" => deleted
Truthful == \A t \in Tab : TruthfulRequest(t) /\ TruthfulTab(t)

\* An event that tells all there is to know.
Tells(e) ==
  \/ e.kind = "new" /\ View = None
  \/ e.kind = "deleted" /\ deleted
  \/ e.kind = "reaction" /\ ~deleted /\ e.reactions = Reactions

\* A tab for which no broadcasts crossed: the pages it waits for are right; it has heard of
\* nothing before the message was announced; one request at most is about to tell of
\* reactions, and knows them; once all is told, the last event says all there is to know,
\* or the tab shows it.
PageRight(t) == \A c \in Call : page[t][c].step = "answer" => page[t][c].read = View
NothingYet(t) == ~announced => View = None /\ inbox[t] = <<>> /\ Quiet
OneTeller ==
  \A u \in Tab : step[u] \in Telling /\ edit[u].kind # "delete" =>
    /\ ~deleted
    /\ \A v \in Tab \ {u} : step[v] \notin Telling
    /\ step[u] = "push" => seen[u] = Reactions
Shows(t) == copy[t].at = "shown" => copy[t].msg = View
LastWord(t) ==
  Quiet => /\ inbox[t] # <<>> => Tells(inbox[t][Len(inbox[t])])
           /\ inbox[t] = <<>> => Shows(t)

Informed(t) == PageRight(t) /\ NothingYet(t) /\ OneTeller /\ LastWord(t)
AllInformed == \A t \in Tab \ crossed : Informed(t)

\* Inboxes.
LEMMA PushLast ==
  ASSUME TypeOK, NEW e \in Event, Push(e), NEW t \in Tab
  PROVE  /\ Len(inbox[t]) \in Nat /\ Len(inbox'[t]) = Len(inbox[t]) + 1
         /\ inbox'[t] # <<>> /\ inbox'[t][Len(inbox'[t])] = e
         /\ \A i \in 1..Len(inbox[t]) : inbox'[t][i] = inbox[t][i]
  <1>1. inbox[t] \in Seq(Event) /\ inbox'[t] = Append(inbox[t], e)
    BY DEF TypeOK, Push
  <1>2. /\ Len(inbox[t]) \in Nat /\ Len(inbox'[t]) = Len(inbox[t]) + 1
        /\ inbox'[t][Len(inbox[t]) + 1] = e
        /\ \A i \in 1..Len(inbox[t]) : inbox'[t][i] = inbox[t][i]
    BY <1>1, AppendProperties, LenProperties
  <1>3. Len(inbox'[t]) # 0
    BY <1>2
  <1> QED
    BY <1>2, <1>3

\* What the event that is handled leaves.
LEMMA TailLast ==
  ASSUME TypeOK, NEW t \in Tab, inbox[t] # <<>>
  PROVE  /\ Head(inbox[t]) = inbox[t][1] /\ 1 \in 1..Len(inbox[t])
         /\ Head(inbox[t]) \in Event
         /\ \A i \in 1..Len(Tail(inbox[t])) :
              i + 1 \in 1..Len(inbox[t]) /\ Tail(inbox[t])[i] = inbox[t][i + 1]
         /\ Tail(inbox[t]) = <<>> => Head(inbox[t]) = inbox[t][Len(inbox[t])]
         /\ Tail(inbox[t]) # <<>> =>
              Tail(inbox[t])[Len(Tail(inbox[t]))] = inbox[t][Len(inbox[t])]
  <1> DEFINE s == inbox[t]
  <1>1. s \in Seq(Event) /\ s # <<>>
    BY DEF TypeOK
  <1> HIDE DEF s
  <1>2. /\ Len(s) \in Nat \ {0} /\ Len(Tail(s)) = Len(s) - 1 /\ Tail(s) \in Seq(Event)
        /\ Head(s) = s[1] /\ Head(s) \in Event
        /\ \A i \in 1..Len(Tail(s)) : Tail(s)[i] = s[i + 1]
    BY <1>1, HeadTailProperties, LenProperties, EmptySeq
  <1>3. \A i \in 1..Len(Tail(s)) : i + 1 \in 1..Len(s)
    BY <1>2
  <1>4. ASSUME Tail(s) = <<>>
        PROVE  Len(s) = 1
    <2>1. Len(s) - 1 = 0
      BY <1>2, <1>4, EmptySeq, Zenon
    <2>2. Len(s) \in Nat
      BY <1>2
    <2> QED
      BY <2>1, <2>2
  <1>5. ASSUME Tail(s) # <<>>
        PROVE  Tail(s)[Len(Tail(s))] = s[Len(s)]
    <2>1. Len(Tail(s)) \in 1..Len(Tail(s)) /\ Len(Tail(s)) + 1 = Len(s)
      BY <1>2, <1>5, EmptySeq
    <2> QED
      BY <1>2, <2>1
  <1> QED
    BY <1>2, <1>3, <1>4, <1>5 DEF s

-----------------------------------------------------------------------------
\* Truthful, step by step.

\* An event that is pushed says only that the message is deleted if it is.
LEMMA PushTruthful ==
  ASSUME TypeOK, Truthful, NEW e \in Event, Push(e), e.kind = "deleted" => deleted,
         UNCHANGED <<deleted, page, copy>>
  PROVE  \A t \in Tab : TruthfulTab(t)'
  <1> SUFFICES ASSUME NEW t \in Tab, NEW i \in 1..Len(inbox'[t]), inbox'[t][i].kind = "deleted"
               PROVE  deleted
    BY DEF Truthful, TruthfulTab
  <1>1. i \in 1..Len(inbox[t]) \/ i = Len(inbox'[t])
    BY PushLast
  <1> QED
    BY <1>1, PushLast DEF Truthful, TruthfulTab

\* A request goes on, and the tabs learn nothing.
LEMMA RequestTruthful ==
  ASSUME TypeOK, Truthful, NEW t \in Tab, UNCHANGED <<inbox, page, copy>>,
         \A u \in Tab \ {t} : step'[u] = step[u] /\ edit'[u] = edit[u],
         deleted => deleted', TruthfulRequest(t)'
  PROVE  Truthful'
  <1>1. \A u \in Tab : TruthfulTab(u)'
    BY DEF Truthful, TruthfulTab
  <1>2. \A u \in Tab \ {t} : TruthfulRequest(u)'
    BY DEF Truthful, TruthfulRequest
  <1> QED
    BY <1>1, <1>2 DEF Truthful

LEMMA ToggleTruthful ==
  ASSUME TypeOK, Truthful, NEW t \in Tab,
         \/ \E emoji \in Emoji : Toggle(t, emoji)
         \/ Delete(t) \/ Get(t) \/ Select(t) \/ Commit(t) \/ Refresh(t)
         \/ GetForDelete(t) \/ CommitDelete(t)
  PROVE  Truthful'
  <1>1. ASSUME NEW e, Ask(t, e)
        PROVE  Truthful'
    <2>1. /\ step'[t] = "get" /\ UNCHANGED <<deleted, inbox, page, copy>>
          /\ \A u \in Tab \ {t} : step'[u] = step[u] /\ edit'[u] = edit[u]
      BY <1>1 DEF Ask, Goto, TypeOK
    <2>2. TruthfulRequest(t)'
      BY <2>1 DEF TruthfulRequest
    <2> QED
      BY <2>1, <2>2, RequestTruthful
  <1>2. CASE Get(t)
    <2>1. /\ step'[t] \in {"idle", "select"} /\ UNCHANGED <<deleted, inbox, page, copy>>
          /\ \A u \in Tab \ {t} : step'[u] = step[u] /\ edit'[u] = edit[u]
          /\ step'[t] = "select" => edit'[t] = edit[t] /\ edit[t].kind # "delete"
      BY <1>2 DEF Get, Goto, Over, TypeOK
    <2>2. TruthfulRequest(t)'
      BY <2>1 DEF TruthfulRequest
    <2> QED
      BY <2>1, <2>2, RequestTruthful
  <1>3. CASE Select(t)
    <2>1. /\ step'[t] = "commit" /\ UNCHANGED <<deleted, inbox, page, copy, edit>>
          /\ \A u \in Tab \ {t} : step'[u] = step[u]
      BY <1>3 DEF Select, Goto, TypeOK
    <2>2. TruthfulRequest(t)'
      BY <2>1 DEF TruthfulRequest
    <2> QED
      BY <2>1, <2>2, RequestTruthful
  <1>4. CASE Commit(t)
    <2>1. UNCHANGED <<deleted, inbox, page, copy>> /\ edit[t].kind # "delete"
      BY <1>4 DEF Commit
    <2>2. /\ \A u \in Tab \ {t} : step'[u] = step[u] /\ edit'[u] = edit[u]
          /\ step'[t] = "idle" \/ (step'[t] = "refresh" /\ edit'[t] = edit[t])
      <3>1. CASE Insert(t)
        BY <3>1 DEF Insert, Goto, Over, TypeOK
      <3>2. CASE ~Insert(t)
        BY <1>4, <3>2 DEF Commit, Goto, TypeOK
      <3> QED
        BY <3>1, <3>2
    <2>3. TruthfulRequest(t)'
      BY <2>1, <2>2 DEF TruthfulRequest
    <2> QED
      BY <2>1, <2>2, <2>3, RequestTruthful
  <1>5. CASE Refresh(t)
    <2>1. /\ step[t] = "refresh" /\ step'[t] = "push"
          /\ UNCHANGED <<deleted, inbox, page, copy, edit>>
          /\ \A u \in Tab \ {t} : step'[u] = step[u]
      BY <1>5 DEF Refresh, Goto, TypeOK
    <2>2. TruthfulRequest(t)'
      BY <2>1 DEF Truthful, TruthfulRequest
    <2> QED
      BY <2>1, <2>2, RequestTruthful
  <1>6. CASE GetForDelete(t)
    <2>1. /\ step'[t] = (IF deleted THEN "push" ELSE "commit")
          /\ UNCHANGED <<deleted, inbox, page, copy, edit>>
          /\ \A u \in Tab \ {t} : step'[u] = step[u]
      BY <1>6 DEF GetForDelete, Goto, TypeOK
    <2>2. TruthfulRequest(t)'
      BY <2>1 DEF TruthfulRequest
    <2> QED
      BY <2>1, <2>2, RequestTruthful
  <1>7. CASE CommitDelete(t)
    <2>1. /\ step'[t] = "push" /\ deleted' /\ UNCHANGED <<inbox, page, copy, edit>>
          /\ \A u \in Tab \ {t} : step'[u] = step[u]
      BY <1>7 DEF CommitDelete, Goto, TypeOK
    <2>2. TruthfulRequest(t)'
      BY <2>1 DEF TruthfulRequest
    <2> QED
      BY <2>1, <2>2, RequestTruthful
  <1> QED
    BY <1>1, <1>2, <1>3, <1>4, <1>5, <1>6, <1>7 DEF Toggle, Delete

\* The broadcasts, and the answer to who has deleted.
LEMMA PushesTruthful ==
  ASSUME TypeOK, Truthful,
         Announce \/ \E t \in Tab : PushReactions(t) \/ PushDeleted(t) \/ Answer(t)
  PROVE  Truthful'
  <1>1. CASE Announce
    <2>1. Push([kind |-> "new"]) /\ UNCHANGED <<deleted, page, copy, step, edit>>
          /\ [kind |-> "new"] \in Event
      BY <1>1 DEF Announce, handler, Event
    <2>2. \A u \in Tab : TruthfulTab(u)'
      BY <2>1, PushTruthful
    <2> QED
      BY <2>1, <2>2 DEF Truthful, TruthfulRequest
  <1>2. ASSUME NEW t \in Tab, PushReactions(t)
        PROVE  Truthful'
    <2>1. /\ Push([kind |-> "reaction", reactions |-> seen[t]])
          /\ UNCHANGED <<deleted, page, copy>> /\ step'[t] = "idle"
          /\ \A u \in Tab \ {t} : step'[u] = step[u] /\ edit'[u] = edit[u]
          /\ [kind |-> "reaction", reactions |-> seen[t]] \in Event
      BY <1>2 DEF PushReactions, Goto, Over, Event, TypeOK
    <2>2. \A u \in Tab : TruthfulTab(u)'
      BY <2>1, PushTruthful
    <2> QED
      BY <2>1, <2>2 DEF Truthful, TruthfulRequest
  <1>3. ASSUME NEW t \in Tab, PushDeleted(t)
        PROVE  Truthful'
    <2>1. /\ Push([kind |-> "deleted"]) /\ step[t] = "push" /\ edit[t].kind = "delete"
          /\ UNCHANGED <<deleted, page, copy, edit>> /\ step'[t] = "answer"
          /\ \A u \in Tab \ {t} : step'[u] = step[u]
          /\ [kind |-> "deleted"] \in Event
      BY <1>3 DEF PushDeleted, Goto, Event, TypeOK
    <2>2. deleted
      BY <2>1 DEF Truthful, TruthfulRequest
    <2>3. \A u \in Tab : TruthfulTab(u)'
      BY <2>1, <2>2, PushTruthful
    <2> QED
      BY <2>1, <2>2, <2>3 DEF Truthful, TruthfulRequest
  <1>4. ASSUME NEW t \in Tab, Answer(t)
        PROVE  Truthful'
    <2>1. /\ step[t] = "answer" /\ step'[t] = "idle" /\ UNCHANGED <<deleted, page, inbox>>
          /\ \A u \in Tab \ {t} : step'[u] = step[u] /\ edit'[u] = edit[u] /\ copy'[u] = copy[u]
      BY <1>4 DEF Answer, Goto, Over, TypeOK
    <2>2. deleted
      BY <2>1 DEF Truthful, TruthfulRequest
    <2> QED
      BY <2>1, <2>2 DEF Truthful, TruthfulRequest, TruthfulTab
  <1> QED
    BY <1>1, <1>2, <1>3, <1>4

\* What a tab hears, or reads.
LEMMA TabTruthful ==
  ASSUME TypeOK, Truthful, NEW t \in Tab,
         \/ \E c \in Call : PageStep(t, c)
         \/ Begin(t) \/ Handle(t) \/ Drop(t) \/ Reload(t)
  PROVE  Truthful'
  <1>1. TruthfulTab(t)
    BY DEF Truthful
  <1>2. ~NoPage.read.deleted /\ ~Unloaded.msg.deleted /\ ~Blank.msg.deleted
        /\ ~None.deleted /\ (View.deleted => deleted) /\ \A msg : Show(msg).msg = msg
    BY DEF NoPage, Unloaded, Blank, None, Show, View
  <1>3. ASSUME NEW c \in Call, PageStep(t, c) \/ Request(t, c)
        PROVE  /\ \A d \in Call : page'[t][d].read.deleted => deleted
               /\ \A u \in Tab \ {t} : page'[u] = page[u]
    <2>1. PICK p \in PageShape :
            page' = [page EXCEPT ![t][c] = p] /\ p.read \in {page[t][c].read, View, None}
      BY <1>3, PageFacts
    <2> QED
      BY <1>1, <1>2, <2>1, RequestFacts DEF TruthfulTab
  <1>4. /\ UNCHANGED <<deleted, step, edit>>
        /\ \A u \in Tab \ {t} : inbox'[u] = inbox[u] /\ page'[u] = page[u] /\ copy'[u] = copy[u]
    <2>1. ASSUME NEW c \in Call, PageStep(t, c)
          PROVE  /\ UNCHANGED <<deleted, step, edit, inbox>>
                 /\ \A u \in Tab \ {t} : copy'[u] = copy[u]
      BY <2>1 DEF PageStep, Open, LoadOlder, ReadPage, PageEnds, PageFails, handler, TypeOK
    <2>2. CASE Begin(t) \/ Handle(t) \/ Reload(t)
      BY <2>2 DEF Begin, Handle, Reload, handler, TypeOK
    <2>3. CASE Drop(t)
      BY <1>3, <2>3 DEF Drop, handler, TypeOK
    <2> QED
      BY <1>3, <2>1, <2>2, <2>3
  <1>5. TruthfulTab(t)'
    <2>1. ASSUME NEW c \in Call, PageStep(t, c)
          PROVE  TruthfulTab(t)'
      <3>1. UNCHANGED <<deleted, inbox>> /\ copy'[t].msg \in {copy[t].msg, page[t][c].read}
        BY <1>2, <2>1 DEF PageStep, Open, LoadOlder, ReadPage, PageEnds, PageFails, TypeOK
      <3> QED
        BY <1>1, <1>3, <2>1, <3>1 DEF TruthfulTab
    <2>2. CASE Begin(t)
      BY <1>1, <1>2, <2>2 DEF Begin, TruthfulTab, TypeOK
    <2>4. CASE Handle(t)
      <3>1. /\ inbox[t] # <<>> /\ inbox'[t] = Tail(inbox[t]) /\ UNCHANGED <<deleted, page>>
        BY <2>4 DEF Handle, TypeOK
      <3>2. \A i \in 1..Len(inbox'[t]) : inbox'[t][i].kind = "deleted" => deleted
        BY <1>1, <3>1, TailLast DEF TruthfulTab
      <3>3. copy'[t].msg.deleted => deleted
        <4>1. PICK e \in Event : e = Head(inbox[t]) /\ (e.kind = "deleted" => deleted)
          BY <1>1, <3>1, TailLast DEF TruthfulTab
        <4>2. CASE e.kind = "new"
          <5>1. copy'[t] = HearNew(copy[t])
            BY <2>4, <4>1, <4>2 DEF Handle, TypeOK
          <5> QED
            BY <1>1, <1>2, <5>1 DEF HearNew, TruthfulTab
        <4>3. CASE e.kind = "deleted"
          BY <4>1, <4>3
        <4>4. CASE e.kind = "reaction"
          <5>1. copy'[t] = HearReaction(copy[t], e.reactions)
            BY <2>4, <4>1, <4>4 DEF Handle, TypeOK
          <5>2. [copy[t].msg EXCEPT !.reactions = e.reactions].deleted = copy[t].msg.deleted
            BY DEF TypeOK, Shown
          <5> QED
            BY <1>1, <1>2, <5>1, <5>2 DEF HearReaction, TruthfulTab
        <4> QED
          BY <4>2, <4>3, <4>4 DEF Event
      <3> QED
        BY <1>1, <3>1, <3>2, <3>3 DEF TruthfulTab
    <2>5. CASE Drop(t)
      <3>1. UNCHANGED <<deleted, copy>> /\ inbox'[t] = <<>>
        BY <2>5 DEF Drop, TypeOK
      <3>2. \A d \in Call : page'[t][d].read.deleted => deleted
        BY <1>1, <1>3, <2>5 DEF Drop, TruthfulTab
      <3> QED
        BY <1>1, <3>1, <3>2 DEF TruthfulTab
    <2>6. CASE Reload(t)
      BY <1>2, <2>6 DEF Reload, TruthfulTab, TypeOK
    <2> QED
      BY <2>1, <2>2, <2>4, <2>5, <2>6
  <1> QED
    BY <1>4, <1>5 DEF Truthful, TruthfulTab, TruthfulRequest

LEMMA TruthfulStep ==
  ASSUME TypeOK, Truthful, [Next]_vars
  PROVE  Truthful'
  <1>1. CASE UNCHANGED vars
    BY <1>1 DEF vars, handler, Truthful, TruthfulRequest, TruthfulTab
  <1> QED
    BY <1>1, ToggleTruthful, PushesTruthful, TabTruthful DEF Next, Handler, PageStep

-----------------------------------------------------------------------------
\* What is told, step by step.

\* The message is what the database says.
LEMMA ViewSame ==
  ASSUME UNCHANGED <<deleted, rows>>
  PROVE  View' = View /\ Reactions' = Reactions
  BY DEF View, Reactions

\* Whom an edit does not cross waits for no page, and nothing was left to tell.
LEMMA CrossesFacts ==
  ASSUME NEW late, Crosses(late), NEW t \in Tab \ crossed'
  PROVE  /\ t \notin crossed /\ ~late /\ announced /\ Quiet
         /\ \A c \in Call : page[t][c].step # "answer"
  BY DEF Crosses, Settled, Quiet, Telling

\* No request begins or ends to tell, and a tab shows what it did, or what is so.
LEMMA AsideInformed ==
  ASSUME NEW t \in Tab, Informed(t), UNCHANGED <<deleted, rows, announced>>,
         page'[t] = page[t], inbox'[t] = inbox[t],
         copy'[t] = copy[t] \/ (copy'[t].at = "shown" => copy'[t].msg = View),
         \A u \in Tab :
           \/ step[u] \notin Telling /\ step'[u] \notin Telling
           \/ step'[u] = step[u] /\ edit'[u] = edit[u] /\ seen'[u] = seen[u]
  PROVE  Informed(t)'
  <1>1. Quiet' <=> Quiet
    BY DEF Quiet
  <1>2. View' = View /\ Reactions' = Reactions
    BY ViewSame
  <1>3. PageRight(t)' /\ NothingYet(t)'
    BY <1>1, <1>2 DEF Informed, PageRight, NothingYet
  <1>4. OneTeller'
    BY <1>2 DEF Informed, OneTeller
  <1>5. LastWord(t)'
    <2>1. \A e : Tells(e)' <=> Tells(e)
      BY <1>2 DEF Tells
    <2>2. Shows(t) => Shows(t)'
      BY <1>2 DEF Shows
    <2> QED
      BY <1>1, <2>1, <2>2 DEF Informed, LastWord
  <1> QED
    BY <1>3, <1>4, <1>5 DEF Informed

\* toggle_reaction and delete_message up to their commits.
LEMMA AskInformed ==
  ASSUME TypeOK, Truthful, AllInformed, NEW w \in Tab,
         \/ \E emoji \in Emoji : Toggle(w, emoji)
         \/ Delete(w) \/ Get(w) \/ Select(w) \/ GetForDelete(w),
         NEW t \in Tab \ crossed'
  PROVE  Informed(t)'
  <1>1. ASSUME NEW e, Ask(w, e)
        PROVE  Informed(t)'
    <2>1. /\ UNCHANGED <<deleted, rows, announced, page, inbox, copy, crossed, seen>>
          /\ step[w] \notin Telling /\ step'[w] \notin Telling
          /\ \A u \in Tab \ {w} : step'[u] = step[u] /\ edit'[u] = edit[u]
      BY <1>1 DEF Ask, Goto, TypeOK, Telling
    <2> QED
      BY <2>1, AsideInformed DEF AllInformed
  <1>2. CASE Get(w)
    <2>1. /\ UNCHANGED <<deleted, rows, announced, page, inbox, copy, crossed>>
          /\ step[w] \notin Telling /\ step'[w] \notin Telling
          /\ \A u \in Tab \ {w} : step'[u] = step[u] /\ edit'[u] = edit[u] /\ seen'[u] = seen[u]
      BY <1>2 DEF Get, Goto, Over, TypeOK, Telling
    <2> QED
      BY <2>1, AsideInformed DEF AllInformed
  <1>3. CASE Select(w)
    <2>1. /\ UNCHANGED <<deleted, rows, announced, page, inbox, copy, crossed, edit, seen>>
          /\ step[w] \notin Telling /\ step'[w] \notin Telling
          /\ \A u \in Tab \ {w} : step'[u] = step[u]
      BY <1>3 DEF Select, Goto, TypeOK, Telling
    <2> QED
      BY <2>1, AsideInformed DEF AllInformed
  <1>4. CASE GetForDelete(w)
    <2>1. /\ UNCHANGED <<deleted, rows, announced, page, inbox, copy, crossed, edit, seen>>
          /\ step[w] \notin Telling /\ edit[w].kind = "delete"
          /\ step'[w] = IF deleted THEN "push" ELSE "commit"
          /\ \A u \in Tab \ {w} : step'[u] = step[u]
      BY <1>4 DEF GetForDelete, Goto, TypeOK, Telling
    <2>2. CASE deleted
      <3>1. ~Quiet'
        BY <2>1, <2>2 DEF Quiet, Telling
      <3>2. Informed(t) /\ View' = View
        BY <2>1, ViewSame DEF AllInformed
      <3>3. PageRight(t)'
        BY <2>1, <3>2 DEF Informed, PageRight
      <3>4. NothingYet(t)'
        BY <2>1, <2>2, <3>2 DEF Informed, NothingYet, View, None
      <3>5. OneTeller'
        BY <2>1, <2>2, <3>2 DEF Informed, OneTeller
      <3> QED
        BY <3>1, <3>3, <3>4, <3>5 DEF Informed, LastWord
    <2>3. CASE ~deleted
      <3>1. step'[w] \notin Telling
        BY <2>1, <2>3 DEF Telling
      <3> QED
        BY <2>1, <3>1, AsideInformed DEF AllInformed
    <2> QED
      BY <2>2, <2>3
  <1> QED
    BY <1>1, <1>2, <1>3, <1>4 DEF Toggle, Delete

\* A commit is told by its own request, which nobody joins.
LEMMA CommitInformed ==
  ASSUME TypeOK, Truthful, AllInformed, NEW w \in Tab, Commit(w) \/ CommitDelete(w),
         NEW t \in Tab \ crossed'
  PROVE  Informed(t)'
  <1>0. /\ t \notin crossed /\ announced /\ Quiet /\ \A c \in Call : page[t][c].step # "answer"
        /\ Commit(w) => ~deleted
    BY CrossesFacts DEF Commit, CommitDelete
  <1>1. /\ UNCHANGED <<announced, page, inbox, copy>>
        /\ \A u \in Tab \ {w} : step[u] \notin Telling
    BY <1>0 DEF Commit, CommitDelete, Quiet
  <1>2. ASSUME step'[w] \in Telling, \A u \in Tab \ {w} : step'[u] = step[u],
               edit'[w].kind # "delete" => ~deleted' /\ step'[w] # "push"
        PROVE  Informed(t)'
    <2>1. PageRight(t)' /\ NothingYet(t)'
      BY <1>0, <1>1 DEF PageRight, NothingYet
    <2>2. OneTeller'
      BY <1>1, <1>2 DEF OneTeller
    <2>3. ~Quiet'
      BY <1>2 DEF Quiet
    <2> QED
      BY <2>1, <2>2, <2>3 DEF Informed, LastWord
  <1>3. CASE CommitDelete(w)
    <2>1. /\ step'[w] = "push" /\ edit'[w].kind = "delete"
          /\ \A u \in Tab \ {w} : step'[u] = step[u]
      BY <1>3 DEF CommitDelete, Goto, TypeOK
    <2> QED
      BY <1>2, <2>1 DEF Telling
  <1>4. CASE Commit(w) /\ step'[w] = "refresh"
    <2>1. \A u \in Tab \ {w} : step'[u] = step[u]
      BY <1>4 DEF Commit, Insert, Goto, TypeOK
    <2>2. ~deleted'
      BY <1>0, <1>4 DEF Commit
    <2> QED
      BY <1>2, <1>4, <2>1, <2>2 DEF Telling
  <1>5. CASE Commit(w) /\ step'[w] # "refresh"
    <2>1. Insert(w) /\ edit[w].reaction \in Reactions
      BY <1>5 DEF Commit, Insert, Goto, TypeOK
    <2>2. /\ UNCHANGED <<deleted, rows>> /\ step'[w] = "idle"
          /\ \A u \in Tab \ {w} : step'[u] = step[u] /\ edit'[u] = edit[u] /\ seen'[u] = seen[u]
      BY <1>5, <2>1 DEF Commit, Insert, Goto, Over, TypeOK
    <2>3. step[w] \notin Telling /\ step'[w] \notin Telling
      BY <1>0, <2>2 DEF Quiet, Telling
    <2> QED
      BY <1>0, <1>1, <2>2, <2>3, AsideInformed DEF AllInformed
  <1> QED
    BY <1>3, <1>4, <1>5

LEMMA RefreshInformed ==
  ASSUME TypeOK, Truthful, AllInformed, NEW w \in Tab, Refresh(w), NEW t \in Tab \ crossed'
  PROVE  Informed(t)'
  <1>1. /\ UNCHANGED <<deleted, rows, announced, page, inbox, copy, crossed, edit>>
        /\ step[w] = "refresh" /\ step'[w] = "push" /\ seen'[w] = Reactions
        /\ \A u \in Tab \ {w} : step'[u] = step[u] /\ seen'[u] = seen[u]
    BY DEF Refresh, Goto, TypeOK
  <1>2. Informed(t) /\ View' = View /\ Reactions' = Reactions
    BY <1>1, ViewSame DEF AllInformed
  <1>3. edit[w].kind # "delete"
    BY <1>1 DEF Truthful, TruthfulRequest
  <1>4. ~Quiet /\ ~Quiet'
    BY <1>1 DEF Quiet, Telling
  <1>5. PageRight(t)' /\ NothingYet(t)'
    BY <1>1, <1>2, <1>4 DEF Informed, PageRight, NothingYet
  <1>6. OneTeller'
    <2>1. ~deleted /\ \A v \in Tab \ {w} : step[v] \notin Telling
      BY <1>1, <1>2, <1>3 DEF Informed, OneTeller, Telling
    <2> QED
      BY <1>1, <1>2, <2>1 DEF OneTeller
  <1> QED
    BY <1>4, <1>5, <1>6 DEF Informed, LastWord

\* The broadcasts say all there is to know.
LEMMA PushInformed ==
  ASSUME TypeOK, Truthful, AllInformed,
         Announce \/ \E w \in Tab : PushReactions(w) \/ PushDeleted(w),
         NEW t \in Tab \ crossed'
  PROVE  Informed(t)'
  <1>1. UNCHANGED <<deleted, rows, page, crossed>>
    BY DEF Announce, PushReactions, PushDeleted
  <1>2. Informed(t) /\ View' = View /\ Reactions' = Reactions
    BY <1>1, ViewSame DEF AllInformed
  <1>3. ASSUME NEW e \in Event, Push(e), Tells(e), announced', OneTeller'
        PROVE  Informed(t)'
    <2>1. PageRight(t)' /\ NothingYet(t)'
      BY <1>1, <1>2, <1>3 DEF Informed, PageRight, NothingYet
    <2>2. inbox'[t] # <<>> /\ inbox'[t][Len(inbox'[t])] = e
      BY <1>3, PushLast
    <2>3. Tells(e)'
      BY <1>1, <1>2, <1>3 DEF Tells
    <2>4. LastWord(t)'
      BY <2>2, <2>3 DEF LastWord
    <2> QED
      BY <1>3, <2>1, <2>4 DEF Informed
  <1>4. CASE Announce
    <2>1. [kind |-> "new"] \in Event /\ Push([kind |-> "new"]) /\ announced'
      BY <1>4 DEF Announce, Event
    <2>2. View = None
      BY <1>2, <1>4 DEF Announce, Informed, NothingYet
    <2>3. OneTeller'
      BY <1>1, <1>2, <1>4 DEF Announce, handler, Informed, OneTeller
    <2> QED
      BY <1>3, <2>1, <2>2, <2>3 DEF Tells
  <1>5. ASSUME NEW w \in Tab, PushReactions(w)
        PROVE  Informed(t)'
    <2>1. /\ Push([kind |-> "reaction", reactions |-> seen[w]])
          /\ [kind |-> "reaction", reactions |-> seen[w]] \in Event
          /\ step[w] = "push" /\ step'[w] = "idle" /\ edit[w].kind # "delete"
          /\ UNCHANGED announced
          /\ \A u \in Tab \ {w} : step'[u] = step[u]
      BY <1>5 DEF PushReactions, Goto, Event, TypeOK
    <2>2. ~deleted /\ seen[w] = Reactions /\ \A v \in Tab \ {w} : step[v] \notin Telling
      BY <1>2, <2>1 DEF Informed, OneTeller, Telling
    <2>3. announced
      BY <1>2, <2>1 DEF Informed, NothingYet, Quiet, Telling
    <2>4. OneTeller'
      BY <2>1, <2>2 DEF OneTeller, Telling
    <2>5. Tells([kind |-> "reaction", reactions |-> seen[w]])
      BY <2>2 DEF Tells
    <2> QED
      BY <1>3, <2>1, <2>3, <2>4, <2>5
  <1>6. ASSUME NEW w \in Tab, PushDeleted(w)
        PROVE  Informed(t)'
    <2>1. /\ Push([kind |-> "deleted"]) /\ [kind |-> "deleted"] \in Event
          /\ step[w] = "push" /\ step'[w] = "answer" /\ edit[w].kind = "delete"
          /\ UNCHANGED <<announced, edit, seen>>
          /\ \A u \in Tab \ {w} : step'[u] = step[u]
      BY <1>6 DEF PushDeleted, Goto, Event, TypeOK
    <2>2. deleted
      BY <2>1 DEF Truthful, TruthfulRequest
    <2>3. announced
      BY <1>2, <2>1 DEF Informed, NothingYet, Quiet, Telling
    <2>4. OneTeller'
      <3>1. \A u \in Tab : step'[u] \in Telling => edit'[u].kind = "delete"
        BY <1>2, <2>1, <2>2 DEF Informed, OneTeller, Telling
      <3> QED
        BY <3>1 DEF OneTeller
    <2>5. Tells([kind |-> "deleted"])
      BY <2>2 DEF Tells
    <2> QED
      BY <1>3, <2>1, <2>3, <2>4, <2>5
  <1> QED
    BY <1>4, <1>5, <1>6

LEMMA AnswerInformed ==
  ASSUME TypeOK, Truthful, AllInformed, NEW w \in Tab, Answer(w), NEW t \in Tab \ crossed'
  PROVE  Informed(t)'
  <1>1. /\ UNCHANGED <<deleted, rows, announced, page, inbox, crossed>>
        /\ step[w] = "answer" /\ step'[w] = "idle"
        /\ \A u \in Tab \ {w} : step'[u] = step[u] /\ edit'[u] = edit[u] /\ seen'[u] = seen[u]
                                /\ copy'[u] = copy[u]
        /\ copy'[w] = IF copy[w].at = "shown" THEN Show([deleted |-> TRUE, reactions |-> {}])
                                              ELSE Blank
    BY DEF Answer, Goto, Over, TypeOK
  <1>2. deleted
    BY <1>1 DEF Truthful, TruthfulRequest
  <1>3. copy'[w].at = "shown" => copy'[w].msg = View
    BY <1>1, <1>2 DEF TypeOK, View, Show, Blank
  <1>4. copy'[t] = copy[t] \/ (copy'[t].at = "shown" => copy'[t].msg = View)
    BY <1>1, <1>3
  <1>5. step[w] \notin Telling /\ step'[w] \notin Telling
    BY <1>1 DEF Telling
  <1> QED
    BY <1>1, <1>4, <1>5, AsideInformed DEF AllInformed

\* Pages and events at a tab: the last event leaves it right, and so does a page that is
\* right when nothing else is on its way.
LEMMA TabInformed ==
  ASSUME TypeOK, Truthful, AllInformed, NEW w \in Tab,
         \/ \E c \in Call : PageStep(w, c)
         \/ Begin(w) \/ Handle(w) \/ Drop(w) \/ Reload(w),
         NEW t \in Tab \ crossed'
  PROVE  Informed(t)'
  <1>a. ASSUME NEW c \in Call, PageStep(w, c)
        PROVE  /\ UNCHANGED <<deleted, rows, announced, step, edit, found, seen, inbox>>
               /\ \A u \in Tab \ {w} : copy'[u] = copy[u]
               /\ crossed \ {w} \subseteq crossed'
    BY <1>a DEF PageStep, Open, LoadOlder, ReadPage, PageEnds, PageFails, handler, TypeOK
  <1>b. ASSUME NEW c \in Call, PageStep(w, c) \/ Request(w, c)
        PROVE  /\ \A u \in Tab \ {w} : page'[u] = page[u]
               /\ \A d \in Call : page'[w][d].step = "answer" =>
                    \/ page'[w][d].read = View
                    \/ d # c /\ page'[w][d] = page[w][d]
    <2>1. PICK p \in PageShape :
            page' = [page EXCEPT ![w][c] = p] /\ (p.step = "answer" => p.read = View)
      BY <1>b, PageFacts
    <2> QED
      BY <2>1, RequestFacts
  <1>0. /\ UNCHANGED <<deleted, rows, announced, step, edit, found, seen>>
        /\ \A u \in Tab \ {w} : inbox'[u] = inbox[u] /\ page'[u] = page[u] /\ copy'[u] = copy[u]
        /\ crossed \ {w} \subseteq crossed'
    <2>1. CASE Begin(w) \/ Handle(w) \/ Reload(w)
      BY <2>1 DEF Begin, Handle, Reload, handler, TypeOK
    <2>2. CASE Drop(w)
      BY <1>b, <2>2 DEF Drop, handler, TypeOK
    <2> QED
      BY <1>a, <1>b, <2>1, <2>2
  <1>1. View' = View /\ Reactions' = Reactions /\ (Quiet' <=> Quiet)
    BY <1>0, ViewSame DEF Quiet
  <1>2. CASE t # w
    BY <1>0, <1>2, AsideInformed DEF AllInformed
  <1>3. CASE t = w /\ w \notin crossed
    <2>1. Informed(t) /\ t \notin crossed
      BY <1>3 DEF AllInformed
    <2>2. OneTeller'
      BY <1>0, <1>1, <2>1 DEF Informed, OneTeller
    <2>3. ASSUME PageRight(t)', inbox'[t] = inbox[t] \/ inbox'[t] = <<>>, LastWord(t)'
          PROVE  Informed(t)'
      BY <1>0, <1>1, <2>1, <2>2, <2>3 DEF Informed, NothingYet
    <2>4. \A e : Tells(e)' <=> Tells(e)
      BY <1>0, <1>1 DEF Tells
    <2>5. ASSUME NEW c \in Call, PageStep(w, c)
          PROVE  Informed(t)'
      <3>1. PageRight(t)'
        BY <1>1, <1>3, <1>b, <2>1, <2>5 DEF Informed, PageRight
      <3>2. inbox'[t] = inbox[t]
        BY <1>a, <2>5
      <3>3. copy'[t] = copy[t] \/ copy'[t].msg = View
        BY <1>3, <2>1, <2>5 DEF PageStep, Open, LoadOlder, ReadPage, PageEnds, PageFails,
                                Informed, PageRight, Show, TypeOK
      <3>4. LastWord(t)'
        BY <1>1, <2>1, <2>4, <3>2, <3>3 DEF Informed, LastWord, Shows
      <3> QED
        BY <2>3, <3>1, <3>2, <3>4
    <2>6. CASE Begin(w)
      <3>1. inbox' = inbox /\ page' = page /\ copy'[t].at # "shown"
        BY <1>3, <2>6 DEF Begin, Blank, TypeOK
      <3> QED
        BY <1>1, <2>1, <2>3, <2>4, <3>1 DEF Informed, PageRight, LastWord, Shows
    <2>8. CASE Handle(w)
      <3>1. inbox[t] # <<>> /\ inbox'[t] = Tail(inbox[t]) /\ page' = page
        BY <1>3, <2>8 DEF Handle, TypeOK
      <3>2. announced
        BY <2>1, <3>1 DEF Informed, NothingYet
      <3>3. PageRight(t)' /\ NothingYet(t)'
        BY <1>0, <1>1, <2>1, <3>1, <3>2 DEF Informed, PageRight, NothingYet
      <3>4. CASE inbox'[t] # <<>>
        <4>1. inbox'[t][Len(inbox'[t])] = inbox[t][Len(inbox[t])]
          BY <3>1, <3>4, TailLast
        <4>2. LastWord(t)'
          BY <1>1, <2>1, <2>4, <3>1, <3>4, <4>1 DEF Informed, LastWord
        <4> QED
          BY <2>2, <3>3, <4>2 DEF Informed
      <3>5. CASE inbox'[t] = <<>>
        <4> SUFFICES ASSUME Quiet, copy'[t].at = "shown"
                     PROVE  copy'[t].msg = View
          BY <1>1, <2>2, <3>3, <3>5 DEF Informed, LastWord, Shows
        <4>1. PICK e \in Event : e = Head(inbox[t]) /\ Tells(e)
          BY <2>1, <3>1, <3>5, TailLast DEF Informed, LastWord
        <4>2. CASE e.kind = "new"
          <5>1. copy'[t] = HearNew(copy[t]) /\ View = None
            BY <1>3, <2>8, <4>1, <4>2 DEF Handle, TypeOK, Tells
          <5> QED
            BY <5>1 DEF HearNew, Show
        <4>3. CASE e.kind = "deleted"
          <5>1. copy'[t] = HearDeleted(copy[t]) /\ deleted
            BY <1>3, <2>8, <4>1, <4>3 DEF Handle, TypeOK, Tells
          <5>2. View = [deleted |-> TRUE, reactions |-> {}]
            BY <5>1 DEF View, TypeOK
          <5> QED
            BY <5>1, <5>2 DEF HearDeleted, Show, Blank
        <4>4. CASE e.kind = "reaction"
          <5>1. copy'[t] = HearReaction(copy[t], e.reactions) /\ ~deleted
                /\ e.reactions = Reactions
            BY <1>3, <2>8, <4>1, <4>4 DEF Handle, TypeOK, Tells
          <5>2. copy'[t].msg = [copy[t].msg EXCEPT !.reactions = Reactions]
            BY <5>1 DEF HearReaction, Show, Blank
          <5>3. copy[t].msg \in Shown /\ copy[t].msg.deleted = FALSE
            BY <5>1 DEF Truthful, TruthfulTab, TypeOK, Shown
          <5>4. View = [deleted |-> FALSE, reactions |-> Reactions]
            BY <5>1 DEF View, TypeOK
          <5> QED
            BY <5>2, <5>3, <5>4 DEF Shown
        <4> QED
          BY <4>2, <4>3, <4>4 DEF Event
      <3> QED
        BY <3>4, <3>5
    <2>9. CASE Drop(w)
      <3>1. inbox[t] = <<>> /\ inbox'[t] = <<>> /\ copy' = copy
        BY <1>3, <2>9 DEF Drop, TypeOK
      <3>2. PageRight(t)'
        BY <1>1, <1>3, <1>b, <2>1, <2>9 DEF Drop, Informed, PageRight
      <3> QED
        BY <1>1, <2>1, <2>3, <3>1, <3>2 DEF Informed, LastWord, Shows
    <2>10. CASE Reload(w)
      <3>1. inbox'[t] = <<>> /\ page'[t] = [c \in Call |-> NoPage] /\ copy'[t] = Unloaded
        BY <1>3, <2>10 DEF Reload, TypeOK
      <3>2. (\A c \in Call : page'[t][c].step # "answer") /\ copy'[t].at # "shown"
        BY <3>1 DEF NoPage, Unloaded
      <3> QED
        BY <2>3, <3>1, <3>2 DEF PageRight, LastWord, Shows
    <2> QED
      BY <2>5, <2>6, <2>8, <2>9, <2>10
  <1>4. CASE t = w /\ w \in crossed
    <2>1. PICK c \in Call :
            PageEnds(w, c) /\ page[w][c].read = View /\ NothingElse(w, c)
      BY <1>4 DEF PageStep, Open, LoadOlder, ReadPage, PageEnds, PageFails, Begin, Handle,
                  Drop, Reload
    <2>2. PageStep(w, c)
      BY <2>1 DEF PageStep
    <2>3. PageRight(t)'
      <3> SUFFICES ASSUME NEW d \in Call, page'[w][d].step = "answer"
                   PROVE  page'[w][d].read = View
        BY <1>1, <1>4 DEF PageRight
      <3>1. page'[w][d].read = View \/ (d # c /\ page'[w][d] = page[w][d])
        BY <1>b, <2>2
      <3> QED
        BY <2>1, <3>1 DEF NothingElse
    <2>4. /\ inbox'[t] = <<>> /\ announced' /\ Quiet' /\ copy'[t].msg = View
      BY <1>0, <1>1, <1>4, <1>a, <2>1, <2>2
         DEF PageEnds, NothingElse, Settled, Quiet, Telling, Show, TypeOK
    <2> QED
      BY <1>1, <2>3, <2>4 DEF Informed, NothingYet, OneTeller, LastWord, Shows, Quiet
  <1> QED
    BY <1>2, <1>3, <1>4

LEMMA InformedStep ==
  ASSUME TypeOK, Truthful, AllInformed, [Next]_vars
  PROVE  AllInformed'
  <1> SUFFICES ASSUME NEW t \in Tab \ crossed'
               PROVE  Informed(t)'
    BY DEF AllInformed
  <1>1. CASE UNCHANGED vars
    BY <1>1, AsideInformed DEF vars, handler, AllInformed
  <1>2. CASE Announce
    BY <1>2, PushInformed
  <1>3. ASSUME NEW w \in Tab, Handler(w)
        PROVE  Informed(t)'
    BY <1>3, AskInformed, CommitInformed, RefreshInformed, PushInformed, AnswerInformed
       DEF Handler
  <1>4. ASSUME NEW w \in Tab, (\E emoji \in Emoji : Toggle(w, emoji)) \/ Delete(w)
        PROVE  Informed(t)'
    BY <1>4, AskInformed
  <1> QED
    BY <1>1, <1>2, <1>3, <1>4, TabInformed DEF Next, PageStep

\* toggleReaction, deleteMessage and the events message.reaction, message.deleted and
\* message.new: tabs that show the message agree with the database once all is quiet,
\* unless broadcasts crossed or an edit overtook an answer; so stale sessions, repeated
\* deletions, reloads, backfills, pages asked for twice and events that come before,
\* during or after a page do no harm by themselves.
THEOREM TabsAgree == Spec => []EveryoneAgrees
  <1>1. Init => Truthful /\ AllInformed
    <2> SUFFICES ASSUME Init
                 PROVE  Truthful /\ AllInformed
      OBVIOUS
    <2>1. View = None
      BY DEF Init, View, None, Reactions
    <2>2. \A t \in Tab : ~copy[t].msg.deleted /\ copy[t].at # "shown"
                         /\ inbox[t] = <<>>
                         /\ \A c \in Call : page[t][c].step = "none"
                                           /\ ~page[t][c].read.deleted
      BY DEF Init, Unloaded, Blank, NoPage, None
    <2>3. Truthful
      BY <2>2 DEF Init, Truthful, TruthfulRequest, TruthfulTab
    <2>4. AllInformed
      BY <2>1, <2>2 DEF Init, AllInformed, Informed, PageRight, NothingYet, OneTeller,
                        LastWord, Shows, Quiet, Telling
    <2> QED
      BY <2>3, <2>4
  <1>2. TypeOK /\ Truthful /\ AllInformed /\ [Next]_vars => Truthful' /\ AllInformed'
    BY TruthfulStep, InformedStep
  <1>3. TypeOK /\ AllInformed => EveryoneAgrees
    <2> SUFFICES ASSUME AllInformed, NEW t \in Tab, AtRest(t), copy[t].at = "shown",
                        t \notin crossed
                 PROVE  copy[t].msg = View
      BY DEF EveryoneAgrees
    <2>1. Informed(t)
      BY DEF AllInformed
    <2>2. Quiet
      BY DEF AtRest, Quiet, Telling
    <2> QED
      BY <2>1, <2>2 DEF AtRest, Informed, LastWord, Shows
  <1> QED
    BY <1>1, <1>2, <1>3, TypeCorrect, PTL DEF Spec
=============================================================================
