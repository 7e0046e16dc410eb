---------------------------- MODULE MessageEdits ----------------------------
(***************************************************************************)
(* ONE stored message that is reacted to and deleted: delete_message and   *)
(* toggle_reaction of message_service.py, the constraint uq_reaction, and  *)
(* deleteMessage, toggleReaction and the events message.deleted,           *)
(* message.reaction and message.new of frontend/lib/store.ts.              *)
(*                                                                         *)
(* Each tab makes one request at a time.  The message is stored already;   *)
(* its own fan-out may still be due, with the payload of the sender's      *)
(* session.  The history variable crossed marks the tabs that were told    *)
(* what is not, or no longer, so: by an edit between the commit and the    *)
(* broadcast of another, by a page, or by no event at all.  Other messages *)
(* are there only in that a thread may be there, and end, without this one.*)
(***************************************************************************)
EXTENDS Naturals, Sequences, FiniteSets

CONSTANTS
  Tab,        \* tabs with a socket, all of members of the conversation
  User,
  Owner,      \* the user of each tab
  Author,     \* who sent the message
  Emoji,
  Call,       \* requests for the history that a tab has under way at once
  Reader,     \* bound of the model: tabs that ask for the history
  MaxEdits,   \* bound of the model: requests
  MaxDrops    \* bound of the model: dropped connections and reloads

ASSUME OwnerAssumption == Owner \in [Tab -> User] /\ Author \in User
ASSUME BoundAssumption == Reader \subseteq Tab /\ MaxEdits \in Nat /\ MaxDrops \in Nat

VARIABLES
  \* the database
  deleted,    \* is deleted_at set?
  rows,       \* message_reactions, each with the tab whose request stored it
  \* the server
  announced,  \* was message.new sent?
  step, edit, \* the request of each tab: where it is, what it wants
  found,      \* the row toggle_reaction has selected, if any
  seen,       \* the reactions its session has read last
  \* the tabs
  inbox,      \* events on their way
  page,       \* the requests for the history under way
  copy,       \* the message in messages[id]
  edits, drops,
  crossed     \* history: see above

handler == <<step, edit, found, seen>>
vars == <<deleted, rows, announced, handler, inbox, page, copy, edits, drops, crossed>>

Reaction == User \X Emoji
\* A message as a tab shows it, or as the server would send it.
Shown == [deleted : BOOLEAN, reactions : SUBSET Reaction]
\* What else messages[id] may be: undefined, or there without the message.
Absent == {"unloaded", "blank"}
None == [deleted |-> FALSE, reactions |-> {}]
Edit == [kind : {"add", "remove"}, reaction : Reaction] \cup [kind : {"delete", "none"}]
Event == [kind : {"new"}] \cup [kind : {"deleted"}]
         \cup [kind : {"reaction"}, reactions : SUBSET Reaction]

TypeOK ==
  /\ deleted \in BOOLEAN
  /\ rows \subseteq [reaction : Reaction, by : Tab]
  /\ announced \in BOOLEAN
  /\ step \in [Tab -> {"idle", "get", "select", "commit", "refresh", "push", "answer"}]
  /\ edit \in [Tab -> Edit]
  /\ found \in [Tab -> BOOLEAN]
  /\ seen \in [Tab -> SUBSET Reaction]
  /\ inbox \in [Tab -> Seq(Event)]
  /\ page \in [Tab -> [Call -> [step : {"none", "asked", "answer"}, read : Shown]]]
  /\ copy \in [Tab -> [at : Absent \cup {"shown"}, msg : Shown]]
  /\ edits \in 0..MaxEdits /\ drops \in 0..MaxDrops
  /\ crossed \subseteq Tab

Reactions == {r.reaction : r \in rows}

\* serialize_message: a deleted message has no reactions.
View == [deleted |-> deleted, reactions |-> IF deleted THEN {} ELSE Reactions]

NoPage == [step |-> "none", read |-> None]
Unloaded == [at |-> "unloaded", msg |-> None]
Blank == [at |-> "blank", msg |-> None]
Show(msg) == [at |-> "shown", msg |-> msg]

Init ==
  /\ deleted = FALSE /\ rows = {}
  /\ announced = FALSE
  /\ step = [t \in Tab |-> "idle"]
  /\ edit = [t \in Tab |-> [kind |-> "none"]]
  /\ found = [t \in Tab |-> FALSE]
  /\ seen = [t \in Tab |-> {}]
  /\ inbox = [t \in Tab |-> <<>>]
  /\ page = [t \in Tab |-> [c \in Call |-> NoPage]]
  /\ copy \in [Tab -> {Unloaded, Blank}]
  /\ edits = 0 /\ drops = 0 /\ crossed = {}

Goto(t, from, to) ==
  /\ step[t] = from
  /\ step' = [step EXCEPT ![t] = to]

\* The request is answered and its session is gone.
Over(t) ==
  /\ edit' = [edit EXCEPT ![t] = [kind |-> "none"]]
  /\ found' = [found EXCEPT ![t] = FALSE]
  /\ seen' = [seen EXCEPT ![t] = {}]

\* send_to_users: every socket of every member.
Push(e) == inbox' = [t \in Tab |-> Append(inbox[t], e)]

\* Is what was committed told to all, or about to be by nobody else?
Settled == announced /\ \A t \in Tab : step[t] \notin {"refresh", "push"}

-----------------------------------------------------------------------------
\* A tab asks.

Ask(t, e) ==
  /\ edits < MaxEdits
  /\ Goto(t, "idle", "get")
  /\ copy[t].at = "shown" /\ ~copy[t].msg.deleted
  /\ edit' = [edit EXCEPT ![t] = e]
  /\ edits' = edits + 1
  /\ UNCHANGED <<deleted, rows, announced, found, seen, inbox, page, copy, drops, crossed>>

\* toggleReaction: what the tab shows decides which way.
Toggle(t, emoji) ==
  LET mine == <<Owner[t], emoji>>
  IN  Ask(t, [kind |-> IF copy[t].at = "shown" /\ mine \in copy[t].msg.reactions
                       THEN "remove" ELSE "add",
              reaction |-> mine])

\* deleteMessage, of one's own.
Delete(t) == Owner[t] = Author /\ Ask(t, [kind |-> "delete"])

-----------------------------------------------------------------------------
\* toggle_reaction

\* A deleted message is not found: 404.
Get(t) ==
  /\ edit[t].kind # "delete"
  /\ Goto(t, "get", IF deleted THEN "idle" ELSE "select")
  /\ IF deleted THEN Over(t) ELSE UNCHANGED <<edit, found, seen>>
  /\ UNCHANGED <<deleted, rows, announced, inbox, page, copy, edits, drops, crossed>>

Select(t) ==
  /\ Goto(t, "select", "commit")
  /\ found' = [found EXCEPT ![t] = edit[t].reaction \in Reactions]
  /\ UNCHANGED <<deleted, rows, announced, edit, seen, inbox, page, copy, edits, drops,
                 crossed>>

\* An edit is committed while others, or pages, show the message without it.
Crosses(late) ==
  crossed' = IF late \/ ~Settled THEN Tab
             ELSE crossed \cup {u \in Tab : \E c \in Call : page[u][c].step = "answer"}

\* Mutant of Insert: the row is stored whatever the database has.
InsertTwice(t) ==
  /\ rows' = rows \cup {[reaction |-> edit[t].reaction, by |-> t]}
  /\ Goto(t, "commit", "refresh")
  /\ UNCHANGED <<edit, found, seen>>

\* uq_reaction: who comes second gets a 500, and nothing is broadcast.
Insert(t) ==
  IF edit[t].reaction \in Reactions
  THEN Goto(t, "commit", "idle") /\ Over(t) /\ UNCHANGED rows
  ELSE /\ rows' = rows \cup {[reaction |-> edit[t].reaction, by |-> t]}
       /\ Goto(t, "commit", "refresh")
       /\ UNCHANGED <<edit, found, seen>>

\* The message may be deleted since. A row that is gone already is no error.
Commit(t) ==
  /\ edit[t].kind # "delete"
  /\ IF edit[t].kind = "add" /\ ~found[t]
     THEN Insert(t)
     ELSE /\ rows' = IF edit[t].kind = "remove" /\ found[t]
                     THEN {r \in rows : r.reaction # edit[t].reaction} ELSE rows
          /\ Goto(t, "commit", "refresh")
          /\ UNCHANGED <<edit, found, seen>>
  /\ Crosses(deleted)
  /\ UNCHANGED <<deleted, announced, inbox, page, copy, edits, drops>>

\* Mutant of Refresh: the reactions are those read with the message.
RefreshNothing(t) ==
  /\ Goto(t, "refresh", "push")
  /\ UNCHANGED <<deleted, rows, announced, edit, found, seen, inbox, page, copy, edits,
                 drops, crossed>>

Refresh(t) ==
  /\ Goto(t, "refresh", "push")
  /\ seen' = [seen EXCEPT ![t] = Reactions]
  /\ UNCHANGED <<deleted, rows, announced, edit, found, inbox, page, copy, edits, drops,
                 crossed>>

PushReactions(t) ==
  /\ edit[t].kind # "delete"
  /\ Goto(t, "push", "idle")
  /\ Push([kind |-> "reaction", reactions |-> seen[t]])
  /\ Over(t)
  /\ UNCHANGED <<deleted, rows, announced, page, copy, edits, drops, crossed>>

-----------------------------------------------------------------------------
\* delete_message

\* A message that is deleted already is only broadcast again.
GetForDelete(t) ==
  /\ edit[t].kind = "delete"
  /\ Goto(t, "get", IF deleted THEN "push" ELSE "commit")
  /\ UNCHANGED <<deleted, rows, announced, edit, found, seen, inbox, page, copy, edits,
                 drops, crossed>>

CommitDelete(t) ==
  /\ edit[t].kind = "delete"
  /\ Goto(t, "commit", "push")
  /\ deleted' = TRUE
  /\ Crosses(FALSE)
  /\ UNCHANGED <<rows, announced, edit, found, seen, inbox, page, copy, edits, drops>>

\* Mutant of PushDeleted: only who has asked is told.
PushDeletedToOne(t) ==
  /\ edit[t].kind = "delete"
  /\ Goto(t, "push", "answer")
  /\ inbox' = [inbox EXCEPT ![t] = Append(@, [kind |-> "deleted"])]
  /\ UNCHANGED <<deleted, rows, announced, edit, found, seen, page, copy, edits, drops,
                 crossed>>

PushDeleted(t) ==
  /\ edit[t].kind = "delete"
  /\ Goto(t, "push", "answer")
  /\ Push([kind |-> "deleted"])
  /\ UNCHANGED <<deleted, rows, announced, edit, found, seen, page, copy, edits, drops,
                 crossed>>

\* The answer to deleteMessage does what the event does, to a thread that is there.
Answer(t) ==
  /\ Goto(t, "answer", "idle")
  /\ copy' = [copy EXCEPT ![t] = IF @.at = "shown"
                                 THEN Show([deleted |-> TRUE, reactions |-> {}])
                                 ELSE Blank]
  /\ Over(t)
  /\ UNCHANGED <<deleted, rows, announced, inbox, page, edits, drops, crossed>>

\* fan_out_new_message, of the message as it was stored.
Announce ==
  /\ ~announced /\ announced' = TRUE
  /\ Push([kind |-> "new"])
  /\ UNCHANGED <<deleted, rows, handler, page, copy, edits, drops, crossed>>

-----------------------------------------------------------------------------
\* The tabs.

Request(t, c) ==
  /\ t \in Reader /\ page[t][c].step = "none"
  /\ page' = [page EXCEPT ![t][c].step = "asked"]

\* openConversation: what is undefined is fetched, though it may be under way.
Open(t, c) ==
  /\ copy[t].at = "unloaded"
  /\ Request(t, c)
  /\ UNCHANGED <<deleted, rows, announced, handler, inbox, copy, edits, drops, crossed>>

\* loadOlder, in a thread that begins above the message.
LoadOlder(t, c) ==
  /\ copy[t].at = "blank"
  /\ Request(t, c)
  /\ UNCHANGED <<deleted, rows, announced, handler, inbox, copy, edits, drops, crossed>>

\* get_history
ReadPage(t, c) ==
  /\ page[t][c].step = "asked"
  /\ page' = [page EXCEPT ![t][c] = [step |-> "answer", read |-> View]]
  /\ UNCHANGED <<deleted, rows, announced, handler, inbox, copy, edits, drops, crossed>>

\* Whatever comes for the tab yet says what the database says.
NothingElse(t, c) ==
  /\ Settled /\ inbox[t] = <<>>
  /\ \A d \in Call \ {c} : page[t][d].step = "answer" => page[t][d].read = View

\* A first page takes the place of whatever the thread is by then, an older page comes
\* before it, a backfill is merged into it: the tab shows what was read. That mends what
\* events have left out, if it is so still and nothing else is on its way.
PageEnds(t, c) ==
  /\ page[t][c].step = "answer"
  /\ page' = [page EXCEPT ![t][c] = NoPage]
  /\ copy' = [copy EXCEPT ![t] = Show(page[t][c].read)]
  /\ crossed' = IF page[t][c].read = View /\ NothingElse(t, c) THEN crossed \ {t} ELSE crossed
  /\ UNCHANGED <<deleted, rows, announced, handler, inbox, edits, drops>>

\* The request or its answer is lost.
PageFails(t, c) ==
  /\ page[t][c].step # "none"
  /\ page' = [page EXCEPT ![t][c] = NoPage]
  /\ UNCHANGED <<deleted, rows, announced, handler, inbox, copy, edits, drops, crossed>>

\* A receipt, an edit of another message, one sent from this tab, or a backfill of
\* others begins the thread.
Begin(t) ==
  /\ copy[t].at = "unloaded"
  /\ copy' = [copy EXCEPT ![t] = Blank]
  /\ UNCHANGED <<deleted, rows, announced, handler, inbox, page, edits, drops, crossed>>

\* mergeMessage, if the thread is there: the payload replaces what was known.
HearNew(c) == IF c.at = "unloaded" THEN c ELSE Show(None)

\* An event for a thread that is not loaded makes it an empty one.
HearDeleted(c) ==
  IF c.at = "shown" THEN Show([deleted |-> TRUE, reactions |-> {}]) ELSE Blank

HearReaction(c, reactions) ==
  IF c.at = "shown" THEN Show([c.msg EXCEPT !.reactions = reactions]) ELSE Blank

Handle(t) ==
  /\ inbox[t] # <<>>
  /\ inbox' = [inbox EXCEPT ![t] = Tail(@)]
  /\ LET e == Head(inbox[t])
     IN  copy' = [copy EXCEPT ![t] = CASE e.kind = "new"      -> HearNew(@)
                                       [] e.kind = "deleted"  -> HearDeleted(@)
                                       [] e.kind = "reaction" -> HearReaction(@, e.reactions)]
  /\ UNCHANGED <<deleted, rows, announced, handler, page, edits, drops, crossed>>

\* The events are lost. The backfill of an open conversation brings the message too
\* when the thread is empty or ends below it (or with a bubble that was stored late).
Drop(t) ==
  /\ drops < MaxDrops /\ drops' = drops + 1
  /\ inbox' = [inbox EXCEPT ![t] = <<>>]
  /\ crossed' = IF inbox[t] # <<>> THEN crossed \cup {t} ELSE crossed
  /\ UNCHANGED page \/ \E c \in Call : Request(t, c)
  /\ UNCHANGED <<deleted, rows, announced, handler, copy, edits>>

\* The tab is reloaded: it forgets all, its request goes on.
Reload(t) ==
  /\ drops < MaxDrops /\ drops' = drops + 1
  /\ step[t] = "idle"   \* a bound of the model
  /\ inbox' = [inbox EXCEPT ![t] = <<>>]
  /\ page' = [page EXCEPT ![t] = [c \in Call |-> NoPage]]
  /\ copy' = [copy EXCEPT ![t] = Unloaded]
  /\ UNCHANGED <<deleted, rows, announced, handler, edits, crossed>>

-----------------------------------------------------------------------------
Handler(t) ==
  \/ Get(t) \/ Select(t) \/ Commit(t) \/ Refresh(t) \/ PushReactions(t)
  \/ GetForDelete(t) \/ CommitDelete(t) \/ PushDeleted(t) \/ Answer(t)

Next ==
  \/ Announce
  \/ \E t \in Tab :
       \/ \E emoji \in Emoji : Toggle(t, emoji)
       \/ Delete(t) \/ Handler(t)
       \/ \E c \in Call :
            Open(t, c) \/ LoadOlder(t, c) \/ ReadPage(t, c) \/ PageEnds(t, c) \/ PageFails(t, c)
       \/ Begin(t) \/ Handle(t) \/ Drop(t) \/ Reload(t)

Spec == Init /\ [][Next]_vars

\* Handlers run to their end and sockets deliver. Whether anybody opens the
\* conversation is up to them, and whether a page arrives up to the network.
FairSpec ==
  /\ Spec
  /\ WF_vars(Announce)
  /\ \A t \in Tab : WF_vars(Handler(t)) /\ WF_vars(Handle(t))

-----------------------------------------------------------------------------
(***************************************************************************)
(* Properties                                                              *)
(***************************************************************************)

\* "one of each emoji per user per message", though two tabs of the user may have
\* looked for the row at the same time (toggle_reaction).
OneOfEach == \A r, s \in rows : r.reaction = s.reaction => r = s

AtRest(t) ==
  /\ announced /\ inbox[t] = <<>> /\ \A c \in Call : page[t][c].step = "none"
  /\ \A u \in Tab : step[u] = "idle"

\* All tabs that show the message show it as a page of the history would, whoever
\* edited it and in whatever order their requests were loaded and selected: unless
\* the broadcasts crossed, or an answer was read before an edit and came after it, and
\* until a page puts that right.
EveryoneAgrees ==
  \A t \in Tab : AtRest(t) /\ copy[t].at = "shown" /\ t \notin crossed => copy[t].msg = View

\* A deletion reaches every tab that shows the message (message.deleted).
DeletionReachesAll ==
  \A t \in Tab : deleted ~> (copy[t].at = "shown" => copy[t].msg.deleted \/ t \in crossed)
=============================================================================
