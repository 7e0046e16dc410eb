# Formal model of the secure messaging app

TLA+ modules, TLC configurations and TLAPS proofs about the messaging core of
this repository: a FastAPI backend (`src/backend/app`), its WebSocket gateway,
its optional Redis fan-out, and the client store of the Next.js frontend
(`src/frontend/lib`). Paths below are relative to the repository.

Run inside this directory:

    tlc -workers 2 -config MessageStore_race.cfg MCMessageStore
    tlapm MessageStoreProofs.tla

`PROJECT.json` lists the components, the runs with their properties, a mutant
for every property (a plausible bug that breaks it), the source lines of every
definition, the findings, the hazards and the theorems.

## 1. The system

### Parts, state, operations

| Part | State | Operations |
|---|---|---|
| Message sending (`services/message_service.py`) | `conversations.last_seq`, rows of `messages` | `send_message` (idempotent by sender and `client_msg_id`), `allocate_seq`, `create_system_message`, `fan_out_new_message`, `get_history` |
| Marks (same file) | `last_read_seq`, `last_delivered_seq` of each member | `mark_read`, `mark_delivered`; a send moves its sender's own marks |
| Reactions and deletion (same file) | `deleted_at`, rows of `message_reactions` | `delete_message`, `toggle_reaction` |
| Groups (`services/conversation_service.py`) | rows of `conversation_members` with a role | `create_group`, `add_members`, `remove_member`, `update_conversation` |
| Direct chats and lists (same file) | `conversations` with a unique `dm_key` | `get_or_create_direct`, `list_conversations`, `get_detail` |
| Disappearing messages (`message_service.py`, `main.py`) | `disappear_seconds`, `expires_at` | the timer, the filter of the reads, `purge_expired_messages`, `run_expiry_sweeper` |
| Accounts (`services/auth_service.py`, `core/security.py`) | `otp_requests`, `refresh_tokens`, `users` | `request_otp`, `verify_otp`, `refresh_session`, `logout` |
| Link previews (`services/link_service.py`) | `_cache` | `get_preview`, `_fetch`, `validate_url` |
| Gateway (`ws/gateway.py`) | one coroutine per socket | handshake, receive loop, dispatch, clean-up |
| Connection manager (`ws/manager.py`) | sockets per user | `connect`, `disconnect`, `send_to_users` with reaping, `is_online` |
| Presence (`services/presence_service.py`) | nothing of its own | `on_connect`, `on_disconnect` |
| Redis manager (`ws/redis_manager.py`) | local sockets, a mirror of who is online where; in Redis a registry of nodes and a set of users per node | `start`, `stop`, `connect`, `disconnect`, `send_to_users`, listener, heartbeat, reconciliation |
| Client thread (`lib/store.ts`, `ChatPane.tsx`) | `messages[id]`, `hasMore`, `activeId` | `openConversation`, `loadOlder`, `sendMessage`, `toggleReaction`, `deleteMessage`, the handlers of events, the backfill after a reconnect |
| Client list (`lib/store.ts`) | `conversations`, each with an unread count | `boot`, `loadConversations`, `upsertConversation`, `markRead`, the handlers of events |
| Client socket (`lib/ws.ts`) | socket, queue, backoff | `connect`, `send`, `disconnect` |
| Client REST wrapper (`lib/api.ts`) | tokens in `localStorage`, `refreshInFlight` | `request` with its retry, `refreshTokens` |
| Contacts, search, attachments, rate limiting | see section 8 | not worth a model |

### How they interact

A message comes over the socket (`message.send`) or over REST. Both call
`send_message`, which stores it in one transaction and then hands an event for
every member to the connection manager. The sender gets `message.new` like
everybody else and, over the socket, `message.ack` after it. The clients answer
with `message.delivered` and `message.read`, which move marks and send receipts.
With several nodes the Redis manager publishes to the channel of each user who
has no socket on the sending node, and each node keeps a mirror of presence.
The database is the truth: a client that was away asks for a backfill. Every
REST request carries an access token that lives for minutes; a 401 makes the
client exchange its refresh token for a new pair, once for all requests of the
tab that are waiting, and send them again.

### What is hard here

* Each request has a session of its own, SELECTs lock nothing and loaded objects
  are not refreshed: what a handler checks may be stale when it commits.
* Every `await` lets other coroutines run. The connection manager, presence,
  the link cache and the Redis manager keep shared state across awaits.
* The same message is sent twice on purpose (socket queue and REST), answered in
  any order, lost with its connection, or fanned out in another order than it
  was numbered.
* The client learns the same facts from events, from answers and from snapshots
  that were read in several SELECTs and arrive whenever they do.
* Two tabs share one session without knowing of each other.
* Nodes die without a farewell, and pub/sub forgets.
* Rows disappear under a sweeper that is late by design and runs on every node.

### What makes each part correct

* Store: numbers without holes or doubles, one row per client id, no
  acknowledgement of what is not stored, read marks that never pass the log, marks
  that only advance, and reading that implies delivery, for everybody whose own
  requests do not overlap.
* Groups: one membership per person, an admin as long as there are members, no
  text of a non-member, pushes to the members, a clean slate for who joins.
* Direct chats and the list: one chat per pair, a row for each conversation one
  is in, with the number of messages that are really unread.
* Reactions and deletion: one row per user and emoji, tabs that agree with the
  database, deletions that reach every tab.
* Presence: an open socket is registered, a closed one is not for ever, the last
  one to close announces it.
* Retention: nothing but what lapsed is deleted, everything lapsed goes in the
  end, no row quotes one that is gone.
* Accounts: codes and refresh tokens are used once, what the browser keeps is
  good, a session ends when its user ends it and not before, and then wholly.
* Link previews: a bounded cache, no fetch of what is fresh, no unchecked hop.
* Redis: subscribed exactly while a socket is held, every device reached,
  mirrors that agree with the sockets in the end.
* Client thread: no message shown twice, none missing, no bubble that waits for
  ever.

## 2. Modules

| Module | Models | Notes |
|---|---|---|
| `MessageLog` | what the store promises: an append-only log, a client id used once, acknowledgements of logged messages | the abstract specification |
| `MessageStore` | `send_message`, `allocate_seq`, `mark_read`, `mark_delivered` with their transactions | implements `MessageLog` under `Logged` |
| `GroupMembership` | `add_members`, `remove_member`, the system messages they write, sends in between | |
| `ConversationList` | `get_or_create_direct`, `create_group`, the list and the detail, and one row of one viewer's list | composes server and client |
| `MessageEdits` | `delete_message`, `toggle_reaction`, their events, pages and answers in the tabs | composes server and client |
| `Retention` | the timer, `expires_at`, sweepers, retries and quotes | |
| `Presence` | the gateway's coroutine, `InMemoryConnectionManager`, presence broadcasts, the client's `onlineUsers` | composes four source files around one state |
| `RedisFanout` | `RedisConnectionManager` on several nodes with Redis, crashes and restarts | |
| `ClientThread` | one thread of one client, its socket, and the server as it sees it | the server's log is that of `MessageLog`, one step per send |
| `AuthSessions` | `auth_service.py` against `api.ts`: codes, pairs of tokens, and the tabs of one browser that share them | composes server and client |
| `LinkPreviews` | `get_preview` and `_fetch` for requests that share the cache | |
| `...Proofs` | the theorems about the module of that name; `ExpiryProofs` those about `Retention` and `LinkPreviews`, which both let go of what is too old; `SocketProofs` those about `Presence` and `ClientThread`, the two ends of a client's socket | section 6 |
| `MC...` | constants of the instances | |

### State and actions against the code

**MessageStore.** `lastSeq`, `messages`, `lastRead` and `lastDelivered` are
committed rows. `rowLock` is the session that has updated the conversation row
and not ended its transaction. `pc` and `work` are the handler: what it holds in
memory, loaded once. `SendLoad` is `load_send_context`; `SendFound` and `SendNew`
are the idempotency SELECT; `AllocateSeq` is the UPDATE that takes the row;
`SendCommit` inserts the row, writes the sender's marks and commits;
`SendConflict` and `SendWinner` are the IntegrityError branch; `Reply` returns
the message and records it in `acked`. `Named` are the numbers a mark request may
name, of a message or of none that is there yet; only `mark_read` clamps them.
`overlapped` is a history variable: the people two of whose own requests were under
way at once, which is when a handler may write what it compared with a mark that is
no longer there. `MarkReadLoad`, `MarkReadTarget`,
`MarkReadSkip`, `MarkReadCommit` and their `Delivered` counterparts split the two
mark handlers at the same places. `Abort` is a failure or a crash anywhere: the
transaction rolls back.

**GroupMembership.** `rows` are the memberships with a generation that tells a
row from that of an earlier membership. `work.seen` is the identity map of the
session: a row loaded before keeps its values, which is what lets two people
leave a group without an admin. `event` is what the last step shows outside;
`alone` remembers whether another request has overlapped.

**ConversationList.** `chats`, `phase`, `lastSeq` and `mark` are rows; `start` is
a request of `POST /conversations`, from the SELECT by `dm_key` (`StartLoad`)
over the flush, which waits for a transaction with the same key and raises if that
one commits, to the broadcast and the answer. `snap` is what each reader has read so
far: the list in two SELECTs (`ReadPage`, `ReadPreview`), the detail in three. `row`
is the conversation in the client's store. `inbox`, `frame` and `rest` are what is
under way on the socket and over REST: `markRead` names the last message of the
thread, which may be older than that of the row, queues its frame while the socket is
down, and then also posts the mark. `over` and `told` say what events have told or
lost; `stale` is set when a snapshot and an event cross and cleared by the next
snapshot that is in step with what was told (`InStep`); `unsent` is set when a badge
is cleared of messages that the frame does not cover.

**MessageEdits.** `deleted` and `rows` are the database; `step`, `edit`, `found`
and `seen` one request of each tab between its awaits; `inbox`, `page` and `copy`
what a tab is told, has asked for, and shows. `Call` are the requests for the history
a tab may have under way at once: a first page and another one, a page of older
messages, the backfill of a reconnect; each may bring the message as it was when the
page was read. `copy` is "blank" for a thread that is there without the message.
`Crosses` marks the tabs that were told what is no longer so, by a broadcast or by a
page.

**Presence.** One process per socket, one action per stretch between awaits.
`Reap` is what a failed send does in the middle of somebody else's broadcast. What
every module has is named `PresenceInit`, `PresenceNext`, `PresenceSpec` and
`PresenceTypeOK` here, and the client's leaving `ClientGoes`, so that `SocketProofs`
can extend the module beside `ClientThread`.

**Retention.** `now` is the clock. `SweepSelect` and `SweepDelete` are the two
statements of `purge_expired_messages`, with rows that quote a deleted one set to
quote nothing (`ON DELETE SET NULL`).

**RedisFanout.** `lock` is the queue of `_pubsub_lock`; `subs`, `registry`,
`users` and `expiring` are Redis; `online` is each node's mirror and `deltas` the
messages on the presence channel. `ReconcileRead` and `ReconcileWrite` are one
reconciliation, which reads, waits and then replaces. `Crash`, `Stop` and
`Start` end and begin a process under the same node id. `ConnectFails` and
`DisconnectFails` are commands of Redis that raise: a SUBSCRIBE or SADD ends the
handshake with the socket in `_local` (`refused`, `astray`), an UNSUBSCRIBE or SREM is
logged and never repeated, and a failed UNSUBSCRIBE skips the SREM. A background task
that fails goes on at its next turn, which is a step not taken.

**ClientThread.** `thread`, `loaded`, `hasMore`, `active` are the store;
`inbox`, `outbox`, `queue` and `link` the socket; `posts`, `answers` and `pages`
are REST requests under way, each with what it will bring; `OpensAtOnce` first pages
may be under way, since `openConversation` does not look whether one is. A frame that
is not stored is either known already (`FrameKnown`) or answered with an `error` event
that the client ties to no bubble (`FrameRefused`: the rate limit, an `AppError`, an
exception). `missed`, `doubled`
and `lost` are history variables: every way in which the design leaves a message
out of a thread or puts it there twice is an operator under "Gaps", and the
properties say that there is no other. `SortBySeq` gives each message its rank, which
is what a stable sort does, and `Merged` is the `reduce` of the backfill; both are
functions that the provers can reason about.

**AuthSessions.** A pair of tokens is a number; `row` says what `refresh_tokens`
knows of it and `age` whether its access token, or its refresh token too, has
expired. `stored` is `localStorage`, which all tabs share, and `inFlight[t]` the
`refreshInFlight` of a tab: none, the request whose exchange it awaits, or
"wedged", a promise that is resolved and never reset. A request has a `kind` (its
caller: any, `boot`, `logout`, `login`), the tokens it was built with (`bearer`,
`body`), and perhaps an `exchange` made on its behalf, which the server checks
(`RefreshCheck`) and commits (`RefreshCommit`) in separate steps. `Fail`,
`FailExchange` and `Reload` are lost requests and answers, 500s and reloads.
`contested`, `lost`, `ended`, `crossed` and `outlived` are history variables: the
exceptions that the properties name.

**LinkPreviews.** `cache` maps a link to the page its preview was made from and
its age. A request is `idle`, `fetching` (at `current`, after `gets` requests) or
`fetched` and about to be stored (`stage`); `TimePasses` is the clock. What every
module has is named `LinksInit`, `LinksNext`, `LinksSpec` and `LinksTypeOK` here, so
that `ExpiryProofs` can extend the module beside `Retention`.

## 3. Runs

Ten runs pass. Two end in a counterexample on purpose: each states what a document and
a comment of the repository say, and shows that the code does something else
(section 7).

| Run | Instance | Shows |
|---|---|---|
| `MessageStore_race` | two people, one of them with two sockets, one client id, sends up to seq 2 | `GapFree`, `OncePerKey`, `AckedIsStored`, `ReadWithinLog` under every interleaving and failure; `MarksAdvance`, `ReadIsDelivered`, `OwnMessagesRead` for people whose own requests do not overlap; the handlers implement `MessageLog` (`ImplementsLog`); `RequestsFinish` under fairness |
| `GroupMembership_race` | two people, two requests at once | `MembersOnlyPost` always; `KeepsAdmin`, `PushedToMembers`, `CleanSlate` for a request that no other overlaps |
| `GroupMembership_ownerless` | three people | two leave at once and no admin is left |
| `ConversationList_viewer` | a direct chat two people start at once, or a group; two messages, one drop | `OneChat`; `RowAgrees` once all is quiet, but for the crossings it names |
| `ConversationList_together` | the same | the second of two simultaneous starts fails (`NoStartFails`) |
| `MessageEdits_tabs` | two tabs of the author, one emoji, two edits, two requests for the history at once, one drop or reload | `OneOfEach`, `EveryoneAgrees`, and `DeletionReachesAll` under fairness |
| `Retention_sweep` | one sender, two sweepers, timer 0 or 1, clock to 2, three messages | `QuotesExist`, `PurgesLapsedOnly`, and `LapsedGoAway` under fairness |
| `Presence_tabs` | two sockets of one user, one of another, handshakes may fail | `RegisteredWhileOpen`, `OfflineOwed`, and `GhostsGo` under fairness |
| `RedisFanout_sticky` | two nodes, two sockets of one user on one node, one fault | `SubscribedWhileHeld`, `EveryDevice`, `SetsFollow`, and `MirrorsAgree` under fairness |
| `ClientThread_thread` | one message stored before, one of the peer, one of the client, pages of two messages, two first pages at once, a drop, failing requests and refused frames, navigation | `ShownOnce`, `LosesNothing`, `NothingStuck` |
| `AuthSessions_tabs` | two tabs, two requests at a time, three pairs, two codes, one fault | `UsedOnce`, `StoredIsLive`, `NothingLeftBehind`, `WaitersAreOwed`, `KeepsSession` |
| `LinkPreviews_viewers` | two requests, three links that are public and one that is not, one redirect, a cache of two | `CacheBounded`, `HopsChecked`, `FetchesOnce` |

`TypeOK` is checked in `ConversationList`; elsewhere it is proved only.

### Bounds, and why they are enough

* *Messages.* `MaxSeq` is 2 or 3. Collisions, reordering, retries and marks that
  overtake each other need two messages; a quote of a purged message and a
  history page with something before and after it need three. `MessageStore`
  counts the sends under way against the bound. `Named` is the number 1, which is past
  the log until a message is stored, and behind the last one when two are; that a
  request may also name none (0) is left to the proofs, which are for any numbers.
* *Handlers.* Two or three. Every race found is between two; the third in
  `MessageStore_race` lets a peer observe two handlers of one person.
* *Sockets and nodes.* Two sockets of a user are what it takes for one to close
  while another opens, and two nodes for one to be wrong about the other.
* *Memberships.* `MaxJoins` 2: leaving and coming back once.
* *Starts.* One by each of the two people; the viewer's comes after `boot`. The
  client's own reads and starts do not overlap (`Quiet`). One mark at a time is under
  way on the socket and one over REST; events and the requests of others overlap them
  freely.
* *Edits.* Two requests from two tabs: an addition and a removal or a deletion in
  either order, or two of the same that race. Both tabs are the author's, who may do
  all that another member may. `Call` has two requests for the history, which is what
  it takes for one to overtake another; one tab makes them (`Reader`), as the tabs
  have nothing but broadcasts in common. The theorems are for any number of each.
* *Pairs and codes.* With three pairs a session can be exchanged and exchanged
  again, or ended and begun anew; `Send` waits when the pairs might run out. Two
  requests are enough to share a refresh, and two tabs to get in each other's way.
* *Faults, drops.* One fault in `RedisFanout_sticky` (a kill, a shutdown, a node
  that registers late, or a command of Redis that fails; a restart is not counted)
  and in `AuthSessions_tabs`, one dropped connection in each of the client's models.
* *Pages.* The page and backfill limits of 50 and 100 are 2 and 1, so that pages end
  in the middle of a thread. `OlderAtOnce` is one `loadOlder` at a time. Two first
  pages may be under way (`OpensAtOnce`) as long as the connection has not dropped; a
  drop counts as one of the two, as both together are too many states (`Opens`). The
  proofs are for any number.
* *Clock and cache.* `MaxTime` 2 with a window of 1: a message can lapse while
  another, sent later, is still valid. An age stops at `Ttl` 2 since what is older
  is no different. Two entries and three links make an eviction hit either.

Symmetry is used over requests, tabs or links, and in no run with a property that
needs fairness.

### Deadlock

`MessageStore`, `Retention` and `LinkPreviews` never stop, and deadlock is
checked. The other instances really come to rest (sockets are used once, people
stop, edits and pairs run out, a group may be empty), and their configurations
say so.

## 4. Fairness

* `MessageStore!FairSpec`: weak fairness of every handler's next step, since the
  event loop runs every coroutine that is ready; strong fairness of
  `AllocateSeq`, since the database queues for a row lock, or gives up after its
  busy timeout, which is `Abort`. No request need ever begin.
* `Presence!PresenceFairSpec`: weak fairness of each gateway coroutine. The server
  notices a connection that is gone. Clients are under no obligation.
* `Retention!FairSpec`: `run_expiry_sweeper` catches every exception and sleeps,
  so each loop selects again and again, and a deletion that is tried for ever
  succeeds once (strong fairness of `SweepDelete`).
* `RedisFanout!FairSpec`: the coroutines and background tasks of a running node
  go on, and the stamp of a dead node lapses. A command of Redis either succeeds or
  fails, and after a failure the coroutine has moved on past it: fairness never tries
  it again. Nobody need connect, crash or restart.
* `MessageEdits!FairSpec`: handlers run to their end, and a socket delivers what it
  was given. Nobody need open the conversation, react or delete, and no request for
  the history need be answered.

## 5. The abstract specification

`MessageLog` is what a client may rely on: each message takes the next position,
a sender's client id is used once, and an acknowledgement names a position whose
message is that of the sender and the id. `MessageStore` implements it with
`log <- Logged`, the stored rows in the order of their numbers. Only
`SendCommit` appends and only `Reply` acknowledges; all the rest stutters,
`Abort` included.

## 6. Proofs

Proved by TLAPS for all values of the constants, from the named assumptions of
the modules alone (every session or socket has an owner, sentinels are no proper
values, bounds are natural numbers). A bound of the model is an arbitrary number
in every proof. In each module `TypeCorrect` is `Spec => []TypeOK`
(`LinksTypeCorrect` for `LinkPreviews`, `PresenceTypeCorrect` and `ThreadTypeCorrect`
for the two modules of `SocketProofs`).

**MessageStore.**

* `Invariance`: `Spec => []IInv`. `GapFree` is not inductive: that a commit adds
  exactly the next number holds only because the handler between `AllocateSeq`
  and the commit has the row (`LockHeld`) and still holds `lastSeq + 1`
  (`WorkInLog`). `AckedIsStored` needs that a handler about to reply holds a
  stored row, and `ReadWithinLog` that a read mark under way points into the log.
  Each conjunct has a lemma (`LockStep`, `WorkStep`, `GapFreeStep`, `OncePerKeyStep`,
  `AckedStep`, `ReadMarksStep`), one case per action that can disturb it.
  `SeqIsGapFree`, `SendIsIdempotent`, `AcksAreStored`, `ReadMarksStayWithinLog`
  follow.
* `SerialInvariance`: two requests of one person that may both write are noted
  (`OverlapsNoted`), and for everyone else what a handler loaded is still current
  (`LoadedIsCurrent`), whence `ReadWasDelivered`, `SendersHaveRead`,
  `MarksOnlyAdvance`. Any number of sessions may serve a person; the exception is
  needed: section 7 tells how two tabs of one person refute the rest.
* `StoreImplementsLog`: the refinement, step by step. A commit stores the next
  number (`Invariance`), so `Logged` grows by one message at its end
  (`LoggedNext`, `CommitPosts`); every other step leaves it as it is.

**GroupMembership.**

* `MembersHaveOneRow`: the unique constraint of `AddCommit`, and that a promotion
  changes the role only.
* `OnlyMembersPost`: a send between its check and its commit holds a row of its
  author (`SenderLoaded`), and the commit needs that very row to be there.
* `AdminIsKept`, `MembersArePushedTo`, `JoinersHaveRead` are about a request that
  nobody overlaps. Their invariant `AInv` says that what such a request holds is
  what the database has (`AloneIsCurrent`): nothing but its own steps has changed
  a row since it began, and each of them keeps its identity map current.

**Presence.** `PresenceInv` says where an unregistered socket may be: after its own
`disconnect`, or, if its client is gone, after a failed send (`RegisteredOrReaped`).
It needs that a failed send was to a client that is gone for good
(`FailedAreGone`), and that sockets are registered under their owner
(`OwnersOnly`). `OpenSocketsAreRegistered` follows, and `LastSocketOwesOffline`
is inductive with it.

**Retention.** What a sweeper holds has lapsed, and a row of the same number
lapses at the same time (`HeldLapsed`), since a number is not given twice
(`Numbered`). `OnlyLapsedArePurged` follows for any number of sweepers;
`NoQuoteDangles` is inductive as it stands.

**ConversationList.** The constants are assumed to be names apart: the requests that
start the conversation are not called like the readers "list" and "detail", and the
sentinel `NoRow` is no row.

* `ThereIsOneChat`: one start at a time is between its INSERT and its commit, and only
  while there is no chat (`Founding`); that is what the unique `dm_key` is for.
* `RowWillAgree`: what is at rest says nothing of how it came to be, so the invariant
  (`Agreement`) is about what is still under way. Every message was told, waits for
  its fan-out or is on its way, and only one of these (`Numbers`), and nothing is on
  its way over a connection that is not there (`Connected`). No mark is past the log,
  neither in the database nor in a frame, in a snapshot between two SELECTs or in the
  row (`MarksKnown`, `SnapshotsKnown`). That the viewer has joined or has left is
  told, or is to be told by somebody (`Membership`). A row that is not stale has
  every message it was told of and no other, and counts those behind its mark
  (`Shown`). Its mark is that of the server, but for a frame under way and for own
  messages from another device: the server counts these as read when they are
  stored, the row when it hears of them (`Marked`). The last part is where the proof
  is long: as long as an own message is on its way the server's mark is that of an
  own message, for no frame can have passed it. At rest every "or" has gone, and the
  row is what `serialize_conversation` would make of the database.

**MessageEdits.**

* `ReactionsAreUnique`: rows are added by `Insert` alone, and only if none has the
  reaction.
* `TabsAgree`: the invariant is about a tab for which no broadcasts crossed. Once
  nobody is about to tell anything, the last event on its way to the tab says all
  there is to know, or the tab shows it (`LastWord`). That needs that every page it
  waits for is right (`PageRight`), that one request at most is about to tell of
  reactions and knows them (`OneTeller`), and that nobody says the message is deleted
  unless it is (`Truthful`). Any number of requests for the history may be under way.

**RedisFanout.** Proved for any nodes, users and sockets, for every fault and with
any number of restarts.

* `SubscriptionsFollowSockets`: the commands that wait for `_pubsub_lock` are a
  queue in the order in which the first socket of a user came and the last one
  went (`Queued`), so that the last one in the queue agrees with the local sockets
  (`LastDecides`) and Redis agrees with them when the queue has none of that user
  (`Subscribed`).
* `EventsReachEveryDevice`: a socket that is open is registered at the node it is
  connected to, which runs (`Registered`, `Running`).
* `SetsFollowSockets`: a user in the set of a node has a socket there, or one that
  parts; a user with a socket is in the set, or one joins (`SetsKept`); all but those
  whose set has gone wrong in one of the five ways that `astray` records, of which one
  is a command that failed or was skipped.

**AuthSessions.**

* `NobodyWaitsInVain`: the promise of a tab is that of an exchange which is under
  way in this tab, and every request that waits in a tab has one (`Sharing`). That
  the pairs suffice, which the types need, is `Budget`: `Send` counts the requests
  that may still be issued one.
* `TokensAreUsedOnce`: nothing was issued for a pair that is valid or that an
  exchange has checked, unless another had checked it too (`Pairs`), and the same
  for codes (`Codes`); so no two pairs have the same origin (`Once`).
* `StoredPairIsLive`: a pair on its way to the browser is valid, unless its session
  was ended, and neither stored nor presented by anybody yet (`OnTheWay`), so
  nobody but its own exchange can have revoked the pair that is stored.
* `SignOutIsComplete` and `SessionsAreKept` have the invariant `QInv`. As long as
  nothing fails and nothing crosses, one request at a time has a hand in the session
  (`OneHand`, which `NoteCrossing` watches) and every pair that is still good is the
  stored one or on its way to a request (`Known`). A refresh presents what is stored
  and has made it useless when its answer is there (`Exchanging`); whoever signs in
  has nothing stored (`SigningIn`); a sign-out has revoked what it names (`SigningOut`)
  and, like `boot`, fails only when a refresh has cleared the tokens (`GivenUp`),
  which rests on a renewed request carrying a fresh token (`Fresh`). Such a quiet
  state is reached only from a quiet one (`CalmStep`), so each lemma `Quiet...` takes
  one step of it.

**ClientThread.** Proved for any number of messages, handlers, requests and drops,
with the one assumption on the page sizes that they are not zero (`PageSize` and
`BackfillSize`; the code asks for 50 and 100).

* `EachShownOnce`: that a thread has no message twice (`Distinct`) is not inductive.
  - What is merged into it must be a message of the log with its own number and
    client id, or the two comparisons of `mergeMessage` could disagree about which
    bubble it is. So everything in the thread is either genuine or an optimistic
    bubble (`Entries`), all that is on its way by socket, page or answer is genuine
    (`UnderWay`, `Paged`), and the log has a client id once (`Logged`, which is what
    `OncePerKey` of `MessageStore` promises).
  - An older page is put above the thread without merging. What it overlaps by is
    in `doubled`, as long as the thread still goes down to where the page was asked
    from (`Reaches`), and as long as no bubble is of a message so old that the page
    has it: bubbles were put below what was loaded then (`Rooted`). `hasMore` is
    therefore only true of a thread that is loaded and has a stored message on top
    (`Anchored`).
  - `InsertKeeps` and `ReplaceKeeps` say that each branch of `mergeMessage` keeps all
    of this, `MergedKeeps` that merging a whole page does. There is a lemma `Step...`
    for each action.
* `MergedKeeps` and `Sorted` (every message gets a place, and one of its own) need an
  induction, which the library offers only in a form the provers cannot use.
  `LeastNumber` stands in for it: a set of numbers that is not empty has a least one,
  because otherwise the numbers below all of it would be a finite set that is mapped
  one to one into a smaller one. The first row at which a merge went wrong is then
  refuted by the row before.
* `NoneLost` and `NoBubbleStuck` are about a state of rest, which says nothing of how it
  came to be. `DeliveryInv` therefore follows each message and each bubble on its way.
  - Every stored message that no step has given up is in the thread or above it, or a
    handler is about to tell of it, or its event is on the socket, or a request will
    bring it, unless there is no connection or the conversation was not opened yet
    (`Traced`). At rest only the first two are left.
  - A request brings what was stored when it was made and, once it is answered, what
    its page has or says is above it (`Brings`). An older page joins the thread
    without a gap (`Whole`, `Resumed`), unless a late first page has meanwhile
    replaced the thread it was asked for (`Skipped`).
  - A bubble is of a message that is stored, or its frame is under way, queued, lost
    or refused (`Sent`), and no other entry of the thread is of that message, as
    `EachShownOnce` has it, so that a bubble beside its stored message would be seen.
    Only bubbles wait for an answer (`Settled`), because nothing the server says is
    that a message is being sent (`Decided`).
  - `Follows` is what every way of changing a thread but `openConversation` keeps:
    what was shown is shown, and no bubble has come. There is one lemma for each of
    these ways (`MergeFollows`, `AckedFollows` and so on) and a lemma `Delivery...`
    for each action. `AnswerBrings` is about the pages that `get_history` cuts out of
    the log.
  - The sets under "Gaps" are what the proof must be allowed to give up: each is used by
    the step that adds it, to account for a message that leaves the thread there.

**LinkPreviews.** `HopsAreChecked`: what a request is at, has fetched or has
stored was validated (`Validated`). `CacheIsBounded`: one entry goes when there is
no room, by the library's facts about cardinality. `StoredLinksAreNotFetched`: what
was told and not evicted is cached and just as old (`Known`), and a fetch begins with
a lookup alone (`FetchIsLookup`).

### Model-checked only

* Liveness (`RequestsFinish`, `GhostsGo`, `LapsedGoAway`, `MirrorsAgree`,
  `DeletionReachesAll`): fairness and ENABLED are out of the prover's reach.

Every invariant and every action property that a passing run checks is stated by a
theorem.

## 7. Where code and documents disagree

Two runs end in a counterexample:

* `GroupMembership_ownerless`: two members leave at once; the heir is a row that is
  being deleted (`conversation_service.py:478`), and the group is left without an
  admin, against the comment at `:476` and `API_CONTRACT.md:223-224`.
* `ConversationList_together`: the comment at `conversation_service.py:249` and
  `SYSTEM_DESIGN.md:526-528` say that of two simultaneous starts the second one gets the
  winner, but the flush at `:237` is outside the `try`, and it is the flush that fails:
  who comes second gets an error.

Others were met while modelling. The models contain them; where a passing
property would be refuted by one, its premise, its instance or a history variable
names it.

* Store: `mark_read` and `mark_delivered` overwrite a mark with a value compared to the
  one they loaded (`message_service.py:317`, `:370`), so that with two requests of one
  person at once the "high-water mark" can go back and a message be read that is not
  delivered, against "Reading implies delivery" (`:371`). `overlapped` in
  `MarksAdvance`, `ReadIsDelivered` and `OwnMessagesRead`. `mark_delivered` does not
  clamp the number it is given (`:317`, against `:364`), so messages that do not exist
  yet count as delivered; no property is stated of it.
* Groups: a send that overlaps a change of members is pushed to the members of
  before (`message_service.py:224`); a message stored between the load and the
  insert of `add_members` is unread for the new member
  (`conversation_service.py:417`).
* The list: a snapshot that was requested before an event replaces what the event
  told (`store.ts:172`); `boot` connects the socket after its list has come, and
  what happens in between is not told (`:140`); a hidden tab clears its badge
  without a frame, and so does a thread that is not loaded (`:382`), and the badge then
  differs from `last_seq - last_read_seq` (`SYSTEM_DESIGN.md:293`); the frame names
  the last message of the thread, which ends before the row does if the thread was not
  open when the socket came back (`:394`); the system message of `create_group` is
  stored and never sent. `stale` and `unsent` in `RowAgrees`.
* Reactions and deletion: two broadcasts that overlap leave the older list on the
  screen (`message_service.py:439`); a reaction may be stored after the deletion
  (`:434`) and is then shown on the tombstone; a `message.new` that comes after
  `message.deleted` brings the message back (`store.ts:107`); an event for a thread
  that is not loaded makes it an empty one, which `openConversation` never fetches
  (`store.ts:659`, `:179`); a page that was read before an edit, be it a second first
  page (`:178`) or the backfill (`:459`), overwrites what the edit has told; nothing
  repairs edits of older messages that were missed during a drop, although the comment
  at `:449` says that the client resyncs. `crossed` in `EveryoneAgrees` and
  `DeletionReachesAll`.
* Presence: `send_to_users` drops what `disconnect` returns (`ws/manager.py:96`), so a
  user whose last socket was reaped never goes offline for the others, against
  `SYSTEM_DESIGN.md:188-189` (`reaped` in `OfflineOwed`); a handshake that fails
  leaves its socket registered (`ws/gateway.py:51`, `pc = "leaked"`); a reconnect is
  overtaken by the late offline of the socket before (`presence_service.py:59`); the
  list of online peers is older than updates that were sent before it
  (`presence_service.py:50`, `store.ts:514`).
* Retention: previews and quotes are read without the expiry filter
  (`conversation_service.py:127`, `message_service.py:69`), although the README
  of the application says that a lapsed message "can never be served"; a purge
  forgets the client id, so a late retry is stored again
  (`message_service.py:505`); a foreign key error is taken for a lost retry race,
  and a send without a client id may be answered with another message
  (`message_service.py:207`).
* Accounts: two exchanges of one refresh token, or two verifications of one code, that
  are checked before either commits both succeed (`auth_service.py:83`, `:46`;
  `contested`); the second of two new users of one number gets an error. A refresh
  that begins without a token is resolved before the `try` whose `finally` resets it,
  so its tab is signed out at every later 401 until it is reloaded (`api.ts:66`;
  "wedged"). The body of a logout is built before its own 401 is answered, so the new
  pair stays valid (`api.ts:173`; `outlived`), against "logout can actually revoke a
  session" (`SYSTEM_DESIGN.md:42`). Two tabs that refresh at once: who loses clears
  the tokens of who wins (`api.ts:112`; `crossed`). A lost answer or a reload during a
  refresh leaves a revoked pair stored (`lost`).
* Link previews: "a busy conversation fetches each link once rather than once per
  viewer" (`link_service.py:18-19`) holds once a preview is stored; viewers who come
  before that all fetch it. A full cache evicts an entry even if the link to be stored
  has one already (`:212`).
* Redis: a device on another node misses events while the user has one on the sending
  node (`redis_manager.py:196`); offline is broadcast when the last socket of one node
  closes (`:163`); a command that fails is not repeated: after a SUBSCRIBE the node
  stays deaf to the user and the socket in `_local` (`:148`, `refused`), after an
  UNSUBSCRIBE or SREM the user stays in the set and the heartbeat keeps it alive
  (`:172`); `SREM` may follow the `SADD` of a reconnect (`:171`); a set that lapsed
  under a running node is never filled again (`:247`); a restart under the same node
  id renews the set of the killed process (`:100`); clients are not told when a
  reconciliation finds a node dead (`:362`). The users whose sets have gone wrong are
  in `astray`.
* Client: see "Gaps" in `ClientThread`. The backfill starts behind the guessed number
  of a bubble that is not stored yet (`store.ts:457`, `:222`), so that a message of
  the peer with this number is never fetched, and a thread that is in memory but not
  the active one is not backfilled at all (`:455`, `:179`), against
  `README.md:330-331` of the application ("without ever losing messages"); a second
  first page, asked for while one is under way, takes the place of a newer thread
  (`:185`). A bubble whose frame the gateway refuses (`ws/gateway.py:103`, `:118`)
  says "sending" for ever, since the client only shows a toast, if that (`:779`;
  `lost` in `NothingStuck`). Besides, a page of `loadOlder` may overlap the thread
  (`doubled`), a status may be overwritten with a lower one (`:107`), an acknowledged
  bubble keeps its place although its number does not fit, a receipt may reach a
  bubble that is not stored (`:819`), and a bubble that failed over REST stays failed
  although the queued frame was stored (`:606`).

## 8. Not modelled

| Part | Why |
|---|---|
| Receipt counts, ticks of groups | counts of marks that are covered; a receipt's own count is known to lag |
| Rate limiter | one method without an await over a queue of timestamps: nothing interleaves, a unit test reaches its boundary |
| Typing, ping | volatile, nothing depends on them |
| Search, attachments, UI | queries, I/O and rendering |
| Users, contacts | single statements with a unique constraint |
| Migrations, seed, start-up, scripts | declarations, wiring and demonstrations |

Within modelled parts: message text, several conversations at once (they share no
row), `last_seen_at`, the client's expiry timer, backoff times, clock skew, the
pages of the list, the `close` of an old socket after a new one is made
(`ws.ts:61`), the limit of 50 queued frames (`ws.ts:121`), what a name server says
and how long it takes (`link_service.py:64` waits for it in the event loop; the
models take a name to have one address between the check and the request), and
uploads, whose `fetch` is one more caller of the shared refresh (`api.ts:289-293`). In
`AuthSessions` a refresh token lapses only while no request is under way, and a
pair ages only while somebody holds it.

## 9. Plan

1. Built, in this order: `MessageLog`, `MessageStore` with its proofs,
   `GroupMembership`, `Presence`, `Retention`, `RedisFanout`, `ClientThread`;
   then `AuthSessions`, `ConversationList`, `MessageEdits`, `LinkPreviews`, and
   the proofs of all of them.
2. Next: the counts of receipts against marks; the lifecycle of `SignalSocket`;
   the client's own reads overlapping in `ConversationList`.
3. Abstract specifications worth stating: presence as one bit per user that
   follows the sockets, to be implemented by `Presence` without reaping and by
   `RedisFanout` with sticky routing; membership as a set with an admin.
4. Theorems worth proving next: that `Presence` and `RedisFanout` implement such a bit,
   and that the log of `ClientThread` is the one `MessageStoreProofs` is about.
