---------------------------- MODULE RedisFanout ----------------------------
(***************************************************************************)
(* Several nodes behind one Redis: RedisConnectionManager                  *)
(* (backend/app/ws/redis_manager.py), with websocket_endpoint around its   *)
(* connect and disconnect.                                                 *)
(*                                                                         *)
(* Each node keeps a mirror of who is online where.  Deltas on a pub/sub   *)
(* channel keep it quick and may be lost; a reconciliation with the sets   *)
(* of users that nodes keep in Redis is to keep it correct.  A node's      *)
(* stamp and set lapse when it has not registered for NODE_TTL_SECONDS;    *)
(* time is left out, so that may happen whenever the node does not run, or *)
(* cannot reach Redis (see MaxFaults).  The reads of one reconciliation    *)
(* are one step, its writes another.  A socket object is used once.        *)
(* Broadcasts within one node, and sockets that die while they connect,    *)
(* are in Presence.                                                        *)
(***************************************************************************)
EXTENDS Naturals, Sequences, FiniteSets

CONSTANTS
  Node,
  User,
  Socket,    \* WebSocket objects
  Owner,     \* Owner[c] authenticated on socket c
  Homes,     \* which sockets the load balancer may give to which nodes
  MaxFaults  \* bound of the model: how often nodes are killed, shut down,
             \* or late to register though they run, or a command fails

ASSUME OwnerAssumption == Owner \in [Socket -> User]
ASSUME HomesAssumption == Homes \subseteq [Socket -> Node]
ASSUME BoundAssumption == MaxFaults \in Nat

VARIABLES
  home,      \* home[c] is the node that socket c is connected to
  up,        \* the nodes that run
  local,     \* _local of each node
  subs,      \* ws:user: channels a node is subscribed to
  lock,      \* coroutines in line for _pubsub_lock
  pc,        \* where the coroutine of each socket is
  online,    \* _online of each node: the mirror
  deltas,    \* ws:presence messages on their way to each node
  rebuilt,   \* what a reconciliation has read from Redis
  registry,  \* presence:nodes: is the stamp of a node fresh, stale, or gone?
  users,     \* presence:node:{id}
  expiring,  \* the nodes whose presence:node:{id} has a time to live
  astray,    \* history: users about whom the sets in Redis have gone wrong
  refused,   \* history: commands about a user's channel that have failed
  faults     \* how often a node was killed, shut down, or late, or a command failed

vars == <<home, up, local, subs, lock, pc, online, deltas, rebuilt, registry, users,
  expiring, astray, refused, faults>>
redis == <<registry, users, expiring>>
history == <<astray, refused, faults>>

Connecting == {"subscribe", "sadd", "register", "announce"}
Leaving == {"unsubscribe", "srem", "withdraw"}

Mirror == [User -> SUBSET Node]
Delta == [user : User, node : Node, online : BOOLEAN]
Read == [busy : BOOLEAN, mirror : Mirror, stale : SUBSET Node]
NothingRead == [busy |-> FALSE, mirror |-> [u \in User |-> {}], stale |-> {}]

TypeOK ==
  /\ home \in Homes
  /\ up \subseteq Node
  /\ local \in [Node -> [User -> SUBSET Socket]]
  /\ subs \in [Node -> SUBSET User]
  /\ lock \in [Node -> Seq(Socket)]
  /\ pc \in [Socket -> {"unused", "open", "closed"} \cup Connecting \cup Leaving]
  /\ online \in [Node -> Mirror]
  /\ deltas \in [Node -> Seq(Delta)]
  /\ rebuilt \in [Node -> Read]
  /\ registry \in [Node -> {"fresh", "stale", "gone"}]
  /\ users \in [Node -> SUBSET User]
  /\ expiring \subseteq Node
  /\ astray \subseteq User
  /\ refused \subseteq {"subscribe", "unsubscribe"} \X User
  /\ faults \in 0..MaxFaults

\* Every node has started: subscribed, registered, reconciled.
Init ==
  /\ home \in Homes
  /\ up = Node
  /\ local = [n \in Node |-> [u \in User |-> {}]]
  /\ subs = [n \in Node |-> {}]
  /\ lock = [n \in Node |-> <<>>]
  /\ pc = [c \in Socket |-> "unused"]
  /\ online = [n \in Node |-> [u \in User |-> {}]]
  /\ deltas = [n \in Node |-> <<>>]
  /\ rebuilt = [n \in Node |-> NothingRead]
  /\ registry = [n \in Node |-> "fresh"]
  /\ users = [n \in Node |-> {}]
  /\ expiring = Node
  /\ astray = {} /\ refused = {}
  /\ faults = 0

Goto(c, from, to) ==
  /\ pc[c] = from
  /\ pc' = [pc EXCEPT ![c] = to]

\* _publish_presence: to every node that runs. The sender skips its own echo in
\* _listen, so that one is left out.
Published(d) ==
  [n \in Node |-> IF n \in up \ {d.node} THEN Append(deltas[n], d) ELSE deltas[n]]

Fault == faults < MaxFaults /\ faults' = faults + 1

\* asyncio.Lock lets its waiters in in the order in which they came.
Enqueue(c) == lock' = [lock EXCEPT ![home[c]] = Append(@, c)]

Dequeue(c) ==
  /\ lock[home[c]] # <<>> /\ Head(lock[home[c]]) = c
  /\ lock' = [lock EXCEPT ![home[c]] = Tail(@)]

-----------------------------------------------------------------------------
\* connect. Between the lock on _local and the line for _pubsub_lock there is
\* no await.

Connect(c) ==
  LET n == home[c]
      u == Owner[c]
  IN  /\ n \in up
      /\ local' = [local EXCEPT ![n][u] = @ \cup {c}]
      /\ IF local[n][u] = {}
           THEN Goto(c, "unused", "subscribe") /\ Enqueue(c)
           ELSE Goto(c, "unused", "open") /\ UNCHANGED lock
      /\ UNCHANGED <<home, up, subs, online, deltas, rebuilt, redis, history>>

\* Mutant of Subscribe: the coroutine does not wait for its turn.
SubscribeAtOnce(c) ==
  /\ Goto(c, "subscribe", "sadd")
  /\ lock' = [lock EXCEPT ![home[c]] = SelectSeq(@, LAMBDA w : w # c)]
  /\ subs' = [subs EXCEPT ![home[c]] = @ \cup {Owner[c]}]
  /\ UNCHANGED <<home, up, local, online, deltas, rebuilt, redis, history>>

Subscribe(c) ==
  /\ Goto(c, "subscribe", "sadd")
  /\ Dequeue(c)
  /\ subs' = [subs EXCEPT ![home[c]] = @ \cup {Owner[c]}]
  /\ UNCHANGED <<home, up, local, online, deltas, rebuilt, redis, history>>

\* SADD creates a set that was empty, without a time to live.
SAdd(c) ==
  /\ Goto(c, "sadd", "register")
  /\ users' = [users EXCEPT ![home[c]] = @ \cup {Owner[c]}]
  /\ expiring' = IF users[home[c]] = {} THEN expiring \ {home[c]} ELSE expiring
  /\ UNCHANGED <<home, up, local, subs, lock, online, deltas, rebuilt, registry, history>>

\* _register: EXPIRE brings nothing back that has expired.
Register(n) ==
  /\ registry' = [registry EXCEPT ![n] = "fresh"]
  /\ expiring' = expiring \cup {n}

ConnectRegister(c) ==
  /\ Goto(c, "register", "announce")
  /\ Register(home[c])
  /\ UNCHANGED <<home, up, local, subs, lock, online, deltas, rebuilt, users, history>>

\* _mark_online, and the delta.
Announce(c) ==
  LET n == home[c]
      u == Owner[c]
  IN  /\ Goto(c, "announce", "open")
      /\ online' = [online EXCEPT ![n][u] = @ \cup {n}]
      /\ deltas' = Published([user |-> u, node |-> n, online |-> TRUE])
      /\ UNCHANGED <<home, up, local, subs, lock, rebuilt, redis, history>>

\* A command of connect fails, and changes nothing. connect raises, outside the try
\* of the endpoint: the rest is skipped and nobody disconnects the socket, unless a
\* broadcast finds it dead.
ConnectFails(c) ==
  /\ Fault
  /\ \/ /\ Goto(c, "subscribe", "open")
        /\ Dequeue(c)
        /\ refused' = refused \cup {<<"subscribe", Owner[c]>>}
        /\ astray' = astray \cup {Owner[c]}
     \/ /\ Goto(c, "sadd", "open")
        /\ astray' = astray \cup {Owner[c]}
        /\ UNCHANGED <<lock, refused>>
     \/ /\ Goto(c, "register", "open")
        /\ UNCHANGED <<lock, refused, astray>>
  /\ UNCHANGED <<home, up, local, subs, online, deltas, rebuilt, redis>>

-----------------------------------------------------------------------------
\* disconnect

\* Mutant of Disconnect: the entry of the user is removed with its last but one
\* socket.
DisconnectUser(c) ==
  LET n == home[c]
      u == Owner[c]
  IN  /\ Goto(c, "open", "unsubscribe")
      /\ Enqueue(c)
      /\ local' = [local EXCEPT ![n][u] = {}]
      /\ UNCHANGED <<home, up, subs, online, deltas, rebuilt, redis, history>>

Disconnect(c) ==
  LET n == home[c]
      u == Owner[c]
  IN  /\ local' = [local EXCEPT ![n][u] = @ \ {c}]
      /\ IF local[n][u] = {c}
           THEN Goto(c, "open", "unsubscribe") /\ Enqueue(c)
           ELSE Goto(c, "open", "closed") /\ UNCHANGED lock
      /\ UNCHANGED <<home, up, subs, online, deltas, rebuilt, redis, history>>

Unsubscribe(c) ==
  /\ Goto(c, "unsubscribe", "srem")
  /\ Dequeue(c)
  /\ subs' = [subs EXCEPT ![home[c]] = @ \ {Owner[c]}]
  /\ UNCHANGED <<home, up, local, online, deltas, rebuilt, redis, history>>

\* A user who has a socket, and whose SADD is not still to come, is gone astray.
Joining(n, u) ==
  \E c \in Socket : home[c] = n /\ Owner[c] = u /\ pc[c] \in {"subscribe", "sadd"}

\* Mutant of SRem: the set keeps the user.
SRemForgotten(c) ==
  /\ Goto(c, "srem", "withdraw")
  /\ UNCHANGED <<home, up, local, subs, lock, online, deltas, rebuilt, redis, history>>

SRem(c) ==
  /\ Goto(c, "srem", "withdraw")
  /\ users' = [users EXCEPT ![home[c]] = @ \ {Owner[c]}]
  /\ astray' = IF local[home[c]][Owner[c]] # {} /\ ~Joining(home[c], Owner[c])
                 THEN astray \cup {Owner[c]} ELSE astray
  /\ UNCHANGED <<home, up, local, subs, lock, online, deltas, rebuilt, registry, expiring, refused, faults>>

\* A command of disconnect fails, and changes nothing: the error is logged, an SREM
\* that was still to come is skipped, and the set keeps the user.
DisconnectFails(c) ==
  /\ Fault
  /\ \/ /\ Goto(c, "unsubscribe", "withdraw")
        /\ Dequeue(c)
        /\ refused' = refused \cup {<<"unsubscribe", Owner[c]>>}
     \/ /\ Goto(c, "srem", "withdraw")
        /\ UNCHANGED <<lock, refused>>
  /\ astray' = astray \cup {Owner[c]}
  /\ UNCHANGED <<home, up, local, subs, online, deltas, rebuilt, redis>>

\* _mark_offline, and the delta.
Withdraw(c) ==
  LET n == home[c]
      u == Owner[c]
  IN  /\ Goto(c, "withdraw", "closed")
      /\ online' = [online EXCEPT ![n][u] = @ \ {n}]
      /\ deltas' = Published([user |-> u, node |-> n, online |-> FALSE])
      /\ UNCHANGED <<home, up, local, subs, lock, rebuilt, redis, history>>

-----------------------------------------------------------------------------
\* The background tasks of a node.

\* _listen
Listen(n) ==
  LET d == Head(deltas[n])
  IN  /\ deltas[n] # <<>>
      /\ deltas' = [deltas EXCEPT ![n] = Tail(@)]
      /\ online' = [online EXCEPT ![n][d.user] =
           IF d.online THEN @ \cup {d.node} ELSE @ \ {d.node}]
      /\ UNCHANGED <<home, up, local, subs, lock, pc, rebuilt, redis, history>>

\* Pub/sub keeps nothing for a subscriber that is away.
LoseDelta(n) ==
  /\ deltas[n] # <<>>
  /\ deltas' = [deltas EXCEPT ![n] = Tail(@)]
  /\ UNCHANGED <<home, up, local, subs, lock, pc, online, rebuilt, redis, history>>

\* _heartbeat
Heartbeat(n) ==
  /\ n \in up
  /\ registry[n] # "fresh" \/ n \notin expiring
  /\ Register(n)
  /\ UNCHANGED <<home, up, local, subs, lock, pc, online, deltas, rebuilt, users, history>>

\* NODE_TTL_SECONDS have passed since the node registered.
Lapse(n) ==
  /\ registry[n] = "fresh"
  /\ IF n \in up THEN Fault ELSE UNCHANGED faults
  /\ registry' = [registry EXCEPT ![n] = "stale"]
  /\ users' = IF n \in expiring THEN [users EXCEPT ![n] = {}] ELSE users
  /\ astray' = IF n \in up /\ n \in expiring THEN astray \cup users[n] ELSE astray
  /\ UNCHANGED <<home, up, local, subs, lock, pc, online, deltas, rebuilt, expiring, refused>>

\* _reconcile reads the registry and the set of every node that is not stale...
Stale(n) == {m \in Node \ {n} : registry[m] = "stale"}
ReadMirror(n) ==
  [u \in User |-> {m \in Node \ Stale(n) : registry[m] # "gone" /\ u \in users[m]}]

ReconcileRead(n) ==
  /\ n \in up
  /\ ~rebuilt[n].busy
  /\ rebuilt' = [rebuilt EXCEPT ![n] =
       [busy |-> TRUE, stale |-> Stale(n), mirror |-> ReadMirror(n)]]
  /\ UNCHANGED <<home, up, local, subs, lock, pc, online, deltas, redis, history>>

\* ...adds the node's own sockets, replaces the mirror, removes stale nodes.
WithLocal(n, mirror) ==
  [u \in User |-> IF local[n][u] # {} THEN mirror[u] \cup {n} ELSE mirror[u]]
\* Mutant of Replaced: what was read is added to what is known.
ReplacedOrKept(n) == [u \in User |-> online[n][u] \cup WithLocal(n, rebuilt[n].mirror)[u]]
Replaced(n) == WithLocal(n, rebuilt[n].mirror)

ReconcileWrite(n) ==
  /\ rebuilt[n].busy
  /\ online' = [online EXCEPT ![n] = Replaced(n)]
  /\ registry' = [m \in Node |-> IF m \in rebuilt[n].stale THEN "gone" ELSE registry[m]]
  /\ users' = [m \in Node |-> IF m \in rebuilt[n].stale THEN {} ELSE users[m]]
  /\ rebuilt' = [rebuilt EXCEPT ![n] = NothingRead]
  /\ astray' = astray \cup UNION {users[m] : m \in rebuilt[n].stale \cap up}
  /\ UNCHANGED <<home, up, local, subs, lock, pc, deltas, expiring, refused, faults>>

\* What is left of a node that no longer runs.
Vanish(n) ==
  /\ n \in up
  /\ up' = up \ {n}
  /\ local' = [local EXCEPT ![n] = [u \in User |-> {}]]
  /\ subs' = [subs EXCEPT ![n] = {}]
  /\ lock' = [lock EXCEPT ![n] = <<>>]
  /\ pc' = [c \in Socket |-> IF home[c] = n /\ pc[c] # "unused" THEN "closed" ELSE pc[c]]
  /\ online' = [online EXCEPT ![n] = [u \in User |-> {}]]
  /\ rebuilt' = [rebuilt EXCEPT ![n] = NothingRead]

Crash(n) ==
  /\ Fault
  /\ Vanish(n)
  /\ deltas' = [deltas EXCEPT ![n] = <<>>]
  /\ UNCHANGED <<home, redis, astray, refused>>

\* stop. The server has closed its sockets by then, and their coroutines ended.
Stop(n) ==
  /\ Fault
  /\ \A c \in Socket : home[c] = n => pc[c] \in {"unused", "closed"}
  /\ Vanish(n)
  /\ registry' = [registry EXCEPT ![n] = "gone"]
  /\ users' = [users EXCEPT ![n] = {}]
  /\ deltas' = [deltas EXCEPT ![n] = <<>>]
  /\ UNCHANGED <<home, expiring, astray, refused>>

\* start, with the node id of before: register, then a first reconciliation.
Start(n) ==
  /\ n \notin up
  /\ up' = up \cup {n}
  /\ registry' = [m \in Node |-> IF m = n THEN "fresh"
                                 ELSE IF m \in Stale(n) THEN "gone" ELSE registry[m]]
  /\ online' = [online EXCEPT ![n] = [u \in User |->
       {m \in Node \ Stale(n) : registry'[m] # "gone" /\ u \in users[m]}]]
  /\ users' = [m \in Node |-> IF m \in Stale(n) THEN {} ELSE users[m]]
  /\ expiring' = expiring \cup {n}
  /\ astray' = astray \cup UNION {users[m] : m \in {n} \cup (Stale(n) \cap up)}
  /\ UNCHANGED <<home, local, subs, lock, pc, deltas, rebuilt, refused, faults>>

Step(c) ==
  \/ Subscribe(c) \/ SAdd(c) \/ ConnectRegister(c) \/ Announce(c)
  \/ Unsubscribe(c) \/ SRem(c) \/ Withdraw(c)

Next ==
  \/ \E c \in Socket :
       Connect(c) \/ Disconnect(c) \/ Step(c) \/ ConnectFails(c) \/ DisconnectFails(c)
  \/ \E n \in Node :
       \/ Listen(n) \/ LoseDelta(n) \/ Heartbeat(n) \/ Lapse(n)
       \/ ReconcileRead(n) \/ ReconcileWrite(n)
       \/ Crash(n) \/ Stop(n) \/ Start(n)

Spec == Init /\ [][Next]_vars

\* Coroutines and background tasks of a running node go on; the stamp of a dead
\* one lapses. Nobody need connect, disconnect or die.
FairSpec ==
  /\ Spec
  /\ \A c \in Socket : WF_vars(Step(c))
  /\ \A n \in Node :
       /\ WF_vars(Listen(n)) /\ WF_vars(Heartbeat(n))
       /\ WF_vars(ReconcileRead(n)) /\ WF_vars(ReconcileWrite(n))
       /\ WF_vars(n \notin up /\ Lapse(n))

-----------------------------------------------------------------------------
(***************************************************************************)
(* Properties                                                              *)
(***************************************************************************)

\* A node listens to the channel of a user exactly as long as it holds a socket
\* of that user, whatever closes and opens at the same time: unless a SUBSCRIBE
\* has failed, or the UNSUBSCRIBE that was to end it.
Changing(n, u) ==
  \E c \in Socket : home[c] = n /\ Owner[c] = u /\ pc[c] \in {"subscribe", "unsubscribe"}
SubscribedWhileHeld ==
  \A n \in up, u \in User :
    ~Changing(n, u) =>
      /\ local[n][u] # {} => u \in subs[n] \/ <<"subscribe", u>> \in refused
      /\ u \in subs[n] => local[n][u] # {} \/ <<"unsubscribe", u>> \in refused

\* send_to_users from node n: the local sockets of a user who has some, or else
\* those of the nodes that listen to the user's channel.
Reached(n, u) ==
  IF local[n][u] # {} THEN local[n][u]
  ELSE UNION {local[m][u] : m \in {m \in up : u \in subs[m]}}

\* An event sent from any node reaches every open socket of its user, unless the
\* user has sockets on two nodes, or the socket's node is about to subscribe, or
\* failed to: disconnects that fail keep no event from anybody.
OnOneNode(u) == \A m, n \in up : local[m][u] # {} /\ local[n][u] # {} => m = n
EveryDevice ==
  \A n \in up, c \in Socket :
    pc[c] = "open" /\ OnOneNode(Owner[c]) /\ ~Changing(home[c], Owner[c])
    /\ <<"subscribe", Owner[c]>> \notin refused
      => c \in Reached(n, Owner[c])

\* The set of a node in Redis has a user exactly while the node holds a socket of the
\* user, once those that come and go are through: unless it has gone wrong in one of
\* the five ways named below, and in no other.
Moving(n, u) ==
  \E c \in Socket :
    /\ home[c] = n /\ Owner[c] = u
    /\ pc[c] \in {"subscribe", "sadd", "unsubscribe", "srem"}
SetsFollow ==
  \A n \in up, u \in User \ astray :
    ~Moving(n, u) => (u \in users[n] <=> local[n][u] # {})

\* "Pub/sub deltas keep presence instant; this keeps it correct" (_reconcile): in
\* the end every mirror shows a user as online if and only if some node that runs
\* holds a socket of the user, whatever deltas were lost and nodes killed; unless
\* the sets in Redis have gone wrong about the user, in one of five ways: SREM
\* after a reconnect's SADD (disconnect), an SADD or SREM that failed or was
\* skipped (nothing repeats it), a set that lapsed or was reaped while its node
\* ran, and a set inherited from a killed process of the same node id.
Connected(u) == \E m \in up : local[m][u] # {}
MirrorsAgree ==
  <>[](\A n \in up, u \in User \ astray : online[n][u] # {} <=> Connected(u))
=============================================================================
