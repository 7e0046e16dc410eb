----------------------------- MODULE Presence -----------------------------
(***************************************************************************)
(* Sockets and presence on one node: websocket_endpoint (ws/gateway.py),   *)
(* InMemoryConnectionManager (ws/manager.py), presence_service and what    *)
(* the client makes of the events (handleEvent in frontend/lib/store.ts).  *)
(*                                                                         *)
(* One coroutine per socket; every await is a step boundary, and between   *)
(* two of them other sockets come and go.  A socket object is used once.   *)
(* Everybody shares a conversation with everybody, so all others are       *)
(* peers.  Database errors after a disconnect are left out.                *)
(***************************************************************************)
EXTENDS Naturals, FiniteSets

CONSTANTS
  User,
  Socket,            \* WebSocket objects
  Owner,             \* Owner[c] authenticated on socket c
  HandshakeMayFail   \* may on_connect fail, or a client go before it is greeted?

ASSUME OwnerAssumption == Owner \in [Socket -> User]
ASSUME FailAssumption  == HandshakeMayFail \in BOOLEAN

VARIABLES
  connections,  \* InMemoryConnectionManager._connections
  alive,        \* sockets whose client is still there
  pc,           \* where the gateway coroutine of each socket is
  failed,       \* the sockets a coroutine's broadcast could not be sent to
  peers,        \* the online_user_ids a coroutine has computed
  onlineUsers,  \* the client's onlineUsers, per socket
  told,         \* history: the last presence broadcast about each user
  reaped        \* history: users a socket of whom a failed send took away

presenceVars == <<connections, alive, pc, failed, peers, onlineUsers, told, reaped>>

Handshake == {"announce", "reapOnline", "peers", "greet"}
Closing == {"disconnect", "offline", "reapOffline"}

PresenceTypeOK ==
  /\ connections \in [User -> SUBSET Socket]
  /\ alive \subseteq Socket
  /\ pc \in [Socket -> {"unused", "loop", "done", "leaked"} \cup Handshake \cup Closing]
  /\ failed \in [Socket -> SUBSET Socket]
  /\ peers \in [Socket -> SUBSET User]
  /\ onlineUsers \in [Socket -> SUBSET User]
  /\ told \in [User -> {"nothing", "online", "offline"}]
  /\ reaped \subseteq User

PresenceInit ==
  /\ connections = [u \in User |-> {}]
  /\ alive = {}
  /\ pc = [c \in Socket |-> "unused"]
  /\ failed = [c \in Socket |-> {}]
  /\ peers = [c \in Socket |-> {}]
  /\ onlineUsers = [c \in Socket |-> {}]
  /\ told = [u \in User |-> "nothing"]
  /\ reaped = {}

Goto(c, from, to) ==
  /\ pc[c] = from
  /\ pc' = [pc EXCEPT ![c] = to]

is_online(u) == connections[u] # {}

\* Every socket of everybody but u.
SocketsOfPeers(u) == UNION {connections[v] : v \in User \ {u}}

\* Mutant of Reap: a failed send forgets the user, not the socket.
ReapUsers(c, from, to) ==
  LET gone == {Owner[d] : d \in failed[c]}
  IN  /\ Goto(c, from, to)
      /\ connections' = [u \in User |-> IF u \in gone THEN {} ELSE connections[u]]
      /\ reaped' = reaped \cup gone
      /\ failed' = [failed EXCEPT ![c] = {}]
      /\ UNCHANGED <<alive, peers, onlineUsers, told>>

\* When the sends are over the sockets that raised are deregistered, and what
\* disconnect returns is dropped.
Reap(c, from, to) ==
  /\ Goto(c, from, to)
  /\ connections' = [u \in User |-> connections[u] \ failed[c]]
  /\ reaped' = reaped \cup {Owner[d] : d \in failed[c]}
  /\ failed' = [failed EXCEPT ![c] = {}]
  /\ UNCHANGED <<alive, peers, onlineUsers, told>>

-----------------------------------------------------------------------------
\* websocket_endpoint up to its receive loop.

\* accept, connect; the answer "was this the first socket" is not looked at.
Connect(c) ==
  /\ Goto(c, "unused", "announce")
  /\ alive' = alive \cup {c}
  /\ connections' = [connections EXCEPT ![Owner[c]] = @ \cup {c}]
  /\ UNCHANGED <<failed, peers, onlineUsers, told, reaped>>

\* on_connect, _broadcast, send_to_users: the frames leave in the order in which
\* broadcasts pick their targets.
AnnounceOnline(c) ==
  LET targets == SocketsOfPeers(Owner[c])
  IN  /\ Goto(c, "announce", "reapOnline")
      /\ onlineUsers' = [d \in Socket |->
           IF d \in targets \cap alive THEN onlineUsers[d] \cup {Owner[c]} ELSE onlineUsers[d]]
      /\ failed' = [failed EXCEPT ![c] = targets \ alive]
      /\ told' = [told EXCEPT ![Owner[c]] = "online"]
      /\ UNCHANGED <<connections, alive, peers, reaped>>

ReapOnline(c) == Reap(c, "reapOnline", "peers")

\* Which peers on_connect reports as online.
ListPeers(c) ==
  /\ Goto(c, "peers", "greet")
  /\ peers' = [peers EXCEPT ![c] = {u \in User \ {Owner[c]} : is_online(u)}]
  /\ UNCHANGED <<connections, alive, failed, onlineUsers, told, reaped>>

\* The "connected" event; the client REPLACES its onlineUsers with the list.
Greet(c) ==
  /\ c \in alive
  /\ Goto(c, "greet", "loop")
  /\ onlineUsers' = [onlineUsers EXCEPT ![c] = peers[c]]
  /\ peers' = [peers EXCEPT ![c] = {}]
  /\ UNCHANGED <<connections, alive, failed, told, reaped>>

\* The database fails in on_connect, or the client is gone before it is greeted:
\* an exception before the try, so no finally. The server closes the socket.
HandshakeFails(c) ==
  /\ HandshakeMayFail
  /\ \E from \in Handshake \ {"reapOnline"} : Goto(c, from, "leaked")
  /\ alive' = alive \ {c}
  /\ peers' = [peers EXCEPT ![c] = {}]
  /\ UNCHANGED <<connections, failed, onlineUsers, told, reaped>>

-----------------------------------------------------------------------------
\* The client goes away, or an error ends the receive loop.
ClientGoes(c) ==
  /\ c \in alive
  /\ HandshakeMayFail \/ pc[c] \notin Handshake
  /\ alive' = alive \ {c}
  /\ UNCHANGED <<connections, pc, failed, peers, onlineUsers, told, reaped>>

\* Mutant of Detect: the loop is left without the finally.
DetectAndReturn(c) ==
  /\ c \notin alive
  /\ Goto(c, "loop", "done")
  /\ UNCHANGED <<connections, alive, failed, peers, onlineUsers, told, reaped>>

\* receive_json raises.
Detect(c) ==
  /\ c \notin alive
  /\ Goto(c, "loop", "disconnect")
  /\ UNCHANGED <<connections, alive, failed, peers, onlineUsers, told, reaped>>

\* Mutant of Disconnect: "was it the last" is asked before the socket is discarded.
DisconnectAskFirst(c) ==
  /\ connections' = [connections EXCEPT ![Owner[c]] = @ \ {c}]
  /\ Goto(c, "disconnect", IF is_online(Owner[c]) THEN "done" ELSE "offline")
  /\ UNCHANGED <<alive, failed, peers, onlineUsers, told, reaped>>

\* manager.disconnect in the finally. A socket that a failed send has reaped
\* already does not count as the last one.
Disconnect(c) ==
  /\ connections' = [connections EXCEPT ![Owner[c]] = @ \ {c}]
  /\ Goto(c, "disconnect",
          IF is_online(Owner[c]) /\ connections[Owner[c]] \subseteq {c} THEN "offline" ELSE "done")
  /\ UNCHANGED <<alive, failed, peers, onlineUsers, told, reaped>>

\* on_disconnect, _broadcast, send_to_users.
AnnounceOffline(c) ==
  LET targets == SocketsOfPeers(Owner[c])
  IN  /\ Goto(c, "offline", "reapOffline")
      /\ onlineUsers' = [d \in Socket |->
           IF d \in targets \cap alive THEN onlineUsers[d] \ {Owner[c]} ELSE onlineUsers[d]]
      /\ failed' = [failed EXCEPT ![c] = targets \ alive]
      /\ told' = [told EXCEPT ![Owner[c]] = "offline"]
      /\ UNCHANGED <<connections, alive, peers, reaped>>

ReapOffline(c) == Reap(c, "reapOffline", "done")

\* Any service sends user u an event. What it says is no concern of presence;
\* that it finds the dead sockets of u is.
SendToUser(u) ==
  /\ ~ connections[u] \subseteq alive
  /\ connections' = [connections EXCEPT ![u] = @ \cap alive]
  /\ reaped' = reaped \cup {u}
  /\ UNCHANGED <<alive, pc, failed, peers, onlineUsers, told>>

-----------------------------------------------------------------------------
Gateway(c) ==
  \/ AnnounceOnline(c) \/ ReapOnline(c) \/ ListPeers(c) \/ Greet(c)
  \/ HandshakeFails(c)
  \/ Detect(c) \/ Disconnect(c) \/ AnnounceOffline(c) \/ ReapOffline(c)

PresenceNext ==
  \/ \E c \in Socket : Connect(c) \/ Gateway(c) \/ ClientGoes(c)
  \/ \E u \in User : SendToUser(u)

PresenceSpec == PresenceInit /\ [][PresenceNext]_presenceVars

\* The event loop resumes every coroutine whose await is over, and the server
\* notices a connection that is gone. Clients, and what the services send, are
\* under no obligation.
PresenceFairSpec == PresenceSpec /\ \A c \in Socket : WF_presenceVars(Gateway(c))

-----------------------------------------------------------------------------
(***************************************************************************)
(* Properties                                                              *)
(***************************************************************************)

\* "Deliver an event to every live socket of every listed user": a socket in its
\* receive loop is registered as long as its client is there, whatever other
\* sockets of the user or other broadcasts fail (send_to_users, disconnect).
RegisteredWhileOpen ==
  \A c \in alive : pc[c] = "loop" => c \in connections[Owner[c]]

\* When a user's last socket closes, offline has been broadcast after the last
\* online, or is about to be: unless a failed send took a socket of theirs away.
OfflineOwed ==
  \A u \in User :
    ~ is_online(u) /\ u \notin reaped /\ told[u] = "online" =>
      \E c \in Socket : Owner[c] = u /\ pc[c] = "offline"

\* The manager does not keep a socket for ever whose client is gone, so nobody
\* stays online for ever by it: unless the handshake failed after connect.
GhostsGo ==
  \A c \in Socket :
    c \notin alive /\ c \in connections[Owner[c]]
      ~> c \notin connections[Owner[c]] \/ pc[c] = "leaked"
=============================================================================
