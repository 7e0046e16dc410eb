--------------------------- MODULE RedisFanoutProofs ---------------------------
(***************************************************************************)
(* Proofs about RedisFanout, for any number of nodes, users and sockets,   *)
(* any load balancer and any number of faults: the types; that the         *)
(* subscriptions of a node follow its sockets although connect and         *)
(* disconnect wait for one another at _pubsub_lock, so that events reach   *)
(* every device; and that the sets of users in Redis go wrong in no way    *)
(* but those the module names.                                             *)
(***************************************************************************)
EXTENDS RedisFanout, SequenceTheorems, TLAPS

PC == {"unused", "open", "closed"} \cup Connecting \cup Leaving

-----------------------------------------------------------------------------
\* Types.

\* A delta that is published is on its way to every node that runs.
LEMMA PublishedTypes ==
  ASSUME TypeOK, NEW c \in Socket, NEW b \in BOOLEAN
  PROVE  Published([user |-> Owner[c], node |-> home[c], online |-> b])
           \in [Node -> Seq(Delta)]
  <1>1. [user |-> Owner[c], node |-> home[c], online |-> b] \in Delta
    BY OwnerAssumption, HomesAssumption DEF TypeOK, Delta
  <1> QED
    BY <1>1 DEF TypeOK, Published

\* Where a coroutine is, and whom it belongs to.
LEMMA SocketTypes ==
  ASSUME TypeOK, NEW c \in Socket
  PROVE  home[c] \in Node /\ Owner[c] \in User /\ pc[c] \in PC
  BY OwnerAssumption, HomesAssumption DEF TypeOK, PC

LEMMA GotoTypes ==
  ASSUME TypeOK, NEW c \in Socket, NEW from, NEW to \in PC, Goto(c, from, to)
  PROVE  pc' \in [Socket -> PC]
  BY DEF TypeOK, Goto, PC

LEMMA LineTypes ==
  ASSUME TypeOK, NEW c \in Socket, Enqueue(c) \/ Dequeue(c) \/ UNCHANGED lock
  PROVE  lock' \in [Node -> Seq(Socket)]
  <1>1. CASE Enqueue(c)
    BY <1>1, SocketTypes DEF TypeOK, Enqueue
  <1>2. CASE Dequeue(c)
    <2>1. Tail(lock[home[c]]) \in Seq(Socket)
      BY <1>2, SocketTypes DEF TypeOK, Dequeue
    <2> QED
      BY <1>2, <2>1, SocketTypes DEF TypeOK, Dequeue
  <1>3. CASE UNCHANGED lock
    BY <1>3 DEF TypeOK
  <1> QED
    BY <1>1, <1>2, <1>3

\* The steps of connect and disconnect: the types.
LEMMA CoroutineTypes ==
  ASSUME TypeOK, NEW c \in Socket,
         Connect(c) \/ Disconnect(c) \/ Step(c) \/ ConnectFails(c) \/ DisconnectFails(c)
  PROVE  TypeOK'
  <1> DEFINE n == home[c]
             u == Owner[c]
  <1>0. n \in Node /\ u \in User
    BY SocketTypes
  <1>1. CASE Connect(c)
    <2>1. pc' \in [Socket -> PC]
      BY <1>1, GotoTypes DEF Connect, PC, Connecting
    <2>2. lock' \in [Node -> Seq(Socket)]
      BY <1>1, LineTypes DEF Connect
    <2>3. local' \in [Node -> [User -> SUBSET Socket]]
      BY <1>0, <1>1 DEF Connect, TypeOK
    <2> QED
      BY <1>1, <2>1, <2>2, <2>3 DEF Connect, TypeOK, redis, history, PC
  <1>2. CASE Disconnect(c)
    <2>1. pc' \in [Socket -> PC]
      BY <1>2, GotoTypes DEF Disconnect, PC, Leaving
    <2>2. lock' \in [Node -> Seq(Socket)]
      BY <1>2, LineTypes DEF Disconnect
    <2>3. local' \in [Node -> [User -> SUBSET Socket]]
      BY <1>0, <1>2 DEF Disconnect, TypeOK
    <2> QED
      BY <1>2, <2>1, <2>2, <2>3 DEF Disconnect, TypeOK, redis, history, PC
  <1>3. CASE Subscribe(c)
    <2>1. pc' \in [Socket -> PC] /\ lock' \in [Node -> Seq(Socket)]
      BY <1>3, GotoTypes, LineTypes DEF Subscribe, PC, Connecting
    <2>2. subs' \in [Node -> SUBSET User]
      BY <1>0, <1>3 DEF Subscribe, TypeOK
    <2> QED
      BY <1>3, <2>1, <2>2 DEF Subscribe, TypeOK, redis, history, PC
  <1>4. CASE Unsubscribe(c)
    <2>1. pc' \in [Socket -> PC] /\ lock' \in [Node -> Seq(Socket)]
      BY <1>4, GotoTypes, LineTypes DEF Unsubscribe, PC, Leaving
    <2>2. subs' \in [Node -> SUBSET User]
      BY <1>0, <1>4 DEF Unsubscribe, TypeOK
    <2> QED
      BY <1>4, <2>1, <2>2 DEF Unsubscribe, TypeOK, redis, history, PC
  <1>5. CASE SAdd(c)
    <2>1. pc' \in [Socket -> PC]
      BY <1>5, GotoTypes DEF SAdd, PC, Connecting
    <2>2. users' \in [Node -> SUBSET User] /\ expiring' \subseteq Node
      BY <1>0, <1>5 DEF SAdd, TypeOK
    <2> QED
      BY <1>5, <2>1, <2>2 DEF SAdd, TypeOK, history, PC
  <1>6. CASE ConnectRegister(c)
    <2>1. pc' \in [Socket -> PC]
      BY <1>6, GotoTypes DEF ConnectRegister, PC, Connecting
    <2>2. registry' \in [Node -> {"fresh", "stale", "gone"}] /\ expiring' \subseteq Node
      BY <1>0, <1>6 DEF ConnectRegister, Register, TypeOK
    <2> QED
      BY <1>6, <2>1, <2>2 DEF ConnectRegister, TypeOK, history, PC
  <1>7. CASE SRem(c)
    <2>1. pc' \in [Socket -> PC]
      BY <1>7, GotoTypes DEF SRem, PC, Leaving
    <2>2. users' \in [Node -> SUBSET User] /\ astray' \subseteq User
      BY <1>0, <1>7 DEF SRem, TypeOK
    <2> QED
      BY <1>7, <2>1, <2>2 DEF SRem, TypeOK, PC
  <1>8. CASE Announce(c)
    <2>1. pc' \in [Socket -> PC]
      BY <1>8, GotoTypes DEF Announce, PC
    <2>2. online' \in [Node -> Mirror]
      BY <1>0, <1>8 DEF Announce, TypeOK, Mirror
    <2>3. deltas' \in [Node -> Seq(Delta)]
      BY <1>8, PublishedTypes DEF Announce
    <2> QED
      BY <1>8, <2>1, <2>2, <2>3 DEF Announce, TypeOK, redis, history, PC
  <1>9. CASE Withdraw(c)
    <2>1. pc' \in [Socket -> PC]
      BY <1>9, GotoTypes DEF Withdraw, PC
    <2>2. online' \in [Node -> Mirror]
      BY <1>0, <1>9 DEF Withdraw, TypeOK, Mirror
    <2>3. deltas' \in [Node -> Seq(Delta)]
      BY <1>9, PublishedTypes DEF Withdraw
    <2> QED
      BY <1>9, <2>1, <2>2, <2>3 DEF Withdraw, TypeOK, redis, history, PC
  <1>a. ASSUME Fault PROVE faults' \in 0..MaxFaults
    BY <1>a, BoundAssumption DEF Fault, TypeOK
  <1>b. CASE ConnectFails(c)
    <2>1. pc' \in [Socket -> PC]
      BY <1>b, GotoTypes DEF ConnectFails, PC
    <2>2. lock' \in [Node -> Seq(Socket)]
      BY <1>b, LineTypes DEF ConnectFails
    <2>3. /\ astray' \subseteq User
          /\ refused' \subseteq {"subscribe", "unsubscribe"} \X User
      BY <1>0, <1>b DEF ConnectFails, TypeOK
    <2> QED
      BY <1>a, <1>b, <2>1, <2>2, <2>3 DEF ConnectFails, TypeOK, redis, PC
  <1>c. CASE DisconnectFails(c)
    <2>1. pc' \in [Socket -> PC]
      BY <1>c, GotoTypes DEF DisconnectFails, PC, Leaving
    <2>2. lock' \in [Node -> Seq(Socket)]
      BY <1>c, LineTypes DEF DisconnectFails
    <2>3. /\ astray' \subseteq User
          /\ refused' \subseteq {"subscribe", "unsubscribe"} \X User
      BY <1>0, <1>c DEF DisconnectFails, TypeOK
    <2> QED
      BY <1>a, <1>c, <2>1, <2>2, <2>3 DEF DisconnectFails, TypeOK, redis, PC
  <1> QED
    BY <1>1, <1>2, <1>3, <1>4, <1>5, <1>6, <1>7, <1>8, <1>9, <1>b, <1>c DEF Step

\* The background tasks of a node: the types.
LEMMA TaskTypes ==
  ASSUME TypeOK, NEW n \in Node,
         \/ Listen(n) \/ LoseDelta(n) \/ Heartbeat(n) \/ Lapse(n)
         \/ ReconcileRead(n) \/ ReconcileWrite(n)
  PROVE  TypeOK'
  <1>0. ASSUME deltas[n] # <<>>
        PROVE  /\ Head(deltas[n]).user \in User /\ Head(deltas[n]).node \in Node
               /\ Tail(deltas[n]) \in Seq(Delta)
    <2>1. Head(deltas[n]) \in Delta /\ Tail(deltas[n]) \in Seq(Delta)
      BY <1>0 DEF TypeOK
    <2> QED
      BY <2>1 DEF Delta
  <1>1. CASE Listen(n)
    <2>1. deltas' \in [Node -> Seq(Delta)]
      BY <1>0, <1>1 DEF Listen, TypeOK
    <2>2. online' \in [Node -> Mirror]
      BY <1>0, <1>1 DEF Listen, TypeOK, Mirror
    <2> QED
      BY <1>1, <2>1, <2>2 DEF Listen, TypeOK, redis, history
  <1>a. CASE LoseDelta(n)
    <2>1. deltas' \in [Node -> Seq(Delta)]
      BY <1>0, <1>a DEF LoseDelta, TypeOK
    <2> QED
      BY <1>a, <2>1 DEF LoseDelta, TypeOK, redis, history
  <1>2. CASE Heartbeat(n)
    BY <1>2 DEF Heartbeat, Register, TypeOK, history
  <1>3. CASE Lapse(n)
    <2>1. faults' \in 0..MaxFaults
      BY <1>3, BoundAssumption DEF Lapse, Fault, TypeOK
    <2> QED
      BY <1>3, <2>1 DEF Lapse, TypeOK
  <1>4. CASE ReconcileRead(n)
    <2>1. ReadMirror(n) \in Mirror /\ Stale(n) \subseteq Node
      BY DEF ReadMirror, Stale, Mirror
    <2>2. rebuilt' \in [Node -> Read]
      BY <1>4, <2>1 DEF ReconcileRead, TypeOK, Read
    <2> QED
      BY <1>4, <2>2 DEF ReconcileRead, TypeOK, redis, history
  <1>5. CASE ReconcileWrite(n)
    <2>1. rebuilt[n].mirror \in Mirror /\ rebuilt[n].stale \subseteq Node
      BY DEF TypeOK, Read
    <2>2. Replaced(n) \in Mirror
      BY <2>1 DEF Replaced, WithLocal, Mirror
    <2>3. rebuilt' \in [Node -> Read]
      BY <1>5 DEF ReconcileWrite, TypeOK, Read, NothingRead, Mirror
    <2>4. astray' \subseteq User
      BY <1>5, <2>1 DEF ReconcileWrite, TypeOK
    <2>5. online' \in [Node -> Mirror]
      BY <1>5, <2>2 DEF ReconcileWrite, TypeOK
    <2>6. registry' \in [Node -> {"fresh", "stale", "gone"}] /\ users' \in [Node -> SUBSET User]
      BY <1>5 DEF ReconcileWrite, TypeOK
    <2> QED
      BY <1>5, <2>3, <2>4, <2>5, <2>6 DEF ReconcileWrite, TypeOK
  <1> QED
    BY <1>1, <1>a, <1>2, <1>3, <1>4, <1>5

\* A node dies, shuts down or starts: the types.
LEMMA NodeTypes ==
  ASSUME TypeOK, NEW n \in Node, Crash(n) \/ Stop(n) \/ Start(n)
  PROVE  TypeOK'
  <1>0. [u \in User |-> {}] \in Mirror /\ NothingRead \in Read
    BY DEF NothingRead, Read, Mirror
  <1>1. ASSUME Fault PROVE faults' \in 0..MaxFaults
    BY <1>1, BoundAssumption DEF Fault, TypeOK
  <1>2. ASSUME Vanish(n)
        PROVE  /\ up' \subseteq Node
               /\ local' \in [Node -> [User -> SUBSET Socket]]
               /\ subs' \in [Node -> SUBSET User]
               /\ lock' \in [Node -> Seq(Socket)]
               /\ pc' \in [Socket -> PC]
               /\ online' \in [Node -> Mirror]
               /\ rebuilt' \in [Node -> Read]
    BY <1>0, <1>2 DEF Vanish, TypeOK, PC
  <1>3. CASE Crash(n)
    <2>1. deltas' \in [Node -> Seq(Delta)]
      BY <1>3 DEF Crash, TypeOK
    <2> QED
      BY <1>1, <1>2, <1>3, <2>1 DEF Crash, TypeOK, redis, PC
  <1>4. CASE Stop(n)
    <2>1. deltas' \in [Node -> Seq(Delta)]
      BY <1>4 DEF Stop, TypeOK
    <2> QED
      BY <1>1, <1>2, <1>4, <2>1 DEF Stop, TypeOK, PC
  <1>5. CASE Start(n)
    <2>1. up' \subseteq Node /\ registry' \in [Node -> {"fresh", "stale", "gone"}]
          /\ users' \in [Node -> SUBSET User] /\ expiring' \subseteq Node
      BY <1>5 DEF Start, TypeOK
    <2>2. online' \in [Node -> Mirror]
      BY <1>5 DEF Start, TypeOK, Mirror
    <2>3. astray' \subseteq User
      BY <1>5 DEF Start, Stale, TypeOK
    <2> QED
      BY <1>5, <2>1, <2>2, <2>3 DEF Start, TypeOK
  <1> QED
    BY <1>3, <1>4, <1>5

LEMMA TypeStep ==
  ASSUME TypeOK, [Next]_vars
  PROVE  TypeOK'
  <1>1. CASE UNCHANGED vars
    BY <1>1 DEF vars, TypeOK
  <1> QED
    BY <1>1, CoroutineTypes, TaskTypes, NodeTypes DEF Next

InLine == {"subscribe", "unsubscribe"}
Held == {"open"} \cup Connecting

\* A coroutine is in the line of its node, once, as long as it is about to subscribe
\* or to unsubscribe.
Queued ==
  /\ \A n \in Node : \A i \in 1..Len(lock[n]) :
       home[lock[n][i]] = n /\ pc[lock[n][i]] \in InLine
  /\ \A n \in Node : \A i, j \in 1..Len(lock[n]) : lock[n][i] = lock[n][j] => i = j
  /\ \A c \in Socket : pc[c] \in InLine =>
       \E i \in 1..Len(lock[home[c]]) : lock[home[c]][i] = c

\* The last one in line on behalf of a user was sent by the step that made the first
\* socket of the user, or removed the last one.
LastInLine(n, u, i) ==
  /\ Owner[lock[n][i]] = u
  /\ \A j \in 1..Len(lock[n]) : Owner[lock[n][j]] = u => j <= i
LastDecides ==
  \A n \in Node, u \in User : \A i \in 1..Len(lock[n]) :
    LastInLine(n, u, i) => (pc[lock[n][i]] = "subscribe" <=> local[n][u] # {})

\* A socket is among those of its node from its connect to its disconnect.
Registered ==
  \A c \in Socket : pc[c] \in Held => c \in local[home[c]][Owner[c]]

\* A node that does not run has no coroutines.
Running == \A c \in Socket : pc[c] \notin {"unused", "closed"} => home[c] \in up

\* Without anybody in line the subscriptions are right, but for commands that failed;
\* also those of a node that does not run.
Listens(n, u) ==
  /\ local[n][u] # {} => u \in subs[n] \/ <<"subscribe", u>> \in refused
  /\ u \in subs[n] => local[n][u] # {} \/ <<"unsubscribe", u>> \in refused
Subscribed == \A n \in Node, u \in User : ~Changing(n, u) => Listens(n, u)

-----------------------------------------------------------------------------
\* The line at _pubsub_lock.

\* What enqueueing does to a line.
LEMMA EnqueueFacts ==
  ASSUME TypeOK, NEW c \in Socket, Enqueue(c)
  PROVE  /\ \A n \in Node : n # home[c] => lock'[n] = lock[n]
         /\ Len(lock[home[c]]) \in Nat
         /\ Len(lock'[home[c]]) = Len(lock[home[c]]) + 1
         /\ \A i \in 1..Len(lock[home[c]]) : lock'[home[c]][i] = lock[home[c]][i]
         /\ lock'[home[c]][Len(lock[home[c]]) + 1] = c
  <1>1. home[c] \in Node /\ lock[home[c]] \in Seq(Socket)
    BY SocketTypes DEF TypeOK
  <1>2. lock' = [lock EXCEPT ![home[c]] = Append(lock[home[c]], c)]
    BY DEF Enqueue
  <1> QED
    BY <1>1, <1>2, AppendProperties, LenProperties DEF TypeOK

\* And what dequeueing does.
LEMMA DequeueFacts ==
  ASSUME TypeOK, NEW c \in Socket, Dequeue(c)
  PROVE  /\ \A n \in Node : n # home[c] => lock'[n] = lock[n]
         /\ Len(lock[home[c]]) \in Nat \ {0}
         /\ lock[home[c]][1] = c
         /\ Len(lock'[home[c]]) = Len(lock[home[c]]) - 1
         /\ \A i \in 1..Len(lock'[home[c]]) : lock'[home[c]][i] = lock[home[c]][i + 1]
  <1>1. home[c] \in Node /\ lock[home[c]] \in Seq(Socket) /\ lock[home[c]] # <<>>
    BY SocketTypes DEF TypeOK, Dequeue
  <1>2. lock' = [lock EXCEPT ![home[c]] = Tail(lock[home[c]])] /\ Head(lock[home[c]]) = c
    BY DEF Dequeue
  <1>3. /\ Len(lock[home[c]]) \in Nat \ {0}
        /\ Len(Tail(lock[home[c]])) = Len(lock[home[c]]) - 1
        /\ \A i \in 1..Len(Tail(lock[home[c]])) :
             Tail(lock[home[c]])[i] = lock[home[c]][i + 1]
        /\ Head(lock[home[c]]) = lock[home[c]][1]
    BY <1>1, HeadTailProperties, LenProperties, EmptySeq
  <1> QED
    BY <1>1, <1>2, <1>3 DEF TypeOK

\* Who is in a line is a socket of its node.
LEMMA LineMembers ==
  ASSUME TypeOK, NEW n \in Node
  PROVE  Len(lock[n]) \in Nat /\ \A i \in 1..Len(lock[n]) : lock[n][i] \in Socket
  BY LenProperties, ElementOfSeq DEF TypeOK

\* A coroutine that is new in line comes last.
LEMMA EnqueueQueued ==
  ASSUME TypeOK, Queued, NEW c \in Socket, pc[c] \notin InLine, NEW p \in InLine,
         pc' = [pc EXCEPT ![c] = p], Enqueue(c), UNCHANGED home
  PROVE  Queued'
  <1> DEFINE m == home[c]
             k == Len(lock[m])
  <1>0. m \in Node /\ pc'[c] = p /\ \A d \in Socket : d # c => pc'[d] = pc[d]
    BY SocketTypes DEF TypeOK
  <1>1. \A i \in 1..k : lock[m][i] # c
    BY <1>0 DEF Queued
  <1>2. ASSUME NEW n \in Node, NEW i \in 1..Len(lock'[n])
        PROVE  home[lock'[n][i]] = n /\ pc'[lock'[n][i]] \in InLine
    <2>1. CASE n = m /\ i = k + 1
      BY <1>0, <2>1, EnqueueFacts
    <2>2. CASE ~(n = m /\ i = k + 1)
      <3>1. i \in 1..Len(lock[n]) /\ lock'[n][i] = lock[n][i]
        BY <1>0, <2>2, EnqueueFacts
      <3> QED
        BY <1>0, <1>1, <3>1, LineMembers DEF Queued
    <2> QED
      BY <2>1, <2>2
  <1>3. ASSUME NEW n \in Node, NEW i \in 1..Len(lock'[n]), NEW j \in 1..Len(lock'[n]),
               lock'[n][i] = lock'[n][j]
        PROVE  i = j
    <2>1. CASE n # m
      BY <1>3, <2>1, EnqueueFacts DEF Queued
    <2>2. CASE n = m
      <3>1. \A h \in 1..Len(lock'[n]) :
              \/ h = k + 1 /\ lock'[n][h] = c
              \/ h \in 1..k /\ lock'[n][h] = lock[n][h] /\ lock[n][h] # c
        <4>1. /\ k \in Nat /\ Len(lock'[n]) = k + 1 /\ lock'[n][k + 1] = c
              /\ \A h \in 1..k : lock'[n][h] = lock[n][h] /\ lock[n][h] # c
          BY <1>1, <2>2, EnqueueFacts
        <4> HIDE DEF k
        <4> QED
          BY <4>1
      <3>2. CASE i \in 1..k /\ j \in 1..k
        BY <1>3, <2>2, <3>1, <3>2 DEF Queued
      <3>3. CASE i = k + 1 \/ j = k + 1
        BY <1>3, <3>1, <3>3
      <3> QED
        BY <3>1, <3>2, <3>3
    <2> QED
      BY <2>1, <2>2
  <1>4. ASSUME NEW d \in Socket, pc'[d] \in InLine
        PROVE  \E i \in 1..Len(lock'[home[d]]) : lock'[home[d]][i] = d
    <2>1. CASE d = c
      BY <2>1, EnqueueFacts
    <2>2. CASE d # c
      <3>1. PICK i \in 1..Len(lock[home[d]]) : lock[home[d]][i] = d
        BY <1>0, <1>4, <2>2 DEF Queued
      <3>2. i \in 1..Len(lock'[home[d]]) /\ lock'[home[d]][i] = d
        BY <3>1, EnqueueFacts, SocketTypes
      <3> QED
        BY <3>2
    <2> QED
      BY <2>1, <2>2
  <1> QED
    BY <1>2, <1>3, <1>4 DEF Queued

\* The one whose turn it is leaves the line.
LEMMA DequeueQueued ==
  ASSUME TypeOK, Queued, NEW c \in Socket, NEW p \in PC \ InLine,
         pc' = [pc EXCEPT ![c] = p], Dequeue(c), UNCHANGED home
  PROVE  Queued'
  <1> DEFINE m == home[c]
  <1>0. m \in Node /\ pc'[c] = p /\ \A d \in Socket : d # c => pc'[d] = pc[d]
    BY SocketTypes DEF TypeOK
  <1>1. ASSUME NEW i \in 1..Len(lock'[m])
        PROVE  /\ i + 1 \in 1..Len(lock[m]) /\ lock'[m][i] = lock[m][i + 1]
               /\ lock[m][i + 1] # c
    <2>1. 1 \in 1..Len(lock[m]) /\ i + 1 \in 1..Len(lock[m]) /\ i + 1 # 1
          /\ lock'[m][i] = lock[m][i + 1] /\ lock[m][1] = c
      BY DequeueFacts
    <2> QED
      BY <1>0, <2>1 DEF Queued
  <1>2. ASSUME NEW n \in Node, NEW i \in 1..Len(lock'[n])
        PROVE  home[lock'[n][i]] = n /\ pc'[lock'[n][i]] \in InLine
    <2>1. CASE n = m
      BY <1>0, <1>1, <2>1, LineMembers DEF Queued
    <2>2. CASE n # m
      <3>1. i \in 1..Len(lock[n]) /\ lock'[n][i] = lock[n][i]
        BY <2>2, DequeueFacts
      <3>2. lock[n][i] # c
        BY <2>2, <3>1 DEF Queued
      <3> QED
        BY <1>0, <3>1, <3>2, LineMembers DEF Queued
    <2> QED
      BY <2>1, <2>2
  <1>3. ASSUME NEW n \in Node, NEW i \in 1..Len(lock'[n]), NEW j \in 1..Len(lock'[n]),
               lock'[n][i] = lock'[n][j]
        PROVE  i = j
    <2>1. CASE n # m
      BY <1>3, <2>1, DequeueFacts DEF Queued
    <2>2. CASE n = m
      <3>1. i + 1 = j + 1
        BY <1>0, <1>1, <1>3, <2>2 DEF Queued
      <3> QED
        BY <3>1, <2>2, DequeueFacts
    <2> QED
      BY <2>1, <2>2
  <1>4. ASSUME NEW d \in Socket, pc'[d] \in InLine
        PROVE  \E i \in 1..Len(lock'[home[d]]) : lock'[home[d]][i] = d
    <2>1. d # c
      BY <1>0, <1>4
    <2>2. PICK i \in 1..Len(lock[home[d]]) : lock[home[d]][i] = d
      BY <1>0, <1>4, <2>1 DEF Queued
    <2>3. CASE home[d] = m
      <3>1. i # 1
        BY <2>1, <2>2, <2>3, DequeueFacts
      <3>2. i - 1 \in 1..Len(lock'[m]) /\ lock'[m][i - 1] = lock[m][i]
        <4>1. i - 1 \in 1..Len(lock'[m])
          <5>1. Len(lock[m]) \in Nat /\ Len(lock'[m]) = Len(lock[m]) - 1
                /\ i \in 1..Len(lock[m])
            BY <2>2, <2>3, DequeueFacts
          <5> HIDE DEF m
          <5> QED
            BY <3>1, <5>1
        <4>2. (i - 1) + 1 = i
          OBVIOUS
        <4> QED
          BY <4>1, <4>2, DequeueFacts
      <3> QED
        BY <2>2, <2>3, <3>2
    <2>4. CASE home[d] # m
      BY <2>2, <2>4, DequeueFacts, SocketTypes
    <2> QED
      BY <2>3, <2>4
  <1> QED
    BY <1>2, <1>3, <1>4 DEF Queued

\* Whoever joins the line does so as the first socket of a user comes, or the last goes.
LEMMA EnqueueDecides ==
  ASSUME TypeOK, Queued, LastDecides, NEW c \in Socket, pc[c] \notin InLine,
         NEW p \in InLine, pc' = [pc EXCEPT ![c] = p], Enqueue(c),
         \A n \in Node, u \in User :
           n # home[c] \/ u # Owner[c] => local'[n][u] = local[n][u],
         p = "subscribe" <=> local'[home[c]][Owner[c]] # {}
  PROVE  LastDecides'
  <1> DEFINE m == home[c]
             k == Len(lock[m])
  <1>0. m \in Node /\ pc'[c] = p /\ \A d \in Socket : d # c => pc'[d] = pc[d]
    BY SocketTypes DEF TypeOK
  <1> SUFFICES ASSUME NEW n \in Node, NEW u \in User, NEW i \in 1..Len(lock'[n]),
                      LastInLine(n, u, i)'
               PROVE  (pc[lock[n][i]] = "subscribe")' <=> (local[n][u] # {})'
    BY DEF LastDecides
  <1>1. Owner[lock'[n][i]] = u
    BY DEF LastInLine
  <1>2. CASE n = m /\ u = Owner[c]
    <2>1. /\ k \in Nat /\ Len(lock'[n]) = k + 1 /\ lock'[n][k + 1] = c
      BY <1>2, EnqueueFacts
    <2>2. k + 1 <= i
      BY <1>2, <2>1 DEF LastInLine
    <2>3. i = k + 1
      <3> HIDE DEF k
      <3> QED
        BY <2>1, <2>2
    <2> QED
      BY <1>0, <1>2, <2>1, <2>3
  <1>3. CASE ~(n = m /\ u = Owner[c])
    <2>1. i \in 1..Len(lock[n]) /\ lock'[n][i] = lock[n][i]
      <3>1. CASE n # m
        BY <3>1, EnqueueFacts
      <3>2. CASE n = m
        <4>1. /\ k \in Nat /\ Len(lock'[n]) = k + 1 /\ lock'[n][k + 1] = c
              /\ \A h \in 1..k : lock'[n][h] = lock[n][h]
          BY <3>2, EnqueueFacts
        <4>2. i # k + 1
          BY <1>1, <1>3, <3>2, <4>1
        <4> HIDE DEF k
        <4>3. i \in 1..k
          BY <4>1, <4>2
        <4> QED
          BY <3>2, <4>1, <4>3 DEF k
      <3> QED
        BY <3>1, <3>2
    <2>2. lock[n][i] \in Socket /\ lock[n][i] # c
      BY <2>1, LineMembers DEF Queued
    <2>3. LastInLine(n, u, i)
      <3>1. ASSUME NEW j \in 1..Len(lock[n]), Owner[lock[n][j]] = u PROVE j <= i
        <4>1. j \in 1..Len(lock'[n]) /\ lock'[n][j] = lock[n][j]
          <5>1. CASE n # m
            BY <5>1, EnqueueFacts
          <5>2. CASE n = m
            BY <5>2, EnqueueFacts
          <5> QED
            BY <5>1, <5>2
        <4> QED
          BY <3>1, <4>1 DEF LastInLine
      <3> QED
        BY <1>1, <2>1, <3>1 DEF LastInLine
    <2>4. pc[lock[n][i]] = "subscribe" <=> local[n][u] # {}
      BY <2>1, <2>3 DEF LastDecides
    <2> QED
      BY <1>0, <1>3, <2>1, <2>2, <2>4
  <1> QED
    BY <1>2, <1>3

\* Who is last stays so when the first one leaves.
LEMMA DequeueDecides ==
  ASSUME TypeOK, Queued, LastDecides, NEW c \in Socket, NEW p,
         pc' = [pc EXCEPT ![c] = p], Dequeue(c), UNCHANGED local
  PROVE  LastDecides'
  <1> DEFINE m == home[c]
  <1>0. m \in Node /\ \A d \in Socket : d # c => pc'[d] = pc[d]
    BY SocketTypes DEF TypeOK
  <1> SUFFICES ASSUME NEW n \in Node, NEW u \in User, NEW i \in 1..Len(lock'[n]),
                      LastInLine(n, u, i)'
               PROVE  (pc[lock[n][i]] = "subscribe")' <=> (local[n][u] # {})'
    BY DEF LastDecides
  <1>1. CASE n # m
    <2>1. lock'[n] = lock[n]
      BY <1>1, DequeueFacts
    <2>2. LastInLine(n, u, i)
      BY <2>1 DEF LastInLine
    <2>3. lock[n][i] \in Socket /\ lock[n][i] # c
      BY <1>1, <2>1, LineMembers DEF Queued
    <2> QED
      BY <1>0, <2>1, <2>2, <2>3 DEF LastDecides
  <1>2. CASE n = m
    <2>1. /\ i + 1 \in 1..Len(lock[n]) /\ i + 1 # 1 /\ lock'[n][i] = lock[n][i + 1]
          /\ 1 \in 1..Len(lock[n]) /\ lock[n][1] = c
      BY <1>2, DequeueFacts
    <2>2. lock[n][i + 1] \in Socket /\ lock[n][i + 1] # c
      BY <2>1, LineMembers DEF Queued
    <2>3. LastInLine(n, u, i + 1)
      <3>1. ASSUME NEW j \in 1..Len(lock[n]), Owner[lock[n][j]] = u PROVE j <= i + 1
        <4>1. CASE j = 1
          BY <4>1
        <4>2. CASE j # 1
          <5>1. Len(lock[n]) \in Nat /\ Len(lock'[n]) = Len(lock[n]) - 1
            BY <1>2, DequeueFacts
          <5>2. j - 1 \in 1..Len(lock'[n]) /\ (j - 1) + 1 = j
            BY <4>2, <5>1
          <5>3. lock'[n][j - 1] = lock[n][j]
            BY <1>2, <5>2, DequeueFacts
          <5>4. j - 1 <= i
            BY <3>1, <5>2, <5>3 DEF LastInLine
          <5> QED
            BY <5>4
        <4> QED
          BY <4>1, <4>2
      <3>2. Owner[lock[n][i + 1]] = u
        BY <2>1 DEF LastInLine
      <3> QED
        BY <3>1, <3>2 DEF LastInLine
    <2>4. pc[lock[n][i + 1]] = "subscribe" <=> local[n][u] # {}
      BY <2>1, <2>3 DEF LastDecides
    <2> QED
      BY <1>0, <2>1, <2>2, <2>4
  <1> QED
    BY <1>1, <1>2

\* If nobody else of a user is in line, who is first for the user is also last.
LEMMA AloneDecides ==
  ASSUME TypeOK, Queued, LastDecides, NEW c \in Socket, Dequeue(c), pc[c] \in InLine,
         \A d \in Socket :
           d # c /\ home[d] = home[c] /\ Owner[d] = Owner[c] => pc[d] \notin InLine
  PROVE  pc[c] = "subscribe" <=> local[home[c]][Owner[c]] # {}
  <1>1. home[c] \in Node /\ Owner[c] \in User
    BY SocketTypes
  <1>2. 1 \in 1..Len(lock[home[c]]) /\ lock[home[c]][1] = c
    BY DequeueFacts
  <1>3. ASSUME NEW j \in 1..Len(lock[home[c]]), Owner[lock[home[c]][j]] = Owner[c]
        PROVE  j <= 1
    <2>1. lock[home[c]][j] = c
      BY <1>1, <1>3, LineMembers DEF Queued
    <2>2. j = 1
      BY <1>1, <1>2, <2>1 DEF Queued
    <2> QED
      BY <2>2
  <1>4. LastInLine(home[c], Owner[c], 1)
    BY <1>2, <1>3 DEF LastInLine
  <1> QED
    BY <1>1, <1>2, <1>4 DEF LastDecides

-----------------------------------------------------------------------------
\* Lines and subscriptions, step by step.

Lines == Queued /\ LastDecides /\ Subscribed

\* Nothing moves in a line, and no user gets a first socket or loses the last.
LEMMA AsideLines ==
  ASSUME TypeOK, Lines, UNCHANGED <<home, lock, subs>>,
         \A d \in Socket : pc'[d] = pc[d] \/ (pc[d] \notin InLine /\ pc'[d] \notin InLine),
         \A n \in Node, u \in User : local'[n][u] # {} <=> local[n][u] # {},
         refused \subseteq refused'
  PROVE  Lines'
  <1>1. \A n \in Node : \A i \in 1..Len(lock[n]) : pc'[lock[n][i]] = pc[lock[n][i]]
    BY LineMembers DEF Lines, Queued
  <1>2. Queued'
    BY <1>1 DEF Lines, Queued
  <1>3. LastDecides'
    BY <1>1 DEF Lines, LastDecides, LastInLine
  <1>4. \A n \in Node, u \in User : Changing(n, u)' <=> Changing(n, u)
    BY DEF Changing, InLine
  <1>5. Subscribed'
    BY <1>4 DEF Lines, Subscribed, Listens
  <1> QED
    BY <1>2, <1>3, <1>5 DEF Lines

\* A coroutine that moves is of its own node and user only.
LEMMA ChangingElsewhere ==
  ASSUME TypeOK, NEW c \in Socket, NEW p, pc' = [pc EXCEPT ![c] = p], UNCHANGED home,
         NEW n \in Node, NEW u \in User, n # home[c] \/ u # Owner[c]
  PROVE  Changing(n, u)' <=> Changing(n, u)
  BY DEF TypeOK, Changing

LEMMA ConnectLines ==
  ASSUME TypeOK, Lines, NEW c \in Socket, Connect(c)
  PROVE  Lines'
  <1> DEFINE m == home[c]
             w == Owner[c]
  <1>0. m \in Node /\ w \in User
    BY SocketTypes
  <1>1. local'[m][w] = local[m][w] \cup {c}
        /\ \A n \in Node, u \in User : n # m \/ u # w => local'[n][u] = local[n][u]
    BY <1>0 DEF Connect, TypeOK
  <1>2. CASE local[m][w] = {}
    <2>1. /\ pc[c] = "unused" /\ pc' = [pc EXCEPT ![c] = "subscribe"]
          /\ Enqueue(c) /\ UNCHANGED <<home, subs, refused>>
      BY <1>2 DEF Connect, Goto, history
    <2>2. Queued'
      BY <2>1, EnqueueQueued DEF Lines, InLine
    <2>3. LastDecides'
      BY <1>1, <2>1, EnqueueDecides DEF Lines, InLine
    <2>4. Subscribed'
      <3>1. ASSUME NEW n \in Node, NEW u \in User, ~Changing(n, u)'
            PROVE  Listens(n, u)'
        <4>1. n # m \/ u # w
          BY <2>1, <3>1 DEF Changing, TypeOK
        <4>2. ~Changing(n, u)
          BY <2>1, <3>1, <4>1 DEF Changing, TypeOK
        <4> QED
          BY <1>1, <2>1, <4>1, <4>2 DEF Subscribed, Lines, Listens
      <3> QED
        BY <3>1 DEF Subscribed
    <2> QED
      BY <2>2, <2>3, <2>4 DEF Lines
  <1>3. CASE local[m][w] # {}
    <2>1. /\ pc[c] = "unused" /\ pc' = [pc EXCEPT ![c] = "open"]
          /\ UNCHANGED <<home, lock, subs, refused>>
      BY <1>3 DEF Connect, Goto, history
    <2>2. \A d \in Socket : pc'[d] = pc[d] \/ (pc[d] \notin InLine /\ pc'[d] \notin InLine)
      BY <2>1 DEF TypeOK, InLine
    <2>3. \A n \in Node, u \in User : local'[n][u] # {} <=> local[n][u] # {}
      BY <1>1, <1>3
    <2> QED
      BY <2>1, <2>2, <2>3, AsideLines
  <1> QED
    BY <1>2, <1>3

LEMMA DisconnectLines ==
  ASSUME TypeOK, Lines, Registered, NEW c \in Socket, Disconnect(c)
  PROVE  Lines'
  <1> DEFINE m == home[c]
             w == Owner[c]
  <1>0. m \in Node /\ w \in User
    BY SocketTypes
  <1>1. local'[m][w] = local[m][w] \ {c}
        /\ \A n \in Node, u \in User : n # m \/ u # w => local'[n][u] = local[n][u]
    BY <1>0 DEF Disconnect, TypeOK
  <1>2. CASE local[m][w] = {c}
    <2>1. /\ pc[c] = "open" /\ pc' = [pc EXCEPT ![c] = "unsubscribe"]
          /\ Enqueue(c) /\ UNCHANGED <<home, subs, refused>>
      BY <1>2 DEF Disconnect, Goto, history
    <2>2. Queued'
      BY <2>1, EnqueueQueued DEF Lines, InLine
    <2>3. LastDecides'
      BY <1>1, <1>2, <2>1, EnqueueDecides DEF Lines, InLine
    <2>4. Subscribed'
      <3>1. ASSUME NEW n \in Node, NEW u \in User, ~Changing(n, u)'
            PROVE  Listens(n, u)'
        <4>1. n # m \/ u # w
          BY <2>1, <3>1 DEF Changing, TypeOK
        <4>2. ~Changing(n, u)
          BY <2>1, <3>1, <4>1 DEF Changing, TypeOK
        <4> QED
          BY <1>1, <2>1, <4>1, <4>2 DEF Subscribed, Lines, Listens
      <3> QED
        BY <3>1 DEF Subscribed
    <2> QED
      BY <2>2, <2>3, <2>4 DEF Lines
  <1>3. CASE local[m][w] # {c}
    <2>1. /\ pc[c] = "open" /\ pc' = [pc EXCEPT ![c] = "closed"]
          /\ UNCHANGED <<home, lock, subs, refused>>
      BY <1>3 DEF Disconnect, Goto, history
    <2>2. \A d \in Socket : pc'[d] = pc[d] \/ (pc[d] \notin InLine /\ pc'[d] \notin InLine)
      BY <2>1 DEF TypeOK, InLine
    <2>3. c \in local[m][w]
      BY <2>1 DEF Registered, Held
    <2>4. \A n \in Node, u \in User : local'[n][u] # {} <=> local[n][u] # {}
      BY <1>1, <1>3, <2>3
    <2> QED
      BY <2>1, <2>2, <2>4, AsideLines
  <1> QED
    BY <1>2, <1>3

\* SUBSCRIBE and UNSUBSCRIBE: if nobody else of the user is in line, it is what the
\* sockets of the user ask for; or it has failed, and that is known.
LEMMA SubscribeLines ==
  ASSUME TypeOK, Lines, NEW c \in Socket,
         \/ Subscribe(c) \/ Unsubscribe(c)
         \/ (ConnectFails(c) \/ DisconnectFails(c)) /\ pc[c] \in InLine
  PROVE  Lines'
  <1> DEFINE m == home[c]
             w == Owner[c]
             p == pc'[c]
  <1>0. m \in Node /\ w \in User
    BY SocketTypes
  <1>1. /\ pc[c] \in InLine /\ pc' = [pc EXCEPT ![c] = p] /\ p \in PC \ InLine
        /\ Dequeue(c) /\ UNCHANGED <<home, local>>
        /\ \A n \in Node, u \in User : n # m \/ u # w => (u \in subs'[n] <=> u \in subs[n])
        /\ refused \subseteq refused'
        /\ pc[c] = "subscribe" => w \in subs'[m] \/ <<"subscribe", w>> \in refused'
        /\ pc[c] = "unsubscribe" => w \notin subs'[m] \/ <<"unsubscribe", w>> \in refused'
    <2>1. CASE Subscribe(c)
      BY <1>0, <2>1 DEF Subscribe, Goto, InLine, PC, Connecting, TypeOK, history
    <2>2. CASE Unsubscribe(c)
      BY <1>0, <2>2 DEF Unsubscribe, Goto, InLine, PC, Leaving, TypeOK, history
    <2>3. CASE ConnectFails(c) /\ pc[c] \in InLine
      BY <1>0, <2>3 DEF ConnectFails, Goto, InLine, PC, TypeOK
    <2>4. CASE DisconnectFails(c) /\ pc[c] \in InLine
      BY <1>0, <2>4 DEF DisconnectFails, Goto, InLine, PC, Leaving, TypeOK
    <2> QED
      BY <2>1, <2>2, <2>3, <2>4
  <1> HIDE DEF p
  <1>2. Queued'
    BY <1>1, DequeueQueued DEF Lines
  <1>3. LastDecides'
    BY <1>1, DequeueDecides DEF Lines
  <1>4. Subscribed'
    <2> SUFFICES ASSUME NEW n \in Node, NEW u \in User, ~Changing(n, u)'
                 PROVE  Listens(n, u)'
      BY DEF Subscribed
    <2>1. CASE n = m /\ u = w
      <3>1. \A d \in Socket : d # c /\ home[d] = m /\ Owner[d] = w => pc[d] \notin InLine
        BY <1>1, <2>1 DEF Changing, InLine, TypeOK
      <3>2. pc[c] = "subscribe" <=> local[m][w] # {}
        BY <1>1, <3>1, AloneDecides DEF Lines
      <3> QED
        BY <1>1, <2>1, <3>2 DEF Listens, InLine
    <2>2. CASE ~(n = m /\ u = w)
      BY <1>1, <2>2, ChangingElsewhere DEF Lines, Subscribed, Listens
    <2> QED
      BY <2>1, <2>2
  <1> QED
    BY <1>2, <1>3, <1>4 DEF Lines

\* A node that is gone has no lines, no sockets and no subscriptions.
LEMMA VanishLines ==
  ASSUME TypeOK, Lines, NEW m \in Node, Vanish(m), UNCHANGED <<home, refused>>
  PROVE  Lines'
  <1>1. /\ lock' = [lock EXCEPT ![m] = <<>>]
        /\ subs' = [subs EXCEPT ![m] = {}]
        /\ local' = [local EXCEPT ![m] = [u \in User |-> {}]]
        /\ pc' = [c \in Socket |-> IF home[c] = m /\ pc[c] # "unused" THEN "closed" ELSE pc[c]]
    BY DEF Vanish
  <1>2. /\ lock'[m] = <<>> /\ subs'[m] = {} /\ \A u \in User : local'[m][u] = {}
        /\ \A n \in Node : n # m =>
             lock'[n] = lock[n] /\ subs'[n] = subs[n] /\ local'[n] = local[n]
    BY <1>1 DEF TypeOK
  <1>3. \A c \in Socket :
          /\ home[c] # m => pc'[c] = pc[c]
          /\ home[c] = m => pc'[c] \notin InLine
    BY <1>1 DEF InLine
  <1>4. \A n \in Node : \A i \in 1..Len(lock'[n]) :
          n # m /\ i \in 1..Len(lock[n]) /\ lock'[n][i] = lock[n][i]
          /\ pc'[lock'[n][i]] = pc[lock[n][i]]
    <2> SUFFICES ASSUME NEW n \in Node, NEW i \in 1..Len(lock'[n])
                 PROVE  n # m /\ i \in 1..Len(lock[n]) /\ lock'[n][i] = lock[n][i]
                        /\ pc'[lock'[n][i]] = pc[lock[n][i]]
      OBVIOUS
    <2>1. n # m
      BY <1>2, EmptySeq
    <2>2. i \in 1..Len(lock[n]) /\ lock'[n][i] = lock[n][i]
      BY <1>2, <2>1
    <2> QED
      BY <1>3, <2>1, <2>2, LineMembers DEF Lines, Queued
  <1>5. Queued'
    <2>1. \A n \in Node : \A i \in 1..Len(lock'[n]) :
            home[lock'[n][i]] = n /\ pc'[lock'[n][i]] \in InLine
      BY <1>4 DEF Lines, Queued
    <2>2. \A n \in Node : \A i, j \in 1..Len(lock'[n]) : lock'[n][i] = lock'[n][j] => i = j
      BY <1>4 DEF Lines, Queued
    <2>3. ASSUME NEW c \in Socket, pc'[c] \in InLine
          PROVE  \E i \in 1..Len(lock'[home[c]]) : lock'[home[c]][i] = c
      BY <1>2, <1>3, <2>3, SocketTypes DEF Lines, Queued
    <2> QED
      BY <2>1, <2>2, <2>3 DEF Queued
  <1>6. LastDecides'
    <2> SUFFICES ASSUME NEW n \in Node, NEW u \in User, NEW i \in 1..Len(lock'[n]),
                        LastInLine(n, u, i)'
                 PROVE  (pc[lock[n][i]] = "subscribe")' <=> (local[n][u] # {})'
      BY DEF LastDecides
    <2>1. n # m /\ lock'[n] = lock[n]
      BY <1>2, <1>4
    <2>2. LastInLine(n, u, i)
      BY <2>1 DEF LastInLine
    <2> QED
      BY <1>2, <1>4, <2>1, <2>2 DEF Lines, LastDecides
  <1>7. Subscribed'
    <2> SUFFICES ASSUME NEW n \in Node, NEW u \in User, ~Changing(n, u)'
                 PROVE  Listens(n, u)'
      BY DEF Subscribed
    <2>1. CASE n = m
      BY <1>2, <2>1 DEF Listens
    <2>2. CASE n # m
      <3>1. ~Changing(n, u)
        BY <1>3, <2>2 DEF Changing
      <3> QED
        BY <1>2, <2>2, <3>1 DEF Lines, Subscribed, Listens
    <2> QED
      BY <2>1, <2>2
  <1> QED
    BY <1>5, <1>6, <1>7 DEF Lines

LEMMA LinesStep ==
  ASSUME TypeOK, Lines, Registered, [Next]_vars
  PROVE  Lines'
  <1>a. ASSUME NEW c \in Socket, ConnectFails(c) \/ DisconnectFails(c), pc[c] \notin InLine
        PROVE  Lines'
    <2>1. UNCHANGED <<home, lock, subs, local, refused>>
      BY <1>a DEF ConnectFails, DisconnectFails, Goto, InLine
    <2>2. PICK from \in PC \ InLine, to \in PC \ InLine : Goto(c, from, to)
      BY <1>a DEF ConnectFails, DisconnectFails, Goto, PC, InLine, Connecting, Leaving
    <2>3. \A d \in Socket : pc'[d] = pc[d] \/ (pc[d] \notin InLine /\ pc'[d] \notin InLine)
      BY <2>2 DEF Goto, TypeOK
    <2> QED
      BY <2>1, <2>3, AsideLines
  <1>1. ASSUME NEW c \in Socket, SAdd(c) \/ ConnectRegister(c) \/ Announce(c) \/ SRem(c) \/ Withdraw(c)
        PROVE  Lines'
    <2>1. UNCHANGED <<home, lock, subs, local, refused>>
      BY <1>1 DEF SAdd, ConnectRegister, Announce, SRem, Withdraw, history
    <2>2. PICK from \in PC \ InLine, to \in PC \ InLine : Goto(c, from, to)
      BY <1>1 DEF SAdd, ConnectRegister, Announce, SRem, Withdraw,
                  PC, InLine, Connecting, Leaving
    <2>3. \A d \in Socket : pc'[d] = pc[d] \/ (pc[d] \notin InLine /\ pc'[d] \notin InLine)
      BY <2>2 DEF Goto, TypeOK
    <2> QED
      BY <2>1, <2>3, AsideLines
  <1>2. ASSUME NEW n \in Node,
               \/ Listen(n) \/ LoseDelta(n) \/ Heartbeat(n) \/ Lapse(n)
               \/ ReconcileRead(n) \/ ReconcileWrite(n) \/ Start(n)
        PROVE  Lines'
    <2>1. UNCHANGED <<home, lock, subs, local, pc, refused>>
      BY <1>2 DEF Listen, LoseDelta, Heartbeat, Lapse, ReconcileRead, ReconcileWrite, Start, history
    <2> QED
      BY <2>1, AsideLines
  <1>3. ASSUME NEW n \in Node, Crash(n) \/ Stop(n)
        PROVE  Lines'
    BY <1>3, VanishLines DEF Crash, Stop
  <1>4. CASE UNCHANGED vars
    BY <1>4, AsideLines DEF vars
  <1> QED
    BY <1>a, <1>1, <1>2, <1>3, <1>4, ConnectLines, DisconnectLines, SubscribeLines DEF Next, Step

-----------------------------------------------------------------------------
\* Coroutines and the sockets of a node.

\* A node that does not run holds no sockets.
Down == \A n \in Node \ up, u \in User : local[n][u] = {}

Alive == Registered /\ Running /\ Down

\* A coroutine goes on, or nothing moves at all.
LEMMA AsideAlive ==
  ASSUME TypeOK, Alive, UNCHANGED <<home, local>>, up \subseteq up',
         \A d \in Socket :
           \/ pc'[d] = pc[d]
           \/ pc[d] \notin {"unused", "closed"} /\ (pc'[d] \in Held => pc[d] \in Held)
  PROVE  Alive'
  BY DEF Alive, Registered, Running, Down

LEMMA ConnectAlive ==
  ASSUME TypeOK, Alive, NEW c \in Socket, Connect(c)
  PROVE  Alive'
  <1> DEFINE m == home[c]
             w == Owner[c]
  <1>0. m \in Node /\ w \in User
    BY SocketTypes
  <1>1. /\ local'[m][w] = local[m][w] \cup {c}
        /\ \A n \in Node, u \in User : n # m \/ u # w => local'[n][u] = local[n][u]
        /\ \A d \in Socket : d # c => pc'[d] = pc[d]
        /\ m \in up /\ UNCHANGED <<home, up>>
    BY <1>0 DEF Connect, Goto, TypeOK
  <1>2. Registered'
    BY <1>0, <1>1, SocketTypes DEF Alive, Registered
  <1>3. Running'
    BY <1>1 DEF Alive, Running
  <1>4. Down'
    BY <1>1 DEF Alive, Down
  <1> QED
    BY <1>2, <1>3, <1>4 DEF Alive

LEMMA DisconnectAlive ==
  ASSUME TypeOK, Alive, NEW c \in Socket, Disconnect(c)
  PROVE  Alive'
  <1> DEFINE m == home[c]
             w == Owner[c]
  <1>0. m \in Node /\ w \in User
    BY SocketTypes
  <1>1. /\ \A n \in Node, u \in User :
             local'[n][u] = IF n = m /\ u = w THEN local[n][u] \ {c} ELSE local[n][u]
        /\ \A d \in Socket : d # c => pc'[d] = pc[d]
        /\ pc[c] = "open" /\ pc'[c] \notin Held /\ UNCHANGED <<home, up>>
    BY <1>0 DEF Disconnect, Goto, TypeOK, Held, Connecting
  <1>2. Registered'
    BY <1>1, SocketTypes DEF Alive, Registered
  <1>3. Running'
    BY <1>1 DEF Alive, Running
  <1>4. Down'
    <2>1. \A n \in Node, u \in User : local'[n][u] \subseteq local[n][u]
      BY <1>1
    <2> QED
      BY <1>1, <2>1 DEF Alive, Down
  <1> QED
    BY <1>2, <1>3, <1>4 DEF Alive

LEMMA VanishAlive ==
  ASSUME TypeOK, Alive, NEW m \in Node, Vanish(m), UNCHANGED home
  PROVE  Alive'
  <1>1. /\ \A u \in User : local'[m][u] = {}
        /\ \A n \in Node : n # m => local'[n] = local[n]
        /\ \A d \in Socket : home[d] # m => pc'[d] = pc[d]
        /\ \A d \in Socket : home[d] = m => pc'[d] \in {"unused", "closed"}
        /\ up' = up \ {m}
    BY DEF Vanish, TypeOK
  <1>2. Registered'
    BY <1>1, SocketTypes DEF Alive, Registered, Held, Connecting
  <1>3. Running'
    BY <1>1 DEF Alive, Running
  <1>4. Down'
    BY <1>1 DEF Alive, Down
  <1> QED
    BY <1>2, <1>3, <1>4 DEF Alive

LEMMA AliveStep ==
  ASSUME TypeOK, Alive, [Next]_vars
  PROVE  Alive'
  <1>1. ASSUME NEW c \in Socket, Step(c)
        PROVE  Alive'
    <2>1. UNCHANGED <<home, local, up>>
      BY <1>1 DEF Step, Subscribe, SAdd, ConnectRegister, Announce, Unsubscribe, SRem, Withdraw
    <2>2. PICK from \in Connecting \cup Leaving, to \in PC :
            Goto(c, from, to) /\ (to \in Held => from \in Held)
      <3>1. CASE Subscribe(c) \/ SAdd(c) \/ ConnectRegister(c) \/ Announce(c)
        BY <3>1 DEF Subscribe, SAdd, ConnectRegister, Announce, Connecting, Held, PC
      <3>2. CASE Unsubscribe(c) \/ SRem(c) \/ Withdraw(c)
        BY <3>2 DEF Unsubscribe, SRem, Withdraw, Leaving, Connecting, Held, PC
      <3> QED
        BY <1>1, <3>1, <3>2 DEF Step
    <2>3. \A d \in Socket :
            \/ pc'[d] = pc[d]
            \/ pc[d] \notin {"unused", "closed"} /\ (pc'[d] \in Held => pc[d] \in Held)
      BY <2>2 DEF Goto, TypeOK, Connecting, Leaving
    <2> QED
      BY <2>1, <2>3, AsideAlive
  <1>2. ASSUME NEW n \in Node,
               \/ Listen(n) \/ LoseDelta(n) \/ Heartbeat(n) \/ Lapse(n)
               \/ ReconcileRead(n) \/ ReconcileWrite(n) \/ Start(n)
        PROVE  Alive'
    <2>1. UNCHANGED <<home, local, pc>> /\ up \subseteq up'
      BY <1>2 DEF Listen, LoseDelta, Heartbeat, Lapse, ReconcileRead, ReconcileWrite, Start
    <2> QED
      BY <2>1, AsideAlive
  <1>3. ASSUME NEW n \in Node, Crash(n) \/ Stop(n)
        PROVE  Alive'
    BY <1>3, VanishAlive DEF Crash, Stop
  <1>4. CASE UNCHANGED vars
    BY <1>4, AsideAlive DEF vars
  <1>5. ASSUME NEW c \in Socket, ConnectFails(c) \/ DisconnectFails(c)
        PROVE  Alive'
    <2>1. UNCHANGED <<home, local, up>>
      BY <1>5 DEF ConnectFails, DisconnectFails
    <2>2. PICK from \in Connecting \cup Leaving, to \in PC :
            Goto(c, from, to) /\ (to \in Held => from \in Held)
      BY <1>5 DEF ConnectFails, DisconnectFails, Connecting, Leaving, Held, PC
    <2>3. \A d \in Socket :
            \/ pc'[d] = pc[d]
            \/ pc[d] \notin {"unused", "closed"} /\ (pc'[d] \in Held => pc[d] \in Held)
      BY <2>2 DEF Goto, TypeOK, Connecting, Leaving
    <2> QED
      BY <2>1, <2>3, AsideAlive
  <1> QED
    BY <1>1, <1>2, <1>3, <1>4, <1>5, ConnectAlive, DisconnectAlive DEF Next
-----------------------------------------------------------------------------
\* The sets of users in Redis.

\* A user in the set of a node either has a socket there, or somebody is about to take
\* the user out; a user who has a socket is in the set, or somebody is about to add
\* the user. Those about whom the set has gone wrong are left out.
Parting(n, u) ==
  \E c \in Socket : home[c] = n /\ Owner[c] = u /\ pc[c] \in {"unsubscribe", "srem"}
SetsKept ==
  \A n \in up, u \in User \ astray :
    /\ u \in users[n] => local[n][u] # {} \/ Parting(n, u)
    /\ local[n][u] # {} => u \in users[n] \/ Joining(n, u)

\* No coroutine joins or parts, no user gets a first socket or loses the last, and
\* the sets lose only those who are gone astray.
LEMMA AsideSets ==
  ASSUME TypeOK, SetsKept, UNCHANGED <<home, local>>, up' \subseteq up, astray \subseteq astray',
         \A d \in Socket :
           /\ pc[d] \in {"subscribe", "sadd"} => pc'[d] \in {"subscribe", "sadd"}
           /\ pc[d] \in {"unsubscribe", "srem"} => pc'[d] \in {"unsubscribe", "srem"},
         \A n \in up', u \in User \ astray' : u \in users'[n] <=> u \in users[n]
  PROVE  SetsKept'
  <1> SUFFICES ASSUME NEW n \in up', NEW u \in User \ astray'
               PROVE  /\ u \in users'[n] => local'[n][u] # {} \/ Parting(n, u)'
                      /\ local'[n][u] # {} => u \in users'[n] \/ Joining(n, u)'
    BY DEF SetsKept
  <1>1. Parting(n, u) => Parting(n, u)'
    BY DEF Parting
  <1>2. Joining(n, u) => Joining(n, u)'
    BY DEF Joining
  <1> QED
    BY <1>1, <1>2 DEF SetsKept

LEMMA ConnectSets ==
  ASSUME TypeOK, SetsKept, NEW c \in Socket, Connect(c)
  PROVE  SetsKept'
  <1> DEFINE m == home[c]
             w == Owner[c]
  <1>0. m \in Node /\ w \in User
    BY SocketTypes
  <1>1. /\ local'[m][w] = local[m][w] \cup {c}
        /\ \A n \in Node, u \in User : n # m \/ u # w => local'[n][u] = local[n][u]
        /\ \A d \in Socket : d # c => pc'[d] = pc[d]
        /\ pc[c] = "unused"
        /\ local[m][w] = {} => pc'[c] = "subscribe"
        /\ up \subseteq Node /\ UNCHANGED <<home, up, users, astray>>
    BY <1>0 DEF Connect, Goto, TypeOK, redis, history
  <1> SUFFICES ASSUME NEW n \in up, NEW u \in User \ astray
               PROVE  /\ u \in users[n] => local'[n][u] # {} \/ Parting(n, u)'
                      /\ local'[n][u] # {} => u \in users[n] \/ Joining(n, u)'
    BY <1>1 DEF SetsKept
  <1>2. Parting(n, u) => Parting(n, u)'
    BY <1>1 DEF Parting
  <1>3. Joining(n, u) => Joining(n, u)'
    BY <1>1 DEF Joining
  <1>4. local[n][u] # {} => local'[n][u] # {}
    BY <1>1
  <1>5. local'[n][u] # {} => local[n][u] # {} \/ Joining(n, u)'
    BY <1>1 DEF Joining
  <1> QED
    BY <1>2, <1>3, <1>4, <1>5 DEF SetsKept

LEMMA DisconnectSets ==
  ASSUME TypeOK, SetsKept, NEW c \in Socket, Disconnect(c)
  PROVE  SetsKept'
  <1> DEFINE m == home[c]
             w == Owner[c]
  <1>0. m \in Node /\ w \in User
    BY SocketTypes
  <1>1. /\ local'[m][w] = local[m][w] \ {c}
        /\ \A n \in Node, u \in User : n # m \/ u # w => local'[n][u] = local[n][u]
        /\ \A d \in Socket : d # c => pc'[d] = pc[d]
        /\ pc[c] = "open"
        /\ local[m][w] = {c} => pc'[c] = "unsubscribe"
        /\ up \subseteq Node /\ UNCHANGED <<home, up, users, astray>>
    BY <1>0 DEF Disconnect, Goto, TypeOK, redis, history
  <1> SUFFICES ASSUME NEW n \in up, NEW u \in User \ astray
               PROVE  /\ u \in users[n] => local'[n][u] # {} \/ Parting(n, u)'
                      /\ local'[n][u] # {} => u \in users[n] \/ Joining(n, u)'
    BY <1>1 DEF SetsKept
  <1>2. Parting(n, u) => Parting(n, u)'
    BY <1>1 DEF Parting
  <1>3. Joining(n, u) => Joining(n, u)'
    BY <1>1 DEF Joining
  <1>4. local'[n][u] # {} => local[n][u] # {}
    BY <1>1
  <1>5. local[n][u] # {} => local'[n][u] # {} \/ Parting(n, u)'
    BY <1>1 DEF Parting
  <1> QED
    BY <1>2, <1>3, <1>4, <1>5 DEF SetsKept

\* SADD comes while its socket is there.
LEMMA SAddSets ==
  ASSUME TypeOK, Alive, SetsKept, NEW c \in Socket, SAdd(c)
  PROVE  SetsKept'
  <1> DEFINE m == home[c]
             w == Owner[c]
  <1>0. m \in Node /\ w \in User
    BY SocketTypes
  <1>1. /\ w \in users'[m] /\ local[m][w] # {}
        /\ \A n \in Node, u \in User : n # m \/ u # w => (u \in users'[n] <=> u \in users[n])
        /\ \A d \in Socket : d # c => pc'[d] = pc[d]
        /\ pc[c] = "sadd"
        /\ up \subseteq Node /\ UNCHANGED <<home, up, local, astray>>
    BY <1>0 DEF SAdd, Goto, TypeOK, history, Alive, Registered, Held, Connecting
  <1> SUFFICES ASSUME NEW n \in up, NEW u \in User \ astray, n # m \/ u # w
               PROVE  /\ u \in users[n] => local[n][u] # {} \/ Parting(n, u)'
                      /\ local[n][u] # {} => u \in users[n] \/ Joining(n, u)'
    BY <1>1 DEF SetsKept
  <1>2. Parting(n, u) => Parting(n, u)'
    BY <1>1 DEF Parting
  <1>3. Joining(n, u) => Joining(n, u)'
    BY <1>1 DEF Joining
  <1> QED
    BY <1>2, <1>3 DEF SetsKept

\* SREM takes the user out, or the user is gone astray.
LEMMA SRemSets ==
  ASSUME TypeOK, SetsKept, NEW c \in Socket, SRem(c)
  PROVE  SetsKept'
  <1> DEFINE m == home[c]
             w == Owner[c]
  <1>0. m \in Node /\ w \in User
    BY SocketTypes
  <1>1. /\ w \notin users'[m]
        /\ w \notin astray' => local[m][w] = {} \/ Joining(m, w)
        /\ astray \subseteq astray'
        /\ \A n \in Node, u \in User : n # m \/ u # w => (u \in users'[n] <=> u \in users[n])
        /\ \A d \in Socket : d # c => pc'[d] = pc[d]
        /\ pc[c] = "srem"
        /\ up \subseteq Node /\ UNCHANGED <<home, up, local>>
    BY <1>0 DEF SRem, Goto, TypeOK
  <1> SUFFICES ASSUME NEW n \in up, NEW u \in User \ astray'
               PROVE  /\ u \in users'[n] => local[n][u] # {} \/ Parting(n, u)'
                      /\ local[n][u] # {} => u \in users'[n] \/ Joining(n, u)'
    BY <1>1 DEF SetsKept
  <1>2. n # m \/ u # w => (Parting(n, u) => Parting(n, u)')
    BY <1>1 DEF Parting
  <1>3. Joining(n, u) => Joining(n, u)'
    BY <1>1 DEF Joining
  <1>4. CASE n = m /\ u = w
    BY <1>1, <1>3, <1>4
  <1>5. CASE n # m \/ u # w
    BY <1>1, <1>2, <1>3, <1>5 DEF SetsKept
  <1> QED
    BY <1>4, <1>5

\* What a node that comes back inherits in its set is gone astray, for it has no sockets.
LEMMA StartSets ==
  ASSUME TypeOK, Alive, SetsKept, NEW m \in Node, Start(m)
  PROVE  SetsKept'
  <1>1. /\ up' = up \cup {m} /\ up \subseteq Node
        /\ astray \subseteq astray' /\ users[m] \subseteq astray'
        /\ \A n \in up : users'[n] # users[n] => users'[n] = {} /\ users[n] \subseteq astray'
        /\ users'[m] = users[m]
        /\ \A u \in User : local[m][u] = {}
        /\ UNCHANGED <<home, local, pc>>
    <2>1. /\ up' = up \cup {m} /\ up \subseteq Node /\ m \notin up
          /\ users' = [k \in Node |-> IF k \in Stale(m) THEN {} ELSE users[k]]
          /\ astray' = astray \cup UNION {users[k] : k \in {m} \cup (Stale(m) \cap up)}
          /\ m \notin Stale(m) /\ UNCHANGED <<home, local, pc>>
      BY DEF Start, TypeOK, Stale
    <2>2. \A n \in up : users'[n] # users[n] => n \in Stale(m) \cap up /\ users'[n] = {}
      BY <2>1
    <2>3. \A k \in {m} \cup (Stale(m) \cap up) : users[k] \subseteq astray'
      BY <2>1
    <2> QED
      BY <2>1, <2>2, <2>3 DEF Alive, Down
  <1> SUFFICES ASSUME NEW n \in up', NEW u \in User \ astray'
               PROVE  /\ u \in users'[n] => local[n][u] # {} \/ Parting(n, u)'
                      /\ local[n][u] # {} => u \in users'[n] \/ Joining(n, u)'
    BY <1>1 DEF SetsKept
  <1>2. Parting(n, u)' <=> Parting(n, u)
    BY <1>1 DEF Parting
  <1>3. Joining(n, u)' <=> Joining(n, u)
    BY <1>1 DEF Joining
  <1>4. CASE n = m
    BY <1>1, <1>4
  <1>5. CASE n # m
    BY <1>1, <1>2, <1>3, <1>5 DEF SetsKept
  <1> QED
    BY <1>4, <1>5

\* A command that fails leaves the user astray, unless the set is right already.
LEMMA FailSets ==
  ASSUME TypeOK, SetsKept, NEW c \in Socket, ConnectFails(c) \/ DisconnectFails(c)
  PROVE  SetsKept'
  <1> DEFINE m == home[c]
             w == Owner[c]
  <1>1. /\ w \in astray' \/ pc[c] = "register"
        /\ astray \subseteq astray'
        /\ \A d \in Socket : d # c => pc'[d] = pc[d]
        /\ UNCHANGED <<home, up, local, users>>
    <2>1. CASE ConnectFails(c)
      BY <2>1 DEF ConnectFails, Goto, TypeOK, redis
    <2>2. CASE DisconnectFails(c)
      BY <2>2 DEF DisconnectFails, Goto, TypeOK, redis
    <2> QED
      BY <2>1, <2>2
  <1> SUFFICES ASSUME NEW n \in up, NEW u \in User \ astray'
               PROVE  /\ u \in users[n] => local[n][u] # {} \/ Parting(n, u)'
                      /\ local[n][u] # {} => u \in users[n] \/ Joining(n, u)'
    BY <1>1 DEF SetsKept
  <1>2. Parting(n, u) => Parting(n, u)'
    BY <1>1 DEF Parting
  <1>3. Joining(n, u) => Joining(n, u)'
    BY <1>1 DEF Joining
  <1> QED
    BY <1>1, <1>2, <1>3 DEF SetsKept

LEMMA VanishSets ==
  ASSUME TypeOK, SetsKept, NEW m \in Node, Vanish(m), UNCHANGED <<home, astray>>,
         \A n \in Node \ {m} : users'[n] = users[n]
  PROVE  SetsKept'
  <1>1. /\ up' = up \ {m} /\ up \subseteq Node
        /\ \A n \in Node : n # m => local'[n] = local[n]
        /\ \A d \in Socket : home[d] # m => pc'[d] = pc[d]
    BY DEF Vanish, TypeOK
  <1> SUFFICES ASSUME NEW n \in up', NEW u \in User \ astray
               PROVE  /\ u \in users'[n] => local'[n][u] # {} \/ Parting(n, u)'
                      /\ local'[n][u] # {} => u \in users'[n] \/ Joining(n, u)'
    BY <1>1 DEF SetsKept
  <1>2. Parting(n, u) => Parting(n, u)'
    BY <1>1 DEF Parting
  <1>3. Joining(n, u) => Joining(n, u)'
    BY <1>1 DEF Joining
  <1> QED
    BY <1>1, <1>2, <1>3 DEF SetsKept

LEMMA SetsStep ==
  ASSUME TypeOK, Alive, SetsKept, [Next]_vars
  PROVE  SetsKept'
  <1>1. ASSUME NEW c \in Socket,
               Subscribe(c) \/ ConnectRegister(c) \/ Announce(c) \/ Unsubscribe(c) \/ Withdraw(c)
        PROVE  SetsKept'
    <2>1. UNCHANGED <<home, local, up, users, astray>>
      BY <1>1 DEF Subscribe, ConnectRegister, Announce, Unsubscribe, Withdraw, redis, history
    <2>2. \A d \in Socket :
            /\ pc[d] \in {"subscribe", "sadd"} => pc'[d] \in {"subscribe", "sadd"}
            /\ pc[d] \in {"unsubscribe", "srem"} => pc'[d] \in {"unsubscribe", "srem"}
      <3>1. CASE Subscribe(c)
        BY <3>1 DEF Subscribe, Goto, TypeOK
      <3>2. CASE Unsubscribe(c)
        BY <3>2 DEF Unsubscribe, Goto, TypeOK
      <3>3. CASE ConnectRegister(c) \/ Announce(c) \/ Withdraw(c)
        BY <3>3 DEF ConnectRegister, Announce, Withdraw, Goto, TypeOK
      <3> QED
        BY <1>1, <3>1, <3>2, <3>3
    <2> QED
      BY <2>1, <2>2, AsideSets
  <1>2. ASSUME NEW n \in Node,
               Listen(n) \/ LoseDelta(n) \/ Heartbeat(n) \/ ReconcileRead(n)
        PROVE  SetsKept'
    <2>1. UNCHANGED <<home, local, up, users, astray, pc>>
      BY <1>2 DEF Listen, LoseDelta, Heartbeat, ReconcileRead, redis, history
    <2> QED
      BY <2>1, AsideSets
  <1>3. ASSUME NEW n \in Node, Lapse(n) \/ ReconcileWrite(n)
        PROVE  SetsKept'
    <2>1. UNCHANGED <<home, local, up, pc>> /\ astray \subseteq astray'
      BY <1>3 DEF Lapse, ReconcileWrite
    <2>2. ASSUME NEW m \in up, users'[m] # users[m]
          PROVE  users'[m] = {} /\ users[m] \subseteq astray'
      <3>0. m \in Node
        BY DEF TypeOK
      <3>1. CASE Lapse(n)
        <4>1. n \in expiring /\ users' = [users EXCEPT ![n] = {}]
              /\ astray' = IF n \in up THEN astray \cup users[n] ELSE astray
          BY <2>2, <3>1 DEF Lapse
        <4> QED
          BY <2>2, <3>0, <4>1 DEF TypeOK
      <3>2. CASE ReconcileWrite(n)
        <4>1. users' = [k \in Node |-> IF k \in rebuilt[n].stale THEN {} ELSE users[k]]
              /\ astray' = astray \cup UNION {users[k] : k \in rebuilt[n].stale \cap up}
          BY <3>2 DEF ReconcileWrite
        <4>2. m \in rebuilt[n].stale \cap up /\ users'[m] = {}
          BY <2>2, <3>0, <4>1
        <4> QED
          BY <4>1, <4>2
      <3> QED
        BY <1>3, <3>1, <3>2
    <2>3. \A m \in up', u \in User \ astray' : u \in users'[m] <=> u \in users[m]
      BY <2>1, <2>2
    <2> QED
      BY <2>1, <2>3, AsideSets
  <1>4. ASSUME NEW n \in Node, Crash(n) \/ Stop(n)
        PROVE  SetsKept'
    <2>1. Vanish(n) /\ UNCHANGED <<home, astray>> /\ \A m \in Node \ {n} : users'[m] = users[m]
      BY <1>4 DEF Crash, Stop, redis, TypeOK
    <2> QED
      BY <2>1, VanishSets
  <1>5. CASE UNCHANGED vars
    BY <1>5, AsideSets DEF vars
  <1> QED
    BY <1>1, <1>2, <1>3, <1>4, <1>5, ConnectSets, DisconnectSets, SAddSets, SRemSets,
       FailSets, StartSets DEF Next, Step

-----------------------------------------------------------------------------
\* What always holds.

IInv == TypeOK /\ Lines /\ Alive /\ SetsKept

LEMMA InitIInv == Init => IInv
  <1> SUFFICES ASSUME Init
               PROVE  IInv
    OBVIOUS
  <1>1. TypeOK
    BY BoundAssumption DEF Init, TypeOK, NothingRead, Read, Mirror
  <1>2. \A n \in Node : Len(lock[n]) = 0
    BY DEF Init
  <1>3. \A c \in Socket : home[c] \in Node /\ Owner[c] \in User
    BY <1>1, SocketTypes
  <1>4. Lines
    BY <1>2 DEF Init, Lines, Queued, LastDecides, Subscribed, Listens, InLine
  <1>5. Alive
    BY DEF Init, Alive, Registered, Running, Down, Held, Connecting
  <1>6. SetsKept
    BY DEF Init, SetsKept
  <1> QED
    BY <1>1, <1>4, <1>5, <1>6 DEF IInv

LEMMA IInvStep == IInv /\ [Next]_vars => IInv'
  BY TypeStep, LinesStep, AliveStep, SetsStep DEF IInv, Alive

LEMMA Invariance == Spec => []IInv
  BY InitIInv, IInvStep, PTL DEF Spec

\* Every variable keeps its type: lines hold sockets of their node, deltas and mirrors name
\* nodes, and the bound of the faults is kept.
THEOREM TypeCorrect == Spec => []TypeOK
  <1>1. IInv => TypeOK
    BY DEF IInv
  <1> QED
    BY <1>1, Invariance, PTL

\* connect and disconnect subscribe and unsubscribe under _pubsub_lock, in the order in which
\* they changed _local under the other lock: a node listens to the channel of a user exactly
\* as long as it holds a socket of the user, once nobody is in line for the user, whatever
\* other commands have failed.
THEOREM SubscriptionsFollowSockets == Spec => []SubscribedWhileHeld
  <1>1. IInv => SubscribedWhileHeld
    BY DEF IInv, Lines, Subscribed, Listens, SubscribedWhileHeld, TypeOK
  <1> QED
    BY <1>1, Invariance, PTL

\* send_to_users, from whatever node: an open socket of a user who has sockets on one node
\* only is reached, over the node's own _local or over the user's channel.
THEOREM EventsReachEveryDevice == Spec => []EveryDevice
  <1>1. IInv => EveryDevice
    <2> SUFFICES ASSUME IInv, NEW n \in up, NEW c \in Socket, pc[c] = "open",
                        OnOneNode(Owner[c]), ~Changing(home[c], Owner[c]),
                        <<"subscribe", Owner[c]>> \notin refused
                 PROVE  c \in Reached(n, Owner[c])
      BY DEF EveryDevice
    <2>1. TypeOK /\ Subscribed /\ Registered /\ Running /\ up \subseteq Node
      BY DEF IInv, Lines, Alive, TypeOK
    <2>2. home[c] \in Node /\ Owner[c] \in User
      BY <2>1, SocketTypes
    <2>3. c \in local[home[c]][Owner[c]] /\ home[c] \in up
      BY <2>1 DEF Registered, Running, Held
    <2>4. Owner[c] \in subs[home[c]]
      BY <2>1, <2>2, <2>3 DEF Subscribed, Listens
    <2>5. CASE local[n][Owner[c]] # {}
      BY <2>3, <2>5 DEF OnOneNode, Reached
    <2>6. CASE local[n][Owner[c]] = {}
      BY <2>3, <2>4, <2>6 DEF Reached
    <2> QED
      BY <2>5, <2>6
  <1> QED
    BY <1>1, Invariance, PTL

\* SADD and SREM: the set of a running node has a user exactly while the node holds a socket
\* of the user, once those that come and go are through, unless SREM came after the SADD of
\* a reconnect, one of the two failed or was skipped, or a set lapsed, was reaped or was
\* inherited: nothing else makes it wrong.
THEOREM SetsFollowSockets == Spec => []SetsFollow
  <1>1. IInv => SetsFollow
    <2> SUFFICES ASSUME IInv, NEW n \in up, NEW u \in User \ astray, ~Moving(n, u)
                 PROVE  u \in users[n] <=> local[n][u] # {}
      BY DEF SetsFollow
    <2>1. ~Parting(n, u) /\ ~Joining(n, u)
      BY DEF Moving, Parting, Joining
    <2> QED
      BY <2>1 DEF IInv, SetsKept
  <1> QED
    BY <1>1, Invariance, PTL
=============================================================================
