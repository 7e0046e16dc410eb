---------------------------- MODULE SocketProofs ----------------------------
(***************************************************************************)
(* Proofs about the two ends of a client's socket:                         *)
(*                                                                         *)
(* Presence, for any number of users and sockets: an open socket stays     *)
(* registered, and the last one to close owes its user an offline          *)
(* broadcast;                                                              *)
(*                                                                         *)
(* ClientThread, for any number of messages, requests and lost sockets and *)
(* any page sizes: whatever comes over the socket, in whatever order with  *)
(* the answers over HTTP, the thread shows no message twice.  Most of the  *)
(* proof is about merging: a message that is inserted into a thread, or    *)
(* put in the place of another, makes no duplicates.  Nor is any message   *)
(* lost, or a bubble left waiting, other than by the steps that give it up *)
(* in ClientThread: the second invariant follows each one on its way.      *)
(***************************************************************************)
EXTENDS ClientThread, Presence, FiniteSetTheorems, TLAPS

-----------------------------------------------------------------------------
(***************************************************************************)
(* Presence: what the manager holds of a socket                            *)
(***************************************************************************)

\* Where a coroutine is between connect and disconnect.
Serving == Handshake \cup {"loop", "disconnect"}

\* Sockets are registered under their owner, and only once they are used.
OwnersOnly ==
  \A u \in User : \A c \in connections[u] : Owner[c] = u /\ pc[c] # "unused"

\* A socket that could not be sent to is a used one, whose client is gone for good.
FailedAreGone ==
  \A c \in Socket : \A d \in failed[c] : d \notin alive /\ pc[d] # "unused"

\* A socket leaves the manager by its own disconnect or after a failed send, and
\* then its client is gone.
RegisteredOrReaped ==
  \A c \in Socket :
    pc[c] \in Serving /\ c \notin connections[Owner[c]] =>
      Owner[c] \in reaped /\ (c \notin alive \/ pc[c] = "disconnect")

PresenceInv == PresenceTypeOK /\ OwnersOnly /\ FailedAreGone /\ RegisteredOrReaped

-----------------------------------------------------------------------------
\* A step of a coroutine keeps the types.
LEMMA GatewayTypes ==
  ASSUME PresenceTypeOK, NEW c \in Socket, Gateway(c)
  PROVE  PresenceTypeOK'
  <1> USE OwnerAssumption DEF PresenceTypeOK, Goto, Handshake, Closing
  <1>0. SocketsOfPeers(Owner[c]) \subseteq Socket
    BY DEF SocketsOfPeers
  <1>1. CASE AnnounceOnline(c)
    BY <1>0, <1>1 DEF AnnounceOnline
  <1>2. CASE ReapOnline(c)
    BY <1>2 DEF ReapOnline, Reap
  <1>3. CASE ListPeers(c)
    BY <1>3 DEF ListPeers
  <1>4. CASE Greet(c)
    BY <1>4 DEF Greet
  <1>5. CASE HandshakeFails(c)
    BY <1>5 DEF HandshakeFails
  <1>6. CASE Detect(c)
    BY <1>6 DEF Detect
  <1>7. CASE Disconnect(c)
    BY <1>7 DEF Disconnect
  <1>8. CASE AnnounceOffline(c)
    BY <1>0, <1>8 DEF AnnounceOffline
  <1>9. CASE ReapOffline(c)
    BY <1>9 DEF ReapOffline, Reap
  <1> QED
    BY <1>1, <1>2, <1>3, <1>4, <1>5, <1>6, <1>7, <1>8, <1>9 DEF Gateway

LEMMA TypesKept == PresenceTypeOK /\ [PresenceNext]_presenceVars => PresenceTypeOK'
  <1> SUFFICES ASSUME PresenceTypeOK, [PresenceNext]_presenceVars PROVE PresenceTypeOK'
    OBVIOUS
  <1>1. ASSUME NEW c \in Socket, Connect(c) PROVE PresenceTypeOK'
    BY <1>1, OwnerAssumption DEF Connect, Goto, PresenceTypeOK, Handshake
  <1>2. ASSUME NEW c \in Socket, ClientGoes(c) PROVE PresenceTypeOK'
    BY <1>2 DEF ClientGoes, PresenceTypeOK
  <1>3. ASSUME NEW u \in User, SendToUser(u) PROVE PresenceTypeOK'
    BY <1>3 DEF SendToUser, PresenceTypeOK
  <1>4. CASE UNCHANGED presenceVars
    BY <1>4 DEF presenceVars, PresenceTypeOK
  <1> QED
    BY <1>1, <1>2, <1>3, <1>4, GatewayTypes DEF PresenceNext

LEMMA TypesBegin == PresenceInit => PresenceTypeOK
  BY DEF PresenceInit, PresenceTypeOK

THEOREM PresenceTypeCorrect == PresenceSpec => []PresenceTypeOK
  BY TypesBegin, TypesKept, PTL DEF PresenceSpec

-----------------------------------------------------------------------------
\* Reaping takes sockets away whose clients are gone, and remembers their users.
LEMMA ReapKeeps ==
  ASSUME PresenceInv, NEW c \in Socket, ReapOnline(c) \/ ReapOffline(c)
  PROVE  OwnersOnly' /\ FailedAreGone' /\ RegisteredOrReaped'
  <1>1. /\ connections' = [u \in User |-> connections[u] \ failed[c]]
        /\ reaped' = reaped \cup {Owner[d] : d \in failed[c]}
        /\ failed' = [failed EXCEPT ![c] = {}] /\ alive' = alive
        /\ \A d \in Socket : (pc'[d] = "unused") = (pc[d] = "unused")
        /\ \A d \in Socket : pc'[d] \in Serving => pc[d] \in Serving
        /\ \A d \in Socket : (pc'[d] = "disconnect") = (pc[d] = "disconnect")
    BY DEF ReapOnline, ReapOffline, Reap, Goto, PresenceInv, PresenceTypeOK, Serving, Handshake
  <1>2. failed[c] \subseteq Socket /\ \A u \in User : connections[u] \subseteq Socket
    BY DEF PresenceInv, PresenceTypeOK
  <1>3. OwnersOnly'
    BY <1>1, <1>2 DEF PresenceInv, OwnersOnly
  <1>4. FailedAreGone'
    BY <1>1 DEF PresenceInv, PresenceTypeOK, FailedAreGone
  <1>5. RegisteredOrReaped'
    <2> SUFFICES ASSUME NEW d \in Socket, pc'[d] \in Serving, d \notin connections'[Owner[d]]
                 PROVE  Owner[d] \in reaped' /\ (d \notin alive \/ pc'[d] = "disconnect")
      BY <1>1 DEF RegisteredOrReaped
    <2>1. CASE d \in failed[c]
      BY <1>1, <2>1 DEF PresenceInv, FailedAreGone
    <2>2. CASE d \notin failed[c]
      BY <1>1, <2>2, OwnerAssumption DEF PresenceInv, RegisteredOrReaped
    <2> QED
      BY <2>1, <2>2
  <1> QED
    BY <1>3, <1>4, <1>5

\* The other steps of a coroutine.
LEMMA GatewayKeeps ==
  ASSUME PresenceInv, NEW c \in Socket, Gateway(c)
  PROVE  OwnersOnly' /\ FailedAreGone' /\ RegisteredOrReaped'
  <1> USE OwnerAssumption
      DEF PresenceInv, PresenceTypeOK, OwnersOnly, FailedAreGone, RegisteredOrReaped, Goto, Serving, Handshake
  <1>0. \A d \in SocketsOfPeers(Owner[c]) : d \in Socket /\ pc[d] # "unused"
    BY DEF SocketsOfPeers
  <1>1. CASE AnnounceOnline(c)
    BY <1>0, <1>1 DEF AnnounceOnline
  <1>2. CASE ListPeers(c)
    BY <1>2 DEF ListPeers
  <1>3. CASE Greet(c)
    BY <1>3 DEF Greet
  <1>4. CASE HandshakeFails(c)
    BY <1>4 DEF HandshakeFails
  <1>5. CASE Detect(c)
    BY <1>5 DEF Detect
  <1>6. CASE Disconnect(c)
    BY <1>6 DEF Disconnect
  <1>7. CASE AnnounceOffline(c)
    BY <1>0, <1>7 DEF AnnounceOffline
  <1> QED
    BY <1>1, <1>2, <1>3, <1>4, <1>5, <1>6, <1>7, ReapKeeps DEF Gateway

\* The inductive invariant is kept by every step.
LEMMA IInvKept == PresenceInv /\ [PresenceNext]_presenceVars => PresenceInv'
  <1> SUFFICES ASSUME PresenceInv, [PresenceNext]_presenceVars PROVE PresenceInv'
    OBVIOUS
  <1> USE OwnerAssumption DEF PresenceInv
  <1>1. PresenceTypeOK'
    BY TypesKept
  <1>2. ASSUME NEW c \in Socket, Connect(c) PROVE PresenceInv'
    BY <1>1, <1>2 DEF PresenceTypeOK, OwnersOnly, FailedAreGone, RegisteredOrReaped, Connect, Goto,
                      Serving, Handshake
  <1>3. ASSUME NEW c \in Socket, ClientGoes(c) PROVE PresenceInv'
    BY <1>1, <1>3 DEF PresenceTypeOK, OwnersOnly, FailedAreGone, RegisteredOrReaped, ClientGoes
  <1>4. ASSUME NEW u \in User, SendToUser(u) PROVE PresenceInv'
    <2>1. \A c \in Socket : c \in connections[Owner[c]] /\ c \notin connections'[Owner[c]]
                              => Owner[c] = u /\ c \notin alive
      BY <1>4 DEF SendToUser, PresenceTypeOK
    <2>2. \A v \in User : connections'[v] \subseteq connections[v]
      BY <1>4 DEF SendToUser, PresenceTypeOK
    <2>3. OwnersOnly' /\ FailedAreGone'
      BY <1>4, <2>2 DEF SendToUser, OwnersOnly, FailedAreGone
    <2>4. RegisteredOrReaped'
      BY <1>4, <2>1 DEF SendToUser, RegisteredOrReaped
    <2> QED
      BY <1>1, <2>3, <2>4
  <1>5. CASE UNCHANGED presenceVars
    BY <1>1, <1>5 DEF presenceVars, OwnersOnly, FailedAreGone, RegisteredOrReaped
  <1> QED
    BY <1>1, <1>2, <1>3, <1>4, <1>5, GatewayKeeps DEF PresenceNext

LEMMA IInvHolds == PresenceSpec => []PresenceInv
  <1>1. PresenceInit => PresenceInv
    BY TypesBegin DEF PresenceInit, PresenceInv, OwnersOnly, FailedAreGone, RegisteredOrReaped, Serving, Handshake
  <1> QED
    BY <1>1, IInvKept, PTL DEF PresenceSpec

\* A socket whose client is there stays registered, whatever broadcasts of others
\* fail and whichever other sockets of its user come and go.
THEOREM OpenSocketsAreRegistered == PresenceSpec => []RegisteredWhileOpen
  <1>1. PresenceInv => RegisteredWhileOpen
    BY DEF PresenceInv, RegisteredOrReaped, RegisteredWhileOpen, Serving, PresenceTypeOK
  <1> QED
    BY <1>1, IInvHolds, PTL

-----------------------------------------------------------------------------
\* A user who was online and is reaped is no longer owed anything.
LEMMA ReapOwes ==
  ASSUME PresenceInv, OfflineOwed, NEW c \in Socket, ReapOnline(c) \/ ReapOffline(c)
  PROVE  OfflineOwed'
  <1>1. /\ connections' = [u \in User |-> connections[u] \ failed[c]]
        /\ reaped' = reaped \cup {Owner[d] : d \in failed[c]} /\ told' = told
        /\ \A d \in Socket : pc[d] = "offline" => pc'[d] = "offline"
    BY DEF ReapOnline, ReapOffline, Reap, Goto, PresenceInv, PresenceTypeOK
  <1> SUFFICES ASSUME NEW u \in User, ~ is_online(u)', u \notin reaped', told[u] = "online"
               PROVE  \E d \in Socket : Owner[d] = u /\ pc'[d] = "offline"
    BY <1>1 DEF OfflineOwed
  <1>2. connections'[u] = connections[u]
    BY <1>1 DEF PresenceInv, OwnersOnly, PresenceTypeOK
  <1>3. ~ is_online(u)
    BY <1>2 DEF is_online
  <1> QED
    BY <1>1, <1>3 DEF OfflineOwed

\* A step of a coroutine: the one that takes the last socket goes on to broadcast.
LEMMA GatewayOwes ==
  ASSUME PresenceInv, OfflineOwed, NEW c \in Socket, Gateway(c)
  PROVE  OfflineOwed'
  <1> USE OwnerAssumption DEF PresenceInv, PresenceTypeOK, Goto, OfflineOwed, is_online
  <1>1. CASE AnnounceOnline(c)
    <2>1. c \in connections[Owner[c]] \/ Owner[c] \in reaped
      BY <1>1 DEF AnnounceOnline, RegisteredOrReaped, Serving, Handshake
    <2> QED
      BY <1>1, <2>1 DEF AnnounceOnline
  <1>2. CASE ListPeers(c)
    BY <1>2 DEF ListPeers
  <1>3. CASE Greet(c)
    BY <1>3 DEF Greet
  <1>4. CASE HandshakeFails(c)
    BY <1>4 DEF HandshakeFails, Handshake
  <1>5. CASE Detect(c)
    BY <1>5 DEF Detect
  <1>6. CASE Disconnect(c)
    <2>1. c \in connections[Owner[c]] \/ Owner[c] \in reaped
      BY <1>6 DEF Disconnect, RegisteredOrReaped, Serving
    <2>2. ASSUME NEW u \in User, u # Owner[c] PROVE connections'[u] = connections[u]
      BY <1>6, <2>2 DEF Disconnect
    <2>3. connections'[Owner[c]] = {} /\ Owner[c] \notin reaped => pc'[c] = "offline"
      BY <1>6, <2>1 DEF Disconnect
    <2> QED
      BY <1>6, <2>2, <2>3 DEF Disconnect
  <1>7. CASE AnnounceOffline(c)
    BY <1>7 DEF AnnounceOffline
  <1> QED
    BY <1>1, <1>2, <1>3, <1>4, <1>5, <1>6, <1>7, ReapOwes DEF Gateway

\* When the last socket of a user closes, offline has been broadcast after the last
\* online or is about to be, unless a failed send has taken a socket of theirs away.
THEOREM LastSocketOwesOffline == PresenceSpec => []OfflineOwed
  <1>1. PresenceInit => OfflineOwed
    BY DEF PresenceInit, OfflineOwed
  <1>2. PresenceInv /\ OfflineOwed /\ [PresenceNext]_presenceVars => OfflineOwed'
    <2> SUFFICES ASSUME PresenceInv, OfflineOwed, [PresenceNext]_presenceVars PROVE OfflineOwed'
      OBVIOUS
    <2> USE OwnerAssumption DEF PresenceInv, PresenceTypeOK, OfflineOwed, is_online
    <2>1. ASSUME NEW c \in Socket, Connect(c) PROVE OfflineOwed'
      BY <2>1 DEF Connect, Goto
    <2>2. ASSUME NEW c \in Socket, ClientGoes(c) PROVE OfflineOwed'
      BY <2>2 DEF ClientGoes
    <2>3. ASSUME NEW u \in User, SendToUser(u) PROVE OfflineOwed'
      BY <2>3 DEF SendToUser
    <2>4. CASE UNCHANGED presenceVars
      BY <2>4 DEF presenceVars
    <2> QED
      BY <2>1, <2>2, <2>3, <2>4, GatewayOwes DEF PresenceNext
  <1> QED
    BY <1>1, <1>2, IInvHolds, PTL DEF PresenceSpec

-----------------------------------------------------------------------------
(***************************************************************************)
(* Sequences, sorting and merging                                          *)
(***************************************************************************)

\* Induction over the natural numbers, from what is known of finite sets: were there
\* no least number in S, then a bounded set would be mapped one to one into less of it.
LEMMA LeastNumber ==
  ASSUME NEW S \in SUBSET Nat, NEW top \in S
  PROVE  \E m \in S : \A n \in S : m <= n
  <1> SUFFICES ASSUME \A m \in S : \E n \in S : n < m PROVE FALSE
    OBVIOUS
  <1> DEFINE L == {n \in 0..top : \A m \in S : n <= m}
             f == [n \in L |-> n + 1]
  <1>1. IsFiniteSet(L) /\ Cardinality(L) \in Nat
    <2>1. L \in SUBSET (0..top) /\ IsFiniteSet(0..top)
      BY FS_Interval
    <2> QED
      BY <2>1, FS_Subset, FS_CardinalityType
  <1>2. 0 \in L
    OBVIOUS
  <1>3. ASSUME NEW n \in L PROVE n + 1 \in L \ {0}
    <2>1. n \in Nat /\ n \notin S
      OBVIOUS
    <2>2. \A m \in S : n + 1 <= m
      BY <2>1
    <2>3. n + 1 \in 0..top
      BY <2>1, <2>2
    <2> QED
      BY <2>2, <2>3
  <1>4. f \in Injection(L, L \ {0})
    <2>1. f \in [L -> L \ {0}]
      BY <1>3
    <2>2. \A a, b \in L : f[a] = f[b] => a = b
      OBVIOUS
    <2> QED
      BY <2>1, <2>2 DEF Injection, IsInjective
  <1>5. IsFiniteSet(L \ {0}) /\ Cardinality(L \ {0}) = Cardinality(L) - 1
    BY <1>1, <1>2, FS_RemoveElement
  <1>6. Cardinality(L) <= Cardinality(L \ {0})
    BY <1>4, <1>5, FS_Injection
  <1> QED
    BY <1>1, <1>5, <1>6

\* The places of a sequence.
LEMMA Places ==
  ASSUME NEW T, NEW s \in Seq(T)
  PROVE  /\ DOMAIN s = 1..Len(s) /\ Len(s) \in Nat /\ DOMAIN s \subseteq Nat
         /\ IsFiniteSet(DOMAIN s) /\ Cardinality(DOMAIN s) = Len(s)
  <1>1. DOMAIN s = 1..Len(s) /\ Len(s) \in Nat
    OBVIOUS
  <1>2. IsFiniteSet(1..Len(s)) /\ Cardinality(1..Len(s)) = Len(s)
    BY <1>1, FS_Interval
  <1> QED
    BY <1>1, <1>2

\* The fields of a message.
LEMMA MessageFields ==
  ASSUME NEW m \in Message
  PROVE  /\ m.id \in Nat /\ m.seq \in Nat /\ m.key \in Key \cup {NoKey}
         /\ m.mine \in BOOLEAN /\ m.status \in Status
  BY DEF Message

\* A message that is sorted before another one has fewer before it.
LEMMA BeforeCounts ==
  ASSUME NEW s \in Seq(Message), NEW i \in DOMAIN s
  PROVE  /\ IsFiniteSet(Before(s, i)) /\ Cardinality(Before(s, i)) \in 0..(Len(s) - 1)
         /\ \A j \in Before(s, i) : Cardinality(Before(s, j)) < Cardinality(Before(s, i))
  <1> DEFINE D == DOMAIN s
  <1>1. /\ D = 1..Len(s) /\ Len(s) \in Nat
        /\ IsFiniteSet(D) /\ Cardinality(D) = Len(s)
    BY Places
  <1>2. \A j \in D : s[j].seq \in Nat
    <2> SUFFICES ASSUME NEW j \in D PROVE s[j].seq \in Nat
      OBVIOUS
    <2>1. s[j] \in Message
      OBVIOUS
    <2> QED
      BY <2>1, MessageFields
  <1>3. D \subseteq Nat
    BY <1>1
  <1>4. ASSUME NEW j \in D
        PROVE  /\ IsFiniteSet(Before(s, j)) /\ Cardinality(Before(s, j)) \in Nat
               /\ Cardinality(Before(s, j)) <= Len(s) - 1
    <2>1. Before(s, j) \in SUBSET (D \ {j})
      BY <1>2, <1>3 DEF Before
    <2>2. IsFiniteSet(D \ {j}) /\ Cardinality(D \ {j}) = Len(s) - 1
      BY <1>1, FS_RemoveElement
    <2> QED
      BY <2>1, <2>2, FS_Subset, FS_CardinalityType
  <1>5. ASSUME NEW j \in Before(s, i)
        PROVE  Cardinality(Before(s, j)) < Cardinality(Before(s, i))
    <2>1. j \in D
      BY DEF Before
    <2>2. Before(s, j) \in SUBSET Before(s, i)
      BY <1>2, <1>3, <2>1 DEF Before
    <2>3. j \notin Before(s, j)
      BY <1>2, <1>3, <2>1 DEF Before
    <2>4. /\ Cardinality(Before(s, j)) <= Cardinality(Before(s, i))
          /\ Cardinality(Before(s, j)) # Cardinality(Before(s, i))
      BY <1>4, <2>2, <2>3, FS_Subset
    <2> QED
      BY <1>4, <2>1, <2>4
  <1> QED
    BY <1>1, <1>4, <1>5

\* SortBySeq permutes the messages, and puts them in the order of their numbers.
LEMMA Sorted ==
  ASSUME NEW s \in Seq(Message)
  PROVE  /\ SortBySeq(s) \in Seq(Message) /\ DOMAIN SortBySeq(s) = DOMAIN s
         /\ Len(SortBySeq(s)) = Len(s)
         /\ \E place \in [DOMAIN s -> DOMAIN s] :
              /\ \A m, n \in DOMAIN s : place[m] = place[n] => m = n
              /\ \A i \in DOMAIN s : \E n \in DOMAIN s : place[n] = i
              /\ \A n \in DOMAIN s : SortBySeq(s)[n] = s[place[n]]
         /\ \A m, n \in DOMAIN s : m <= n => SortBySeq(s)[m].seq <= SortBySeq(s)[n].seq
  <1> DEFINE D == DOMAIN s
             rank == [i \in D |-> Cardinality(Before(s, i)) + 1]
             place == [n \in D |-> CHOOSE i \in D : Cardinality(Before(s, i)) + 1 = n]
             sorted == SortBySeq(s)
  <1>1. /\ D = 1..Len(s) /\ Len(s) \in Nat /\ D \subseteq Nat
        /\ IsFiniteSet(D) /\ Cardinality(D) = Len(s)
    BY Places
  <1>2. \A j \in D : s[j].seq \in Nat
    <2> SUFFICES ASSUME NEW j \in D PROVE s[j].seq \in Nat
      OBVIOUS
    <2>1. s[j] \in Message
      OBVIOUS
    <2> QED
      BY <2>1, MessageFields
  <1>3. \A i \in D : rank[i] \in D
    BY <1>1, BeforeCounts
  <1>4. \A i, j \in D : i \in Before(s, j) => rank[i] < rank[j]
    BY <1>1, BeforeCounts
  <1>5. \A i, j \in D : i # j => i \in Before(s, j) \/ j \in Before(s, i)
    BY <1>1, <1>2 DEF Before
  <1>6. \A i \in D : rank[i] = Cardinality(Before(s, i)) + 1
    OBVIOUS
  <1>7. rank \in [D -> D]
    BY <1>3
  <1> HIDE DEF rank
  <1>8. \A i, j \in D : rank[i] = rank[j] => i = j
    BY <1>1, <1>3, <1>4, <1>5
  <1>9. rank \in Injection(D, D)
    BY <1>7, <1>8 DEF Injection, IsInjective
  <1>10. rank \in Surjection(D, D)
    BY <1>1, <1>9, FS_Injection
  <1>11. \A n \in D : \E i \in D : rank[i] = n
    BY <1>10 DEF Surjection
  <1>12. \A n \in D : place[n] \in D /\ rank[place[n]] = n
    <2> SUFFICES ASSUME NEW n \in D PROVE place[n] \in D /\ rank[place[n]] = n
      OBVIOUS
    <2>1. \E i \in D : Cardinality(Before(s, i)) + 1 = n
      BY <1>6, <1>11
    <2>2. place[n] \in D /\ Cardinality(Before(s, place[n])) + 1 = n
      BY <2>1
    <2> QED
      BY <1>6, <2>2
  <1>13. sorted = [n \in D |-> s[place[n]]]
    BY DEF SortBySeq
  <1> HIDE DEF sorted
  <1>14. DOMAIN sorted = D /\ sorted \in Seq(Message) /\ Len(sorted) = Len(s)
    <2> HIDE DEF place
    <2>1. \A n \in D : s[place[n]] \in Message
      BY <1>12
    <2>2. sorted \in [1..Len(s) -> Message]
      BY <1>1, <1>13, <2>1
    <2> QED
      BY <1>1, <2>2
  <1>15. place \in [D -> D]
    BY <1>12
  <1> HIDE DEF place
  <1>16. \A m, n \in D : place[m] = place[n] => m = n
    BY <1>12
  <1>17. \A i \in D : \E n \in D : place[n] = i
    BY <1>3, <1>8, <1>12
  <1>18. ASSUME NEW m \in D, NEW n \in D, m <= n
         PROVE  sorted[m].seq <= sorted[n].seq
    <2>1. place[m] \in D /\ place[n] \in D
      BY <1>12
    <2>2. sorted[m] = s[place[m]] /\ sorted[n] = s[place[n]]
      BY <1>13
    <2>3. s[place[m]].seq \in Nat /\ s[place[n]].seq \in Nat
      BY <1>2, <2>1
    <2>4. ~(s[place[n]].seq < s[place[m]].seq)
      <3> SUFFICES ASSUME s[place[n]].seq < s[place[m]].seq PROVE FALSE
        OBVIOUS
      <3>1. place[n] \in Before(s, place[m])
        BY <2>1 DEF Before
      <3> QED
        BY <1>1, <1>4, <1>12, <1>18, <2>1, <3>1
    <2> QED
      BY <2>2, <2>3, <2>4
  <1>19. \A n \in D : sorted[n] = s[place[n]]
    BY <1>13
  <1> QED
    BY <1>14, <1>15, <1>16, <1>17, <1>18, <1>19 DEF sorted

-----------------------------------------------------------------------------
(***************************************************************************)
(* The inductive invariant                                                 *)
(***************************************************************************)

\* A message as the log has it, whatever its status.
Genuine(m) == m.id \in DOMAIN log /\ m.seq = m.id /\ m.key = log[m.id].key

\* The bubble of a message that is not known to be stored.
Optimistic(m) == m.id = 0 /\ m.key # NoKey /\ m.seq # 0

\* What has been sent is stored once: the log has no key twice.
Logged ==
  /\ log \in Seq([key : Key \cup {NoKey}, mine : BOOLEAN])
  /\ \A i, j \in DOMAIN log : log[i].key = log[j].key /\ log[i].key # NoKey => i = j

\* There is nothing else in a thread...
Entries(s) == \A i \in DOMAIN s : Genuine(s[i]) \/ Optimistic(s[i])

\* ...and none of it twice, unless loadOlder has put it above itself.
Distinct(s) ==
  \A i, j \in DOMAIN s : i # j =>
    /\ s[i].id = s[j].id /\ s[i].id # 0 => s[i].id \in doubled
    /\ s[i].key = s[j].key /\ s[i].key # NoKey => SeqsOf(s[i].key) \cap doubled # {}

\* A stored message is shown that is older than message q.
Under(s, q) == \E j \in DOMAIN s : s[j].id # 0 /\ s[j].seq < q

\* A thread that older messages are fetched for begins with the number of one, and shows
\* one. If the message of a bubble is stored, then one that is older is shown.
Rooted(s) ==
  /\ s # <<>> /\ s[1].seq \in DOMAIN log
  /\ \E j \in DOMAIN s : s[j].id # 0
  /\ \A i \in DOMAIN s : s[i].id = 0 => \A q \in SeqsOf(s[i].key) : Under(s, q)

\* If the message of a bubble is stored, then not before n, or an older one is shown.
Behind(s, n) ==
  \A i \in DOMAIN s : s[i].id = 0 => \A q \in SeqsOf(s[i].key) : n <= q \/ Under(s, q)

\* Both are kept where no stored message goes and no bubble comes but of what is not
\* stored.
LEMMA RootsKept ==
  ASSUME NEW s, NEW t,
         \A i \in DOMAIN s : s[i].id # 0 =>
           \E j \in DOMAIN t : t[j].id # 0 /\ t[j].seq = s[i].seq,
         \A i \in DOMAIN t : t[i].id = 0 =>
           \/ SeqsOf(t[i].key) = {}
           \/ \E j \in DOMAIN s : s[j].id = 0 /\ s[j].key = t[i].key
  PROVE  /\ Rooted(s) /\ t # <<>> /\ t[1].seq \in DOMAIN log => Rooted(t)
         /\ \A n \in Nat : Behind(s, n) => Behind(t, n)
  <1>1. \A q : Under(s, q) => Under(t, q)
    BY DEF Under
  <1>2. (\E j \in DOMAIN s : s[j].id # 0) => \E j \in DOMAIN t : t[j].id # 0
    OBVIOUS
  <1>3. ASSUME NEW n \in Nat, Behind(s, n) PROVE Behind(t, n)
    BY <1>1, <1>3 DEF Behind
  <1> QED
    BY <1>1, <1>2, <1>3 DEF Rooted

-----------------------------------------------------------------------------
\* A thread that is extended by a message it does not have, and sorted.
LEMMA InsertKeeps ==
  ASSUME Logged, NEW s \in Seq(Message), Entries(s), Distinct(s),
         NEW m \in Message, Genuine(m), \A i \in DOMAIN s : ~SameMessage(s[i], m)
  PROVE  /\ SortBySeq(Append(s, m)) \in Seq(Message)
         /\ Entries(SortBySeq(Append(s, m)))
         /\ Distinct(SortBySeq(Append(s, m)))
         /\ Rooted(s) => Rooted(SortBySeq(Append(s, m)))
         /\ \A n \in Nat : Behind(s, n) => Behind(SortBySeq(Append(s, m)), n)
  <1> DEFINE a == Append(s, m)
             t == SortBySeq(a)
             D == DOMAIN a
  <1>1. /\ a \in Seq(Message) /\ D = 1..(Len(s) + 1) /\ Len(s) \in Nat
        /\ DOMAIN s = 1..Len(s)
        /\ \A i \in DOMAIN s : a[i] = s[i]
        /\ a[Len(s) + 1] = m
    OBVIOUS
  <1>2. \A i \in D : i \in DOMAIN s \/ a[i] = m
    BY <1>1
  <1>3. \A i, j \in D : i # j => i \in DOMAIN s \/ j \in DOMAIN s
    BY <1>1
  <1> HIDE DEF a
  <1>4. /\ t \in Seq(Message) /\ DOMAIN t = D /\ Len(t) = Len(a)
        /\ \A i, j \in D : i <= j => t[i].seq <= t[j].seq
    BY <1>1, Sorted
  <1>5. PICK place \in [D -> D] :
          /\ \A i, j \in D : place[i] = place[j] => i = j
          /\ \A i \in D : \E n \in D : place[n] = i
          /\ \A n \in D : t[n] = a[place[n]]
    BY <1>1, Sorted
  <1> HIDE DEF t
  <1>6. m.id # 0
    BY DEF Genuine, Logged
  <1>7. \A i \in D : Genuine(a[i]) \/ Optimistic(a[i])
    BY <1>1, <1>2 DEF Entries
  <1>8. Entries(t)
    BY <1>4, <1>5, <1>7 DEF Entries
  <1>9. ASSUME NEW i \in D, NEW j \in D, i # j
        PROVE  /\ a[i].id = a[j].id /\ a[i].id # 0 => a[i].id \in doubled
               /\ a[i].key = a[j].key /\ a[i].key # NoKey
                    => SeqsOf(a[i].key) \cap doubled # {}
    <2>1. CASE i \in DOMAIN s /\ j \in DOMAIN s
      BY <1>1, <1>9, <2>1 DEF Distinct
    <2>2. CASE i \in DOMAIN s /\ j \notin DOMAIN s
      BY <1>1, <1>2, <2>2 DEF SameMessage
    <2>3. CASE i \notin DOMAIN s /\ j \in DOMAIN s
      BY <1>1, <1>2, <2>3 DEF SameMessage
    <2> QED
      BY <1>3, <1>9, <2>1, <2>2, <2>3
  <1>10. Distinct(t)
    <2> SUFFICES ASSUME NEW i \in D, NEW j \in D, i # j
                 PROVE  /\ t[i].id = t[j].id /\ t[i].id # 0 => t[i].id \in doubled
                        /\ t[i].key = t[j].key /\ t[i].key # NoKey
                             => SeqsOf(t[i].key) \cap doubled # {}
      BY <1>4 DEF Distinct
    <2>1. place[i] \in D /\ place[j] \in D /\ place[i] # place[j]
      BY <1>5
    <2>2. t[i] = a[place[i]] /\ t[j] = a[place[j]]
      BY <1>5
    <2> QED
      BY <1>9, <2>1, <2>2
  <1>11. \A i \in D : t[i].seq \in Nat /\ a[i].seq \in Nat
    <2> SUFFICES ASSUME NEW i \in D PROVE t[i].seq \in Nat /\ a[i].seq \in Nat
      OBVIOUS
    <2>1. t[i] \in Message /\ a[i] \in Message
      BY <1>1, <1>4
    <2> QED
      BY <2>1, MessageFields
  <1>12. 1 \in D /\ Len(a) \in D /\ Len(a) = Len(s) + 1
    BY <1>1
  <1>13. t # <<>>
    BY <1>1, <1>4, <1>12
  <1>14. \E n \in D : t[n] = m
    <2>1. Len(s) + 1 \in D /\ a[Len(s) + 1] = m
      BY <1>1
    <2> QED
      BY <1>5, <2>1
  <1>15. \A i \in D : t[i].id = 0 =>
           place[i] \in DOMAIN s /\ t[i] = s[place[i]]
    BY <1>1, <1>2, <1>5, <1>6
  <1>16. t[1].seq \in DOMAIN log
    <2>1. PICK n \in D : t[n] = m
      BY <1>14
    <2>2. t[n].seq \in DOMAIN log /\ DOMAIN log = 1..Len(log) /\ Len(log) \in Nat
      BY <2>1 DEF Genuine, Logged
    <2>3. 1 <= n
      BY <1>1
    <2>4. t[1].seq <= t[n].seq
      BY <1>4, <1>12, <2>3
    <2>5. t[1].seq # 0
      BY <1>4, <1>8, <1>12, <2>2 DEF Entries, Genuine, Optimistic
    <2> QED
      BY <1>11, <1>12, <2>2, <2>4, <2>5
  <1>17. ASSUME NEW i \in DOMAIN s, s[i].id # 0
         PROVE  \E j \in D : t[j].id # 0 /\ t[j].seq = s[i].seq
    <2>1. i \in D /\ a[i] = s[i]
      BY <1>1
    <2>2. PICK n \in D : place[n] = i
      BY <1>5, <2>1
    <2> QED
      BY <1>5, <1>17, <2>1, <2>2
  <1>18. /\ Rooted(s) /\ t # <<>> /\ t[1].seq \in DOMAIN log => Rooted(t)
         /\ \A n \in Nat : Behind(s, n) => Behind(t, n)
    <2>1. \A i \in DOMAIN s : s[i].id # 0 =>
            \E j \in DOMAIN t : t[j].id # 0 /\ t[j].seq = s[i].seq
      BY <1>4, <1>17
    <2>2. \A i \in DOMAIN t : t[i].id = 0 =>
            \/ SeqsOf(t[i].key) = {}
            \/ \E j \in DOMAIN s : s[j].id = 0 /\ s[j].key = t[i].key
      BY <1>4, <1>15
    <2> HIDE DEF D
    <2> QED
      BY <2>1, <2>2, RootsKept
  <1>19. t = SortBySeq(Append(s, m))
    BY DEF t, a
  <1> QED
    BY <1>4, <1>8, <1>10, <1>13, <1>16, <1>18, <1>19

\* In a log without repetition, one message has the key.
LEMMA OneSeq ==
  ASSUME Logged, NEW m, Genuine(m), m.key # NoKey
  PROVE  SeqsOf(m.key) = {m.id}
  BY DEF Logged, Genuine, SeqsOf

\* What has the id of a stored message, or its key, is that message or its bubble.
LEMMA SameMeans ==
  ASSUME Logged, NEW m, Genuine(m), NEW e, Genuine(e) \/ Optimistic(e), SameMessage(e, m)
  PROVE  /\ e.key = m.key
         /\ \/ Genuine(e) /\ e.id = m.id /\ e.seq = m.seq
            \/ e.id = 0 /\ m.key # NoKey /\ m.seq \in SeqsOf(e.key)
         /\ m.id # 0
  <1>1. m.id # 0
    BY DEF Genuine, Logged
  <1>2. CASE Genuine(e)
    BY <1>1, <1>2 DEF Genuine, Logged, SameMessage
  <1>3. CASE Optimistic(e)
    BY <1>1, <1>3 DEF Genuine, Logged, SameMessage, Optimistic, SeqsOf
  <1> QED
    BY <1>1, <1>2, <1>3

\* A thread in which one message is overwritten by what the server says of it.
LEMMA ReplaceKeeps ==
  ASSUME Logged, NEW s \in Seq(Message), Entries(s), Distinct(s),
         NEW m \in Message, Genuine(m), NEW i \in DOMAIN s, SameMessage(s[i], m)
  PROVE  /\ [s EXCEPT ![i] = m] \in Seq(Message)
         /\ Entries([s EXCEPT ![i] = m])
         /\ Distinct([s EXCEPT ![i] = m])
         /\ Rooted(s) => Rooted([s EXCEPT ![i] = m])
         /\ \A n \in Nat : Behind(s, n) => Behind([s EXCEPT ![i] = m], n)
  <1> DEFINE t == [s EXCEPT ![i] = m]
             D == DOMAIN s
  <1>1. /\ t \in Seq(Message) /\ DOMAIN t = D /\ Len(t) = Len(s)
        /\ t[i] = m /\ \A j \in D : j # i => t[j] = s[j]
    OBVIOUS
  <1>2. D = 1..Len(s) /\ Len(s) \in Nat
    OBVIOUS
  <1> HIDE DEF t
  <1>3. Genuine(s[i]) \/ Optimistic(s[i])
    BY DEF Entries
  <1>4. /\ s[i].key = m.key /\ m.id # 0
        /\ \/ Genuine(s[i]) /\ s[i].id = m.id /\ s[i].seq = m.seq
           \/ s[i].id = 0 /\ m.key # NoKey /\ m.seq \in SeqsOf(s[i].key)
    BY <1>3, SameMeans
  <1>5. Entries(t)
    BY <1>1 DEF Entries
  <1>6. ASSUME NEW j \in D, j # i
        PROVE  /\ s[j].id = m.id => m.id \in doubled
               /\ s[j].key = m.key /\ m.key # NoKey => SeqsOf(m.key) \cap doubled # {}
    <2>1. s[j].key = m.key /\ m.key # NoKey => SeqsOf(m.key) \cap doubled # {}
      BY <1>4, <1>6 DEF Distinct
    <2>2. ASSUME s[j].id = m.id PROVE m.id \in doubled
      <3>1. CASE s[i].id = m.id
        BY <1>4, <1>6, <2>2, <3>1 DEF Distinct
      <3>2. CASE s[i].id # m.id
        <4>1. m.key # NoKey
          BY <1>4, <3>2
        <4>2. Genuine(s[j])
          BY <1>4, <2>2 DEF Entries, Optimistic
        <4>3. s[j].key = m.key
          BY <2>2, <4>2 DEF Genuine
        <4> QED
          BY <2>1, <4>1, <4>3, OneSeq
      <3> QED
        BY <3>1, <3>2
    <2> QED
      BY <2>1, <2>2
  <1>7. Distinct(t)
    <2> SUFFICES ASSUME NEW j \in D, NEW k \in D, j # k
                 PROVE  /\ t[j].id = t[k].id /\ t[j].id # 0 => t[j].id \in doubled
                        /\ t[j].key = t[k].key /\ t[j].key # NoKey
                             => SeqsOf(t[j].key) \cap doubled # {}
      BY <1>1 DEF Distinct
    <2>1. CASE j = i
      BY <1>1, <1>6, <2>1
    <2>2. CASE k = i
      BY <1>1, <1>6, <2>2
    <2>3. CASE j # i /\ k # i
      BY <1>1, <2>3 DEF Distinct
    <2> QED
      BY <2>1, <2>2, <2>3
  <1>8. \A j \in D : t[j].id = 0 => j # i /\ t[j] = s[j]
    BY <1>1, <1>4
  <1>9. t # <<>> /\ s # <<>>
    BY <1>1
  <1>10. t[i].id # 0 /\ \A j \in D : s[j].id # 0 => t[j].id # 0 /\ t[j].seq = s[j].seq
    BY <1>1, <1>4
  <1>11. 1 \in D /\ (t[1] = s[1] \/ t[1] = m) /\ m.seq \in DOMAIN log
    BY <1>1, <1>2 DEF Genuine
  <1>12. /\ Rooted(s) /\ t # <<>> /\ t[1].seq \in DOMAIN log => Rooted(t)
         /\ \A n \in Nat : Behind(s, n) => Behind(t, n)
    BY <1>1, <1>8, <1>10, RootsKept
  <1>13. Rooted(s) => t[1].seq \in DOMAIN log
    BY <1>11 DEF Rooted
  <1> QED
    BY <1>1, <1>5, <1>7, <1>9, <1>12, <1>13 DEF t

\* mergeMessage keeps a thread in order.
LEMMA MergeKeeps ==
  ASSUME Logged, NEW s \in Seq(Message), Entries(s), Distinct(s),
         NEW m \in Message, Genuine(m)
  PROVE  /\ mergeMessage(s, m) \in Seq(Message)
         /\ Entries(mergeMessage(s, m))
         /\ Distinct(mergeMessage(s, m))
         /\ Rooted(s) => Rooted(mergeMessage(s, m))
         /\ \A n \in Nat : Behind(s, n) => Behind(mergeMessage(s, m), n)
  <1> DEFINE at == {i \in DOMAIN s : SameMessage(s[i], m)}
             first == CHOOSE i \in at : \A j \in at : i <= j
  <1>1. mergeMessage(s, m) = IF at = {} THEN SortBySeq(Append(s, m))
                             ELSE [s EXCEPT ![first] = m]
    BY DEF mergeMessage
  <1>2. CASE at = {}
    <2>1. \A i \in DOMAIN s : ~SameMessage(s[i], m)
      BY <1>2
    <2>2. mergeMessage(s, m) = SortBySeq(Append(s, m))
      BY <1>1, <1>2
    <2> QED
      BY <2>1, <2>2, InsertKeeps
  <1>3. CASE at # {}
    <2>1. PICK top \in at : TRUE
      BY <1>3
    <2>2. at \in SUBSET Nat
      BY Places
    <2>3. first \in at
      BY <2>1, <2>2, LeastNumber
    <2>4. first \in DOMAIN s /\ SameMessage(s[first], m)
      BY <2>3
    <2>5. mergeMessage(s, m) = [s EXCEPT ![first] = m]
      BY <1>1, <1>3
    <2> HIDE DEF first
    <2> QED
      BY <2>4, <2>5, ReplaceKeeps
  <1> QED
    BY <1>2, <1>3

\* The recursion of Merging has a solution: were there a least number of messages
\* without one, then it would extend the one before.
LEMMA MergingSteps ==
  ASSUME NEW s, NEW rows \in Seq(Message)
  PROVE  /\ Merging(s, rows)[0] = s
         /\ \A n \in 1..Len(rows) :
              Merging(s, rows)[n] = mergeMessage(Merging(s, rows)[n - 1], rows[n])
  <1> DEFINE Step(f, n) == IF n = 0 THEN s ELSE mergeMessage(f[n - 1], rows[n])
             Solves(f, top) == f = [n \in 0..top |-> Step(f, n)]
             bad == {top \in 0..Len(rows) : \A f : ~Solves(f, top)}
  <1>1. Len(rows) \in Nat
    OBVIOUS
  <1>2. bad = {}
    <2> SUFFICES ASSUME bad # {} PROVE FALSE
      OBVIOUS
    <2>1. PICK some \in bad : TRUE
      OBVIOUS
    <2>2. bad \in SUBSET Nat
      OBVIOUS
    <2>3. PICK top \in bad : \A n \in bad : top <= n
      <3> HIDE DEF bad
      <3> QED
        BY <2>1, <2>2, LeastNumber
    <2>4. top \in 0..Len(rows) /\ top \in Nat /\ \A f : ~Solves(f, top)
      BY <1>1, <2>3
    <2>5. top # 0
      <3> SUFFICES ASSUME top = 0 PROVE FALSE
        OBVIOUS
      <3> DEFINE f == [n \in 0..0 |-> s]
      <3>1. f = [n \in 0..0 |-> Step(f, n)]
        OBVIOUS
      <3>2. Solves(f, top)
        BY <3>1
      <3> QED
        BY <2>4, <3>2
    <2>6. top - 1 \in 0..Len(rows) /\ top - 1 \notin bad
      <3> HIDE DEF bad
      <3> QED
        BY <1>1, <2>3, <2>4, <2>5
    <2>7. PICK f : Solves(f, top - 1)
      BY <2>6
    <2> DEFINE g == [n \in 0..top |-> Step(f, n)]
    <2>8. \A n \in 0..(top - 1) : f[n] = g[n]
      BY <2>4, <2>7
    <2>9. \A n \in 0..top : Step(f, n) = Step(g, n)
      <3> HIDE DEF g
      <3>1. \A n \in 0..top : n # 0 => n - 1 \in 0..(top - 1)
        BY <2>4
      <3> QED
        BY <2>8, <3>1
    <2>10. Solves(g, top)
      BY <2>9
    <2> QED
      BY <2>4, <2>10
  <1>3. \E f : Solves(f, Len(rows))
    BY <1>1, <1>2
  <1>4. Merging(s, rows) = CHOOSE f : Solves(f, Len(rows))
    BY DEF Merging
  <1>5. Solves(Merging(s, rows), Len(rows))
    BY <1>3, <1>4
  <1>6. \A n \in 0..Len(rows) : Merging(s, rows)[n] = Step(Merging(s, rows), n)
    BY <1>5
  <1> QED
    BY <1>1, <1>6

\* Merging a page keeps a thread in order, as merging each of its messages does.
LEMMA MergedKeeps ==
  ASSUME Logged, NEW s \in Seq(Message), Entries(s), Distinct(s),
         NEW rows \in Seq(Message), \A j \in DOMAIN rows : Genuine(rows[j])
  PROVE  /\ Merged(s, rows) \in Seq(Message)
         /\ Entries(Merged(s, rows))
         /\ Distinct(Merged(s, rows))
         /\ Rooted(s) => Rooted(Merged(s, rows))
         /\ \A n \in Nat : Behind(s, n) => Behind(Merged(s, rows), n)
  <1> DEFINE merged(n) == Merging(s, rows)[n]
             Good(n) == /\ merged(n) \in Seq(Message)
                        /\ Entries(merged(n))
                        /\ Distinct(merged(n))
                        /\ Rooted(s) => Rooted(merged(n))
                        /\ \A q \in Nat : Behind(s, q) => Behind(merged(n), q)
             bad == {n \in 0..Len(rows) : ~Good(n)}
  <1>1. Len(rows) \in Nat /\ DOMAIN rows = 1..Len(rows)
    OBVIOUS
  <1>2. merged(0) = s
    BY MergingSteps
  <1>3. \A n \in 1..Len(rows) : merged(n) = mergeMessage(merged(n - 1), rows[n])
    BY MergingSteps
  <1> HIDE DEF merged
  <1>4. Good(0)
    BY <1>2
  <1>5. ASSUME NEW n \in 1..Len(rows), Good(n - 1) PROVE Good(n)
    <2>1. rows[n] \in Message /\ Genuine(rows[n])
      BY <1>1
    <2> QED
      BY <1>3, <1>5, <2>1, MergeKeeps
  <1> HIDE DEF Good
  <1>6. bad = {}
    <2> SUFFICES ASSUME bad # {} PROVE FALSE
      OBVIOUS
    <2>1. PICK some \in bad : TRUE
      OBVIOUS
    <2>2. bad \in SUBSET Nat
      OBVIOUS
    <2> HIDE DEF bad
    <2>3. PICK n \in bad : \A k \in bad : n <= k
      BY <2>1, <2>2, LeastNumber
    <2>4. n \in 0..Len(rows) /\ ~Good(n)
      BY <2>3 DEF bad
    <2>5. n \in 1..Len(rows) /\ n - 1 \in 0..Len(rows)
      BY <1>1, <1>4, <2>4
    <2>6. n - 1 \notin bad
      BY <2>3, <2>5
    <2>7. Good(n - 1)
      BY <2>5, <2>6 DEF bad
    <2> QED
      BY <1>5, <2>4, <2>5, <2>7
  <1>7. Good(Len(rows))
    BY <1>1, <1>6
  <1> QED
    BY <1>7 DEF Good, merged, Merged

\* What is on its way to the client is genuine, and an acknowledgement has a key.
UnderWay ==
  /\ \A h \in handlers :
       h.seq \in DOMAIN log /\ (h.via = "socket" => log[h.seq].key # NoKey)
  /\ \A i \in DOMAIN inbox :
       /\ inbox[i].type \in {"new", "ack"} => Genuine(inbox[i].msg)
       /\ inbox[i].type = "ack" => inbox[i].msg.key # NoKey
  /\ \A m \in answers : Genuine(m)

\* The rows of a page ascend, and it has some if it says there are more above them (but
\* for the backfill's, which nobody asks). An older page is of messages before one that
\* is stored.
PageOK(p) ==
  /\ \A j \in DOMAIN p.rows : Genuine(p.rows[j])
  /\ \A j, k \in DOMAIN p.rows : j < k => p.rows[j].id < p.rows[k].id
  /\ p.kind # "backfill" /\ p.more => p.rows # <<>>
  /\ p.kind = "older" =>
       /\ p.from \in DOMAIN log /\ Behind(thread, p.from)
       /\ \A j \in DOMAIN p.rows : p.rows[j].id < p.from

Paged == \A i \in DOMAIN pages : PageOK(pages[i])

\* Older messages are asked for when there is a thread to put them above.
Anchored ==
  /\ hasMore => loaded /\ Rooted(thread)
  /\ (\E i \in DOMAIN pages : pages[i].kind = "older") => loaded

ThreadInv ==
  TypeOK /\ Logged /\ UnderWay /\ Paged /\ Entries(thread) /\ Distinct(thread) /\ Anchored

-----------------------------------------------------------------------------
(***************************************************************************)
(* Types of what the steps are built from                                  *)
(***************************************************************************)

LEMMA StatusValues == Status = {"sending", "failed", "sent", "read"}
  BY DEF Status, Rank

LEMMA StoredType ==
  ASSUME Logged, NEW n \in DOMAIN log, NEW read \in Nat
  PROVE  Stored(n, read) \in Message /\ Genuine(Stored(n, read)) /\ Stored(n, read).id = n
  <1> DEFINE Record == [key : Key \cup {NoKey}, mine : BOOLEAN]
  <1>1. n \in Nat /\ log[n].key \in Key \cup {NoKey} /\ log[n].mine \in BOOLEAN
    <2>1. log \in Seq(Record)
      BY DEF Logged
    <2> HIDE DEF Record
    <2>2. n \in Nat /\ log[n] \in Record
      BY <2>1
    <2> QED
      BY <2>2 DEF Record
  <1> QED
    BY <1>1, StatusValues DEF Stored, Message, Genuine

LEMMA RowsType ==
  ASSUME Logged, peerRead \in Nat, NEW from \in Int, NEW to \in Int,
         from >= 1, to <= Len(log)
  PROVE  /\ Rows(from, to) \in Seq(Message)
         /\ DOMAIN Rows(from, to) = 1..(to + 1 - from)
         /\ \A j \in DOMAIN Rows(from, to) :
              /\ Genuine(Rows(from, to)[j])
              /\ Rows(from, to)[j].id = from + j - 1
  <1> DEFINE rows == Rows(from, to)
  <1>1. DOMAIN log = 1..Len(log) /\ Len(log) \in Nat
    BY DEF Logged
  <1>2. DOMAIN rows = 1..(to + 1 - from)
    BY DEF Rows
  <1>3. ASSUME NEW j \in 1..(to + 1 - from)
        PROVE  rows[j] \in Message /\ Genuine(rows[j]) /\ rows[j].id = from + j - 1
    <2>1. from + j - 1 \in DOMAIN log
      BY <1>1
    <2>2. rows[j] = Stored(from + j - 1, peerRead)
      BY DEF Rows
    <2> QED
      BY <2>1, <2>2, StoredType
  <1>4. rows \in [1..(to + 1 - from) -> Message]
    <2>1. rows = [j \in 1..(to + 1 - from) |-> rows[j]]
      BY DEF Rows
    <2> HIDE DEF rows
    <2> QED
      BY <1>3, <2>1
  <1> HIDE DEF rows
  <1>5. rows \in Seq(Message)
    <2>1. CASE to + 1 - from \in Nat
      BY <1>4, <2>1
    <2>2. CASE to + 1 - from \notin Nat
      <3>1. 1..(to + 1 - from) = 1..0
        BY <2>2
      <3> QED
        BY <1>4, <3>1
    <2> QED
      BY <2>1, <2>2
  <1> QED
    BY <1>2, <1>3, <1>5 DEF rows

LEMMA LastSeqType ==
  ASSUME NEW s \in Seq(Message)
  PROVE  LastSeq(s) \in Nat /\ (s # <<>> => LastSeq(s) = s[Len(s)].seq /\ Len(s) \in DOMAIN s)
  <1>1. ASSUME s # <<>> PROVE Len(s) \in DOMAIN s /\ s[Len(s)] \in Message
    BY <1>1
  <1> QED
    BY <1>1, MessageFields DEF LastSeq, Last

LEMMA BubbleType ==
  ASSUME thread \in Seq(Message), NEW k \in Key
  PROVE  Bubble(k) \in Message
  <1>1. LastSeq(thread) \in Nat
    BY LastSeqType
  <1>2. LastSeq(thread) + 1 \in Nat /\ "sending" \in Status /\ k \in Key \cup {NoKey}
    BY <1>1, StatusValues
  <1> QED
    BY <1>2 DEF Bubble, Message

LEMMA EventTypes ==
  /\ \A e \in Event : e.type \in {"new", "ack"} => e.msg \in Message
  /\ \A e \in Event : e.type = "read" => e.seq \in Nat
  /\ \A e \in Event : e.type \in {"new", "ack", "read"}
  /\ \A m \in Message : /\ [type |-> "new", msg |-> m] \in Event
                        /\ [type |-> "ack", msg |-> m] \in Event
  /\ \A n \in Nat : [type |-> "read", seq |-> n] \in Event
  BY DEF Event

LEMMA PageTypes ==
  /\ \A kind \in {"open", "older", "backfill"}, from \in Nat :
       [kind |-> kind, from |-> from, got |-> FALSE, rows |-> <<>>, more |-> FALSE] \in Page
  /\ \A p \in Page : /\ p.kind \in {"open", "older", "backfill"} /\ p.from \in Nat
                     /\ p.got \in BOOLEAN /\ p.rows \in Seq(Message) /\ p.more \in BOOLEAN
  <1>1. <<>> \in Seq(Message)
    OBVIOUS
  <1> DEFINE R == Seq(Message)
  <1> HIDE DEF R
  <1>2. Page = [kind : {"open", "older", "backfill"}, from : Nat, got : BOOLEAN,
                rows : R, more : BOOLEAN]
    BY DEF Page, R
  <1> QED
    BY <1>1, <1>2 DEF R

\* Removing one of a sequence.
LEMMA Removed ==
  ASSUME NEW T, NEW s \in Seq(T), NEW i \in DOMAIN s
  PROVE  /\ RemoveAt(s, i) \in Seq(T)
         /\ DOMAIN RemoveAt(s, i) = 1..(Len(s) - 1)
         /\ \A j \in 1..(Len(s) - 1) :
              RemoveAt(s, i)[j] = IF j < i THEN s[j] ELSE s[j + 1]
  <1> DEFINE a == SubSeq(s, 1, i - 1)
             b == SubSeq(s, i + 1, Len(s))
  <1>1. i \in 1..Len(s) /\ Len(s) \in Nat
    OBVIOUS
  <1>2. a \in Seq(T) /\ Len(a) = i - 1 /\ \A j \in 1..(i - 1) : a[j] = s[j]
    BY <1>1
  <1>3. b \in Seq(T) /\ Len(b) = Len(s) - i /\ \A j \in 1..(Len(s) - i) : b[j] = s[i + j]
    BY <1>1
  <1>4. RemoveAt(s, i) = a \o b
    BY DEF RemoveAt
  <1> HIDE DEF a, b
  <1>5. a \o b \in Seq(T) /\ Len(a \o b) = Len(s) - 1
    BY <1>1, <1>2, <1>3
  <1>6. ASSUME NEW j \in 1..(Len(s) - 1)
        PROVE  (a \o b)[j] = IF j < i THEN s[j] ELSE s[j + 1]
    <2>1. CASE j < i
      BY <1>1, <1>2, <1>3, <2>1
    <2>2. CASE ~(j < i)
      <3>1. j + 1 - i \in 1..(Len(s) - i) /\ i + (j + 1 - i) = j + 1
        BY <1>1, <2>2
      <3>2. (a \o b)[j] = b[j + 1 - i]
        BY <1>1, <1>2, <1>3, <2>2
      <3> QED
        BY <1>3, <2>2, <3>1, <3>2
    <2> QED
      BY <2>1, <2>2
  <1>7. \A j \in 1..(Len(s) - 1) :
          RemoveAt(s, i)[j] = IF j < i THEN s[j] ELSE s[j + 1]
    BY <1>4, <1>6
  <1>8. RemoveAt(s, i) \in Seq(T) /\ DOMAIN RemoveAt(s, i) = 1..(Len(s) - 1)
    BY <1>4, <1>5
  <1> QED
    BY <1>7, <1>8

-----------------------------------------------------------------------------
(***************************************************************************)
(* The other changes of a thread                                           *)
(***************************************************************************)

\* A thread in which only statuses change.
LEMMA RestatedKeeps ==
  ASSUME Logged, NEW s \in Seq(Message), Entries(s), Distinct(s),
         NEW t \in Seq(Message), DOMAIN t = DOMAIN s, Len(t) = Len(s),
         \A i \in DOMAIN s : t[i].id = s[i].id /\ t[i].seq = s[i].seq /\ t[i].key = s[i].key
  PROVE  /\ Entries(t) /\ Distinct(t)
         /\ Rooted(s) => Rooted(t)
         /\ \A n \in Nat : Behind(s, n) => Behind(t, n)
  <1>1. Entries(t)
    BY DEF Entries, Genuine, Optimistic
  <1>2. Distinct(t)
    BY DEF Distinct
  <1>3. s # <<>> => t # <<>> /\ 1 \in DOMAIN s
    OBVIOUS
  <1>4. /\ Rooted(s) /\ t # <<>> /\ t[1].seq \in DOMAIN log => Rooted(t)
        /\ \A n \in Nat : Behind(s, n) => Behind(t, n)
    BY RootsKept
  <1>5. Rooted(s) => t # <<>> /\ t[1].seq \in DOMAIN log
    BY <1>3 DEF Rooted
  <1> QED
    BY <1>1, <1>2, <1>4, <1>5

LEMMA ReceiptedKeeps ==
  ASSUME Logged, NEW s \in Seq(Message), Entries(s), Distinct(s), NEW seq \in Nat
  PROVE  /\ Receipted(s, seq) \in Seq(Message)
         /\ Entries(Receipted(s, seq)) /\ Distinct(Receipted(s, seq))
         /\ Rooted(s) => Rooted(Receipted(s, seq))
         /\ \A n \in Nat : Behind(s, n) => Behind(Receipted(s, seq), n)
  <1> DEFINE t == Receipted(s, seq)
  <1>1. DOMAIN t = DOMAIN s /\ DOMAIN s = 1..Len(s) /\ Len(s) \in Nat
    BY DEF Receipted
  <1>2. ASSUME NEW i \in DOMAIN s
        PROVE  /\ t[i] \in Message
               /\ t[i].id = s[i].id /\ t[i].seq = s[i].seq /\ t[i].key = s[i].key
    <2>1. s[i] \in Message
      OBVIOUS
    <2>2. t[i] = [s[i] EXCEPT !.status = "read"] \/ t[i] = s[i]
      BY DEF Receipted
    <2> QED
      BY <2>1, <2>2, StatusValues DEF Message
  <1>3. t = [i \in 1..Len(s) |-> t[i]]
    BY <1>1 DEF Receipted
  <1> HIDE DEF t
  <1>4. t \in Seq(Message) /\ Len(t) = Len(s)
    <2>1. t \in [1..Len(s) -> Message]
      BY <1>1, <1>2, <1>3
    <2> QED
      BY <1>1, <2>1
  <1> QED
    BY <1>1, <1>2, <1>4, RestatedKeeps DEF t

LEMMA FailedKeeps ==
  ASSUME Logged, NEW s \in Seq(Message), Entries(s), Distinct(s), NEW k
  PROVE  /\ Failed(s, k) \in Seq(Message)
         /\ Entries(Failed(s, k)) /\ Distinct(Failed(s, k))
         /\ Rooted(s) => Rooted(Failed(s, k))
         /\ \A n \in Nat : Behind(s, n) => Behind(Failed(s, k), n)
  <1> DEFINE t == Failed(s, k)
  <1>1. DOMAIN t = DOMAIN s /\ DOMAIN s = 1..Len(s) /\ Len(s) \in Nat
    BY DEF Failed
  <1>2. ASSUME NEW i \in DOMAIN s
        PROVE  /\ t[i] \in Message
               /\ t[i].id = s[i].id /\ t[i].seq = s[i].seq /\ t[i].key = s[i].key
    <2>1. s[i] \in Message
      OBVIOUS
    <2>2. t[i] = [s[i] EXCEPT !.status = "failed"] \/ t[i] = s[i]
      BY DEF Failed
    <2> QED
      BY <2>1, <2>2, StatusValues DEF Message
  <1>3. t = [i \in 1..Len(s) |-> t[i]]
    BY <1>1 DEF Failed
  <1> HIDE DEF t
  <1>4. t \in Seq(Message) /\ Len(t) = Len(s)
    <2>1. t \in [1..Len(s) -> Message]
      BY <1>1, <1>2, <1>3
    <2> QED
      BY <1>1, <2>1
  <1> QED
    BY <1>1, <1>2, <1>4, RestatedKeeps DEF t

\* An acknowledged bubble becomes the stored message, where it is.
LEMMA AckedKeeps ==
  ASSUME Logged, NEW s \in Seq(Message), Entries(s), Distinct(s),
         NEW m \in Message, Genuine(m), m.key # NoKey
  PROVE  /\ Acked(s, m) \in Seq(Message)
         /\ Entries(Acked(s, m)) /\ Distinct(Acked(s, m))
         /\ Rooted(s) => Rooted(Acked(s, m))
         /\ \A n \in Nat : Behind(s, n) => Behind(Acked(s, m), n)
  <1> DEFINE t == Acked(s, m)
             D == DOMAIN s
  <1>1. DOMAIN t = D /\ D = 1..Len(s) /\ Len(s) \in Nat
    BY DEF Acked
  <1>2. ASSUME NEW i \in D
        PROVE  /\ t[i] \in Message
               /\ t[i].key = s[i].key
               /\ s[i].key = m.key => t[i].id = m.id /\ t[i].seq = m.seq
               /\ s[i].key # m.key => t[i].id = s[i].id /\ t[i].seq = s[i].seq
    <2>1. s[i] \in Message
      OBVIOUS
    <2>2. CASE s[i].key # m.key
      BY <2>1, <2>2 DEF Acked
    <2>3. CASE s[i].key = m.key
      <3> DEFINE status == IF s[i].status = "sending" THEN m.status ELSE s[i].status
      <3>1. t[i] = [s[i] EXCEPT !.id = m.id, !.seq = m.seq, !.status = status]
        BY <2>3 DEF Acked
      <3>2. status \in Status
        BY <2>1, MessageFields
      <3> HIDE DEF status
      <3> QED
        BY <2>1, <2>3, <3>1, <3>2 DEF Message
    <2> QED
      BY <2>2, <2>3
  <1>3. t = [i \in 1..Len(s) |-> t[i]]
    BY <1>1 DEF Acked
  <1> HIDE DEF t
  <1>4. t \in Seq(Message) /\ Len(t) = Len(s)
    <2>1. t \in [1..Len(s) -> Message]
      BY <1>1, <1>2, <1>3
    <2> QED
      BY <1>1, <2>1
  <1>5. m.id # 0 /\ m.seq = m.id /\ SeqsOf(m.key) = {m.id}
    BY OneSeq DEF Genuine, Logged
  <1>6. ASSUME NEW i \in D, s[i].id # 0
        PROVE  Genuine(s[i]) /\ t[i].id = s[i].id /\ t[i].seq = s[i].seq
    <2>1. Genuine(s[i])
      BY <1>6 DEF Entries, Optimistic
    <2>2. s[i].key = m.key => s[i].id = m.id /\ s[i].seq = m.seq
      BY <1>5, <2>1, OneSeq DEF Genuine
    <2> QED
      BY <1>2, <2>1, <2>2
  <1>7. \A i \in D : t[i].id = 0 => s[i].id = 0 /\ s[i].key # m.key /\ t[i].seq = s[i].seq
    BY <1>2, <1>5
  <1>8. Entries(t)
    <2> SUFFICES ASSUME NEW i \in D PROVE Genuine(t[i]) \/ Optimistic(t[i])
      BY <1>1 DEF Entries
    <2>1. Genuine(s[i]) \/ Optimistic(s[i])
      BY DEF Entries
    <2> QED
      BY <1>2, <2>1 DEF Genuine, Optimistic
  <1>9. Distinct(t)
    <2> SUFFICES ASSUME NEW i \in D, NEW j \in D, i # j
                 PROVE  /\ t[i].id = t[j].id /\ t[i].id # 0 => t[i].id \in doubled
                        /\ t[i].key = t[j].key /\ t[i].key # NoKey
                             => SeqsOf(t[i].key) \cap doubled # {}
      BY <1>1 DEF Distinct
    <2>1. t[i].key = t[j].key /\ t[i].key # NoKey => SeqsOf(t[i].key) \cap doubled # {}
      BY <1>2 DEF Distinct
    <2>2. ASSUME t[i].id = t[j].id, t[i].id # 0 PROVE t[i].id \in doubled
      <3>1. t[i].key = t[j].key
        BY <1>1, <1>8, <2>2 DEF Entries, Genuine, Optimistic
      <3>2. CASE t[i].key = m.key
        BY <1>2, <1>5, <2>1, <3>1, <3>2
      <3>3. CASE t[i].key # m.key
        BY <1>2, <2>2, <3>1, <3>3 DEF Distinct
      <3> QED
        BY <3>2, <3>3
    <2> QED
      BY <2>1, <2>2
  <1>10. /\ Rooted(s) /\ t # <<>> /\ t[1].seq \in DOMAIN log => Rooted(t)
         /\ \A n \in Nat : Behind(s, n) => Behind(t, n)
    BY <1>1, <1>2, <1>6, <1>7, RootsKept
  <1>11. Rooted(s) => t # <<>> /\ t[1].seq \in DOMAIN log
    <2> SUFFICES ASSUME Rooted(s) PROVE t # <<>> /\ t[1].seq \in DOMAIN log
      OBVIOUS
    <2>1. s # <<>> /\ s[1].seq \in DOMAIN log
      BY DEF Rooted
    <2>2. 1 \in D /\ m.seq \in DOMAIN log
      BY <1>1, <2>1 DEF Genuine
    <2> QED
      BY <1>1, <1>2, <1>4, <2>1, <2>2
  <1> QED
    BY <1>4, <1>8, <1>9, <1>10, <1>11 DEF t

-----------------------------------------------------------------------------
(***************************************************************************)
(* The parts of the invariant                                              *)
(***************************************************************************)

\* What every step leaves in order: the log, the thread, and what they said of others.
Kept ==
  /\ Logged' /\ Entries(thread)' /\ Distinct(thread)'
  /\ Rooted(thread) => Rooted(thread)'
  /\ \A n \in DOMAIN log : Behind(thread, n) => Behind(thread, n)'
  /\ \A m : Genuine(m) => Genuine(m)'
  /\ DOMAIN log \subseteq DOMAIN log'

\* A step keeps the log and the thread in order when it only changes the thread.
LEMMA FromThread ==
  ASSUME ThreadInv, UNCHANGED <<log, doubled>>, NEW t \in Seq(Message), thread' = t,
         Entries(t), Distinct(t), Rooted(thread) => Rooted(t),
         \A n \in Nat : Behind(thread, n) => Behind(t, n)
  PROVE  Kept
  <1>1. Logged /\ Logged'
    BY DEF ThreadInv, Logged
  <1>2. \A m : Genuine(m)' <=> Genuine(m)
    BY DEF Genuine
  <1>3. \A k : SeqsOf(k)' = SeqsOf(k)
    BY DEF SeqsOf
  <1>4. Entries(thread)'
    BY DEF Entries, Genuine, Optimistic
  <1>5. Distinct(thread)'
    BY DEF Distinct, SeqsOf
  <1>6. Rooted(thread)' <=> Rooted(t)
    BY DEF Rooted, Under, SeqsOf
  <1>7. \A n \in Nat : Behind(thread, n)' <=> Behind(t, n)
    BY DEF Behind, Under, SeqsOf
  <1>8. DOMAIN log \subseteq Nat
    BY <1>1 DEF Logged
  <1> QED
    BY <1>1, <1>2, <1>4, <1>5, <1>6, <1>7, <1>8 DEF Kept

LEMMA SameThread ==
  ASSUME ThreadInv, UNCHANGED <<log, doubled, thread>>
  PROVE  Kept
  <1>1. PICK t : t = thread
    OBVIOUS
  <1>2. /\ t \in Seq(Message) /\ thread' = t /\ Entries(t) /\ Distinct(t)
        /\ Rooted(thread) => Rooted(t)
        /\ \A n \in Nat : Behind(thread, n) => Behind(t, n)
    BY <1>1 DEF ThreadInv, TypeOK
  <1> QED
    BY <1>2, FromThread

\* A message is stored: what was known of the log stays known.
LEMMA FromLog ==
  ASSUME ThreadInv, UNCHANGED <<thread, doubled>>,
         NEW e \in [key : Key \cup {NoKey}, mine : BOOLEAN], log' = Append(log, e),
         e.key # NoKey => SeqsOf(e.key) = {}
  PROVE  /\ Kept
         /\ Len(log) + 1 \in DOMAIN log' /\ log'[Len(log) + 1] = e
  <1> DEFINE Record == [key : Key \cup {NoKey}, mine : BOOLEAN]
             last == Len(log) + 1
  <1>1. log \in Seq(Record)
    BY DEF ThreadInv, Logged
  <1> HIDE DEF Record
  <1>2. e \in Record
    BY DEF Record
  <1>3. /\ log' \in Seq(Record) /\ DOMAIN log = 1..Len(log) /\ Len(log) \in Nat
        /\ DOMAIN log' = 1..last /\ log'[last] = e
        /\ \A i \in DOMAIN log : log'[i] = log[i]
    BY <1>1, <1>2
  <1>4. \A i \in DOMAIN log' : i \in DOMAIN log \/ i = last
    BY <1>3
  <1>5. DOMAIN log \subseteq DOMAIN log' /\ last \in DOMAIN log' /\ last \notin DOMAIN log
    BY <1>3
  <1>6. Logged'
    <2>1. ASSUME NEW i \in DOMAIN log', NEW j \in DOMAIN log',
                 log'[i].key = log'[j].key, log'[i].key # NoKey
          PROVE  i = j
      <3>1. CASE i \in DOMAIN log /\ j \in DOMAIN log
        BY <1>3, <2>1, <3>1 DEF ThreadInv, Logged
      <3>2. CASE i = last \/ j = last
        BY <1>3, <1>4, <2>1, <3>2 DEF SeqsOf
      <3> QED
        BY <1>4, <3>1, <3>2
    <2> QED
      BY <1>3, <2>1 DEF Logged, Record
  <1>7. \A m : Genuine(m) => Genuine(m)'
    BY <1>3, <1>5 DEF Genuine
  <1>8. \A k : SeqsOf(k) \subseteq SeqsOf(k)' /\ SeqsOf(k)' \subseteq SeqsOf(k) \cup {last}
    BY <1>3, <1>4, <1>5 DEF SeqsOf
  <1>9. Entries(thread)'
    BY <1>7 DEF ThreadInv, Entries, Optimistic
  <1>10. Distinct(thread)'
    BY <1>8 DEF ThreadInv, Distinct
  <1>11. \A q : Under(thread, q) => Under(thread, q)'
    BY DEF Under
  <1>12. ASSUME Rooted(thread) PROVE Rooted(thread)'
    <2>1. Under(thread, last)
      <3>1. PICK j \in DOMAIN thread : thread[j].id # 0
        BY <1>12 DEF Rooted
      <3>2. Genuine(thread[j])
        BY <3>1 DEF ThreadInv, Entries, Optimistic
      <3>3. thread[j].seq \in 1..Len(log)
        BY <1>3, <3>2 DEF Genuine
      <3>4. thread[j].seq < last
        BY <1>3, <3>3
      <3> QED
        BY <3>1, <3>4 DEF Under
    <2>2. \A i \in DOMAIN thread : thread[i].id = 0 =>
            \A q \in SeqsOf(thread[i].key)' : Under(thread, q)'
      BY <1>8, <1>11, <1>12, <2>1 DEF Rooted
    <2> QED
      BY <1>5, <1>12, <2>2 DEF Rooted
  <1>13. ASSUME NEW n \in DOMAIN log, Behind(thread, n) PROVE Behind(thread, n)'
    <2>1. n <= last
      BY <1>3
    <2>2. \A i \in DOMAIN thread : thread[i].id = 0 =>
            \A q \in SeqsOf(thread[i].key)' : n <= q \/ Under(thread, q)'
      BY <1>8, <1>11, <1>13, <2>1 DEF Behind
    <2> QED
      BY <2>2 DEF Behind
  <1> QED
    BY <1>3, <1>5, <1>6, <1>7, <1>9, <1>10, <1>12, <1>13 DEF Kept

\* Pages that stay as they are, or of which one goes.
LEMMA Left ==
  ASSUME NEW s \in Seq(Page), NEW t, t = s \/ \E i \in DOMAIN s : t = RemoveAt(s, i)
  PROVE  /\ t \in Seq(Page)
         /\ \A j \in DOMAIN t : \E i \in DOMAIN s : t[j] = s[i]
  <1>1. CASE t = s
    BY <1>1
  <1>2. ASSUME NEW i \in DOMAIN s, t = RemoveAt(s, i)
        PROVE  /\ t \in Seq(Page)
               /\ \A j \in DOMAIN t : \E k \in DOMAIN s : t[j] = s[k]
    <2> DEFINE was(j) == IF j < i THEN j ELSE j + 1
    <2>1. /\ t \in Seq(Page) /\ DOMAIN t = 1..(Len(s) - 1)
          /\ \A j \in 1..(Len(s) - 1) : t[j] = IF j < i THEN s[j] ELSE s[j + 1]
      BY <1>2, Removed
    <2>2. i \in Nat /\ DOMAIN s = 1..Len(s) /\ Len(s) \in Nat
      OBVIOUS
    <2>3. \A j \in DOMAIN t : was(j) \in DOMAIN s /\ t[j] = s[was(j)]
      BY <2>1, <2>2
    <2> HIDE DEF was
    <2> QED
      BY <2>1, <2>3
  <1> QED
    BY <1>1, <1>2

\* A page stays in order.
LEMMA PageKept ==
  ASSUME Kept, NEW p, PageOK(p)
  PROVE  PageOK(p)'
  BY DEF Kept, PageOK

LEMMA PagesLeft ==
  ASSUME ThreadInv, Kept, pages' = pages \/ \E i \in DOMAIN pages : pages' = RemoveAt(pages, i)
  PROVE  pages' \in Seq(Page) /\ Paged'
  <1>1. /\ pages' \in Seq(Page)
        /\ \A j \in DOMAIN pages' : \E i \in DOMAIN pages : pages'[j] = pages[i]
    BY Left DEF ThreadInv, TypeOK, Paged
  <1>2. ASSUME NEW j \in DOMAIN pages' PROVE PageOK(pages[j])'
    <2>1. PICK i \in DOMAIN pages : pages'[j] = pages[i]
      BY <1>1
    <2>2. PICK p : p = pages[i]
      OBVIOUS
    <2>3. PageOK(p)'
      BY <2>2, PageKept DEF ThreadInv, Paged
    <2> QED
      BY <2>1, <2>2, <2>3 DEF PageOK
  <1> QED
    BY <1>1, <1>2 DEF Paged

\* A request is added.
LEMMA PageAdded ==
  ASSUME ThreadInv, Kept, NEW p \in Page, pages' = Append(pages, p), PageOK(p)'
  PROVE  pages' \in Seq(Page) /\ Paged'
  <1> DEFINE last == Len(pages) + 1
  <1>1. pages \in Seq(Page)
    BY DEF ThreadInv, TypeOK
  <1>2. /\ pages' \in Seq(Page) /\ pages'[last] = p
        /\ \A i \in DOMAIN pages' : i \in DOMAIN pages \/ i = last
        /\ \A i \in DOMAIN pages : pages'[i] = pages[i]
    BY <1>1
  <1>3. ASSUME NEW j \in DOMAIN pages' PROVE PageOK(pages[j])'
    <2>1. PICK q : q = pages'[j]
      OBVIOUS
    <2>2. CASE j = last
      <3>1. q = p
        BY <1>2, <2>1, <2>2
      <3>2. PageOK(q)'
        BY <3>1
      <3> QED
        BY <2>1, <3>2 DEF PageOK
    <2>3. CASE j \in DOMAIN pages
      <3>1. PageOK(q)
        BY <1>2, <2>1, <2>3 DEF ThreadInv, Paged
      <3>2. PageOK(q)'
        BY <3>1, PageKept
      <3> QED
        BY <2>1, <3>2 DEF PageOK
    <2> QED
      BY <1>2, <2>2, <2>3
  <1> QED
    BY <1>2, <1>3 DEF Paged

LEMMA StaysAnchored ==
  ASSUME ThreadInv, Kept, loaded => loaded',
         hasMore' => hasMore,
         pages' = pages \/ \E i \in DOMAIN pages : pages' = RemoveAt(pages, i)
  PROVE  Anchored'
  <1>1. \A j \in DOMAIN pages' : \E i \in DOMAIN pages : pages'[j] = pages[i]
    BY Left DEF ThreadInv, TypeOK
  <1>2. (\E j \in DOMAIN pages' : pages'[j].kind = "older")
          => \E i \in DOMAIN pages : pages[i].kind = "older"
    BY <1>1
  <1> QED
    BY <1>2 DEF Anchored, ThreadInv, Kept

\* Answers and events that are under way stay in order.
LEMMA StaysUnderWay ==
  ASSUME ThreadInv, log' = log,
         handlers' \subseteq handlers, answers' \subseteq answers,
         inbox' = inbox \/ inbox' = <<>> \/ (inbox # <<>> /\ inbox' = Tail(inbox))
  PROVE  UnderWay'
  <1>1. \A i \in DOMAIN inbox' : \E j \in DOMAIN inbox : inbox'[i] = inbox[j]
    <2>1. inbox \in Seq(Event)
      BY DEF ThreadInv, TypeOK
    <2>2. CASE inbox # <<>> /\ inbox' = Tail(inbox)
      <3>1. \A i \in DOMAIN inbox' : i + 1 \in DOMAIN inbox /\ inbox'[i] = inbox[i + 1]
        BY <2>1, <2>2
      <3> QED
        BY <3>1
    <2> QED
      BY <2>2
  <1>2. ASSUME NEW i \in DOMAIN inbox'
        PROVE  /\ inbox'[i].type \in {"new", "ack"} => Genuine(inbox[i].msg)'
               /\ inbox'[i].type = "ack" => inbox'[i].msg.key # NoKey
    <2>1. PICK j \in DOMAIN inbox : inbox'[i] = inbox[j]
      BY <1>1
    <2>2. PICK m : m = inbox[j].msg
      OBVIOUS
    <2>3. inbox[j].type \in {"new", "ack"} => Genuine(m)'
      BY <2>2 DEF ThreadInv, UnderWay, Genuine
    <2>4. inbox[j].type \in {"new", "ack"} => Genuine(inbox[i].msg)'
      BY <2>1, <2>2, <2>3 DEF Genuine
    <2> QED
      BY <2>1, <2>4 DEF ThreadInv, UnderWay
  <1>3. \A m \in answers' : Genuine(m)'
    BY DEF ThreadInv, UnderWay, Genuine
  <1>4. \A h \in handlers' : h.seq \in DOMAIN log' /\ (h.via = "socket" => log'[h.seq].key # NoKey)
    BY DEF ThreadInv, UnderWay
  <1> QED
    BY <1>2, <1>3, <1>4 DEF UnderWay

-----------------------------------------------------------------------------
(***************************************************************************)
(* The steps of the user                                                   *)
(***************************************************************************)

LEMMA StepOpen ==
  ASSUME ThreadInv, Open
  PROVE  ThreadInv'
  <1> DEFINE p == [kind |-> "open", from |-> 0, got |-> FALSE, rows |-> <<>>, more |-> FALSE]
  <1> USE DEF server, wire
  <1>1. Kept
    BY SameThread DEF Open
  <1>2. UnderWay'
    <2>1. /\ log' = log /\ handlers' \subseteq handlers
          /\ answers' \subseteq answers /\ inbox' = inbox
      BY DEF Open
    <2> QED
      BY <1>1, <2>1, StaysUnderWay
  <1>3. pages' \in Seq(Page) /\ Paged' /\ Anchored'
    <2>1. CASE loaded
      <3>1. pages' = pages /\ hasMore' = hasMore /\ loaded' = loaded
        BY <2>1 DEF Open
      <3> QED
        BY <1>1, <3>1, PagesLeft, StaysAnchored
    <2>2. CASE ~loaded
      <3>1. p \in Page
        BY PageTypes
      <3>2. pages' = Append(pages, p)
        BY <2>2 DEF Open
      <3>3. PageOK(p)'
        BY DEF PageOK
      <3>4. p.kind = "open"
        OBVIOUS
      <3> HIDE DEF p
      <3>5. pages' \in Seq(Page) /\ Paged'
        BY <1>1, <3>1, <3>2, <3>3, PageAdded
      <3>6. ~hasMore /\ \A i \in DOMAIN pages : pages[i].kind # "older"
        BY <2>2 DEF ThreadInv, Anchored
      <3>7. \A i \in DOMAIN pages' : (i \in DOMAIN pages /\ pages'[i] = pages[i]) \/ pages'[i] = p
        BY <3>1, <3>2 DEF ThreadInv, TypeOK
      <3>8. hasMore' = hasMore
        BY DEF Open
      <3>9. ~hasMore' /\ \A i \in DOMAIN pages' : pages'[i].kind # "older"
        BY <3>4, <3>6, <3>7, <3>8
      <3> QED
        BY <3>5, <3>9 DEF Anchored
    <2> QED
      BY <2>1, <2>2
  <1>4. TypeOK'
    BY <1>3 DEF Open, ThreadInv, TypeOK
  <1> QED
    BY <1>1, <1>2, <1>3, <1>4 DEF ThreadInv, Kept

LEMMA StepLeave ==
  ASSUME ThreadInv, Leave
  PROVE  ThreadInv'
  <1> USE DEF server, wire, http
  <1>1. Kept
    BY SameThread DEF Leave
  <1>2. UnderWay'
    <2>1. /\ log' = log /\ handlers' \subseteq handlers
          /\ answers' \subseteq answers /\ inbox' = inbox
      BY DEF Leave
    <2> QED
      BY <1>1, <2>1, StaysUnderWay
  <1>3. pages' \in Seq(Page) /\ Paged' /\ Anchored'
    BY <1>1, PagesLeft, StaysAnchored DEF Leave
  <1>4. TypeOK'
    BY <1>3 DEF Leave, ThreadInv, TypeOK
  <1> QED
    BY <1>1, <1>2, <1>3, <1>4 DEF ThreadInv, Kept

\* The page that is asked for is above a thread in order.
LEMMA StepLoadOlder ==
  ASSUME ThreadInv, LoadOlder
  PROVE  ThreadInv'
  <1> DEFINE p == [kind |-> "older", from |-> thread[1].seq, got |-> FALSE,
                   rows |-> <<>>, more |-> FALSE]
  <1> USE DEF server, wire, view
  <1>1. Kept
    BY SameThread DEF LoadOlder
  <1>2. UnderWay'
    <2>1. /\ log' = log /\ handlers' \subseteq handlers
          /\ answers' \subseteq answers /\ inbox' = inbox
      BY DEF LoadOlder
    <2> QED
      BY <1>1, <2>1, StaysUnderWay
  <1>3. loaded /\ Rooted(thread)
    BY DEF LoadOlder, ThreadInv, Anchored
  <1>4. 1 \in DOMAIN thread /\ thread[1] \in Message
    BY <1>3 DEF Rooted, ThreadInv, TypeOK
  <1>5. thread[1].seq \in DOMAIN log /\ thread[1].seq \in Nat
    BY <1>3, <1>4, MessageFields DEF Rooted
  <1>6. PICK q : q = p
    OBVIOUS
  <1>7. q \in Page /\ q.kind = "older" /\ q.from = thread[1].seq /\ q.rows = <<>> /\ ~q.more
    BY <1>5, <1>6, PageTypes
  <1>8. pages' = Append(pages, q)
    BY <1>6 DEF LoadOlder
  <1>9. Behind(thread, q.from)
    BY <1>3 DEF Rooted, Behind
  <1>10. PageOK(q)'
    <2>1. q.from \in DOMAIN log' /\ Behind(thread, q.from)'
      BY <1>1, <1>5, <1>7, <1>9 DEF Kept
    <2> QED
      BY <1>7, <2>1 DEF PageOK
  <1>11. pages' \in Seq(Page) /\ Paged'
    BY <1>1, <1>7, <1>8, <1>10, PageAdded
  <1>12. Anchored'
    BY <1>1, <1>3 DEF Anchored, Kept, LoadOlder
  <1>13. TypeOK'
    BY <1>11 DEF LoadOlder, ThreadInv, TypeOK
  <1> QED
    BY <1>1, <1>2, <1>11, <1>12, <1>13 DEF ThreadInv, Kept

\* A bubble is of a message that is not stored, and put below the last one.
LEMMA StepSendMessage ==
  ASSUME ThreadInv, NEW k \in Key, SendMessage(k)
  PROVE  ThreadInv'
  <1> DEFINE b == Bubble(k)
             t == Append(thread, b)
  <1> USE DEF server
  <1>1. thread \in Seq(Message) /\ b \in Message
    BY BubbleType DEF ThreadInv, TypeOK
  <1>2. b.id = 0 /\ b.key = k /\ b.seq = LastSeq(thread) + 1 /\ k # NoKey
    BY KeyAssumption DEF Bubble
  <1> HIDE DEF b
  <1>3. SeqsOf(k) = {} /\ \A i \in DOMAIN thread : thread[i].key # k
    BY DEF SendMessage, Unused
  <1>4. /\ t \in Seq(Message) /\ DOMAIN thread = 1..Len(thread) /\ Len(thread) \in Nat
        /\ DOMAIN t = 1..(Len(thread) + 1) /\ Len(t) = Len(thread) + 1
        /\ t[Len(thread) + 1] = b /\ \A i \in DOMAIN thread : t[i] = thread[i]
    BY <1>1
  <1>5. \A i \in DOMAIN t : i \in DOMAIN thread \/ i = Len(thread) + 1
    BY <1>4
  <1>6. t # <<>>
    BY <1>4
  <1>7. b.seq # 0
    BY <1>1, <1>2, LastSeqType
  <1>8. thread' = t
    BY DEF SendMessage, b
  <1> HIDE DEF t
  <1>9. Entries(t)
    BY <1>2, <1>4, <1>5, <1>7 DEF ThreadInv, Entries, Optimistic
  <1>10. Distinct(t)
    BY <1>2, <1>3, <1>4, <1>5 DEF ThreadInv, Distinct
  <1>11. /\ Rooted(thread) /\ t # <<>> /\ t[1].seq \in DOMAIN log => Rooted(t)
         /\ \A n \in Nat : Behind(thread, n) => Behind(t, n)
    BY <1>2, <1>3, <1>4, <1>5, RootsKept
  <1>12. Rooted(thread) => Rooted(t)
    <2> SUFFICES ASSUME Rooted(thread) PROVE t # <<>> /\ t[1].seq \in DOMAIN log
      BY <1>11
    <2>1. 1 \in DOMAIN thread /\ 1 \in DOMAIN t /\ t[1] = thread[1]
      BY <1>4 DEF Rooted
    <2> QED
      BY <2>1 DEF Rooted
  <1>13. log' = log /\ doubled' = doubled /\ handlers' = handlers /\ answers' = answers
         /\ inbox' = inbox /\ pages' = pages /\ hasMore' = hasMore /\ loaded' = TRUE
    BY DEF SendMessage
  <1>14. Kept
    BY <1>4, <1>6, <1>8, <1>9, <1>10, <1>11, <1>12, <1>13, FromThread
  <1>15. UnderWay'
    <2>1. handlers' \subseteq handlers /\ answers' \subseteq answers
      BY <1>13
    <2> QED
      BY <1>13, <1>14, <2>1, StaysUnderWay
  <1>16. pages' \in Seq(Page) /\ Paged' /\ Anchored'
    BY <1>13, <1>14, PagesLeft, StaysAnchored
  <1>17. outbox' \in Seq(Key) /\ queue' \in Seq(Key) /\ posts' \subseteq Key
    <2>1. outbox \in Seq(Key) /\ queue \in Seq(Key) /\ posts \subseteq Key
      BY DEF ThreadInv, TypeOK
    <2>2. CASE outbox' = Append(outbox, k) /\ UNCHANGED <<queue, posts>>
      BY <2>1, <2>2
    <2>3. CASE queue' = Append(queue, k) /\ posts' = posts \cup {k} /\ UNCHANGED outbox
      BY <2>1, <2>3
    <2> QED
      BY <2>2, <2>3 DEF SendMessage, Transmit
  <1>18. Unfetched(thread) \subseteq DOMAIN log
    BY DEF Unfetched, Unshown
  <1>19. thread' \in Seq(Message)
    BY <1>4, <1>8
  <1>20. missed' \cup doubled' \subseteq DOMAIN log'
    BY <1>13, <1>18 DEF SendMessage, ThreadInv, TypeOK
  <1>21. TypeOK'
    BY <1>13, <1>16, <1>17, <1>19, <1>20 DEF SendMessage, ThreadInv, TypeOK
  <1> QED
    BY <1>14, <1>15, <1>16, <1>21 DEF ThreadInv, Kept

-----------------------------------------------------------------------------
(***************************************************************************)
(* The steps of the server                                                 *)
(***************************************************************************)

LEMMA Stores ==
  ASSUME ThreadInv, NEW mine \in BOOLEAN, NEW k \in Key \cup {NoKey},
         NEW via \in {"socket", "rest", "peer"}, Store(mine, k, via),
         k # NoKey => SeqsOf(k) = {}, via = "socket" => k # NoKey,
         inbox' = inbox, answers' = answers, pages' = pages, view' = view
  PROVE  /\ Kept /\ UnderWay' /\ Paged' /\ Anchored'
         /\ log' \in Seq([key : Key \cup {NoKey}, mine : BOOLEAN])
         /\ peerRead' \in Nat
         /\ handlers' \subseteq [seq : Nat, via : {"socket", "rest", "peer"}]
         /\ missed' \cup doubled' \subseteq DOMAIN log'
  <1> DEFINE last == Len(log) + 1
             h == [seq |-> last, via |-> via]
  <1> USE DEF view
  <1>1. PICK e : e = [key |-> k, mine |-> mine]
    OBVIOUS
  <1>2. /\ e \in [key : Key \cup {NoKey}, mine : BOOLEAN]
        /\ e.key = k /\ log' = Append(log, e)
    BY <1>1 DEF Store
  <1>3. Kept /\ last \in DOMAIN log' /\ log'[last] = e
    BY <1>2, FromLog
  <1>4. handlers' = handlers \cup {h}
    BY DEF Store
  <1>5. Len(log) \in Nat /\ log \in Seq([key : Key \cup {NoKey}, mine : BOOLEAN])
    BY DEF ThreadInv, Logged
  <1>6. handlers' \subseteq [seq : Nat, via : {"socket", "rest", "peer"}] /\ peerRead' \in Nat
    BY <1>4, <1>5 DEF ThreadInv, TypeOK, Store
  <1>7. \A n \in DOMAIN log : n \in DOMAIN log' /\ log'[n] = log[n]
    BY <1>2, <1>5
  <1>8. \A g \in handlers' : g.seq \in DOMAIN log' /\ (g.via = "socket" => log'[g.seq].key # NoKey)
    <2> SUFFICES ASSUME NEW g \in handlers'
                 PROVE  g.seq \in DOMAIN log' /\ (g.via = "socket" => log'[g.seq].key # NoKey)
      OBVIOUS
    <2>1. CASE g \in handlers
      BY <1>7, <2>1 DEF ThreadInv, UnderWay
    <2>2. CASE g = h
      <3>1. g.seq = last /\ g.via = via
        BY <2>2
      <3> QED
        BY <1>2, <1>3, <3>1
    <2> QED
      BY <1>4, <2>1, <2>2
  <1>9. ASSUME NEW i \in DOMAIN inbox'
        PROVE  /\ inbox'[i].type \in {"new", "ack"} => Genuine(inbox[i].msg)'
               /\ inbox'[i].type = "ack" => inbox'[i].msg.key # NoKey
    <2>1. PICK m : m = inbox[i].msg
      OBVIOUS
    <2>2. inbox[i].type \in {"new", "ack"} => Genuine(m)'
      BY <1>3, <1>9, <2>1 DEF ThreadInv, UnderWay, Kept
    <2>3. inbox[i].type \in {"new", "ack"} => Genuine(inbox[i].msg)'
      BY <2>1, <2>2 DEF Genuine
    <2> QED
      BY <1>9, <2>3 DEF ThreadInv, UnderWay
  <1>10. \A m \in answers' : Genuine(m)'
    BY <1>3 DEF ThreadInv, UnderWay, Kept
  <1>11. UnderWay'
    BY <1>8, <1>9, <1>10 DEF UnderWay
  <1>12. Paged' /\ Anchored'
    BY <1>3, PagesLeft, StaysAnchored
  <1>13. log' \in Seq([key : Key \cup {NoKey}, mine : BOOLEAN])
    BY <1>3 DEF Kept, Logged
  <1>14. missed' \cup doubled' \subseteq DOMAIN log'
    BY <1>7 DEF ThreadInv, TypeOK
  <1> QED
    BY <1>3, <1>6, <1>11, <1>12, <1>13, <1>14

LEMMA StepPeerSends ==
  ASSUME ThreadInv, PeerSends
  PROVE  ThreadInv'
  <1> USE DEF wire, http
  <1>1. Store(FALSE, NoKey, "peer") /\ view' = view
    BY DEF PeerSends
  <1>2. inbox' = inbox /\ answers' = answers /\ pages' = pages
    BY DEF PeerSends
  <1>3. /\ Kept /\ UnderWay' /\ Paged' /\ Anchored'
        /\ log' \in Seq([key : Key \cup {NoKey}, mine : BOOLEAN])
        /\ peerRead' \in Nat
        /\ handlers' \subseteq [seq : Nat, via : {"socket", "rest", "peer"}]
        /\ missed' \cup doubled' \subseteq DOMAIN log'
    <2>1. "peer" \in {"socket", "rest", "peer"} /\ NoKey \in Key \cup {NoKey}
      OBVIOUS
    <2> QED
      BY <1>1, <1>2, <2>1, Stores
  <1>4. TypeOK'
    BY <1>1, <1>2, <1>3 DEF PeerSends, ThreadInv, TypeOK, view
  <1> QED
    BY <1>3, <1>4 DEF ThreadInv, Kept

LEMMA StepFrameStored ==
  ASSUME ThreadInv, FrameStored
  PROVE  ThreadInv'
  <1> USE DEF http
  <1>1. PICK k : k = Head(outbox)
    OBVIOUS
  <1>2. k \in Key /\ k # NoKey /\ SeqsOf(k) = {} /\ outbox' \in Seq(Key)
    BY <1>1, KeyAssumption DEF FrameStored, ThreadInv, TypeOK
  <1>3. Store(TRUE, k, "socket") /\ view' = view
    BY <1>1 DEF FrameStored
  <1>4. inbox' = inbox /\ answers' = answers /\ pages' = pages
    BY DEF FrameStored
  <1>5. /\ Kept /\ UnderWay' /\ Paged' /\ Anchored'
        /\ log' \in Seq([key : Key \cup {NoKey}, mine : BOOLEAN])
        /\ peerRead' \in Nat
        /\ handlers' \subseteq [seq : Nat, via : {"socket", "rest", "peer"}]
        /\ missed' \cup doubled' \subseteq DOMAIN log'
    <2>1. "socket" \in {"socket", "rest", "peer"} /\ k \in Key \cup {NoKey}
      BY <1>2
    <2> QED
      BY <1>2, <1>3, <1>4, <2>1, Stores
  <1>6. TypeOK'
    BY <1>2, <1>4, <1>5 DEF FrameStored, ThreadInv, TypeOK, view
  <1> QED
    BY <1>5, <1>6 DEF ThreadInv, Kept

LEMMA StepPostStored ==
  ASSUME ThreadInv, NEW k \in Key, PostStored(k)
  PROVE  ThreadInv'
  <1> USE DEF wire
  <1>1. k # NoKey /\ SeqsOf(k) = {}
    BY KeyAssumption DEF PostStored
  <1>2. Store(TRUE, k, "rest") /\ view' = view
    BY DEF PostStored
  <1>3. inbox' = inbox /\ answers' = answers /\ pages' = pages
    BY DEF PostStored
  <1>4. /\ Kept /\ UnderWay' /\ Paged' /\ Anchored'
        /\ log' \in Seq([key : Key \cup {NoKey}, mine : BOOLEAN])
        /\ peerRead' \in Nat
        /\ handlers' \subseteq [seq : Nat, via : {"socket", "rest", "peer"}]
        /\ missed' \cup doubled' \subseteq DOMAIN log'
    <2>1. "rest" \in {"socket", "rest", "peer"} /\ k \in Key \cup {NoKey}
      OBVIOUS
    <2> QED
      BY <1>1, <1>2, <1>3, <2>1, Stores
  <1>5. TypeOK'
    BY <1>3, <1>4 DEF PostStored, ThreadInv, TypeOK, view
  <1> QED
    BY <1>4, <1>5 DEF ThreadInv, Kept

\* More events for the client: those of a message that is stored, or a receipt.
LEMMA InboxGrows ==
  ASSUME ThreadInv, Kept, log' = log, handlers' \subseteq handlers,
         \A m \in answers' : Genuine(m),
         NEW events \in Seq(Event), inbox' = inbox \/ inbox' = inbox \o events,
         \A i \in DOMAIN events :
           /\ events[i].type \in {"new", "ack"} => Genuine(events[i].msg)
           /\ events[i].type = "ack" => events[i].msg.key # NoKey
  PROVE  UnderWay' /\ inbox' \in Seq(Event)
  <1>1. inbox \in Seq(Event)
    BY DEF ThreadInv, TypeOK
  <1>2. inbox' \in Seq(Event)
    <2>1. CASE inbox' = inbox
      BY <1>1, <2>1
    <2>2. CASE inbox' = inbox \o events
      BY <1>1, <2>2
    <2> QED
      BY <2>1, <2>2
  <1>3. \A i \in DOMAIN inbox' :
          \/ i \in DOMAIN inbox /\ inbox'[i] = inbox[i]
          \/ \E j \in DOMAIN events : inbox'[i] = events[j]
    <2>1. CASE inbox' = inbox
      BY <2>1
    <2>2. CASE inbox' = inbox \o events
      <3>1. /\ DOMAIN inbox = 1..Len(inbox) /\ DOMAIN events = 1..Len(events)
            /\ Len(inbox) \in Nat /\ Len(events) \in Nat
            /\ DOMAIN inbox' = 1..(Len(inbox) + Len(events))
            /\ \A i \in 1..Len(inbox) : inbox'[i] = inbox[i]
            /\ \A i \in (Len(inbox) + 1)..(Len(inbox) + Len(events)) :
                 inbox'[i] = events[i - Len(inbox)]
        BY <1>1, <2>2
      <3> SUFFICES ASSUME NEW i \in DOMAIN inbox'
                   PROVE  \/ i \in DOMAIN inbox /\ inbox'[i] = inbox[i]
                          \/ \E j \in DOMAIN events : inbox'[i] = events[j]
        OBVIOUS
      <3>2. CASE i <= Len(inbox)
        BY <3>1, <3>2
      <3>3. CASE ~(i <= Len(inbox))
        <4>1. i - Len(inbox) \in DOMAIN events /\ inbox'[i] = events[i - Len(inbox)]
          BY <3>1, <3>3
        <4> QED
          BY <4>1
      <3> QED
        BY <3>2, <3>3
    <2> QED
      BY <2>1, <2>2
  <1>4. ASSUME NEW i \in DOMAIN inbox'
        PROVE  /\ inbox'[i].type \in {"new", "ack"} => Genuine(inbox[i].msg)'
               /\ inbox'[i].type = "ack" => inbox'[i].msg.key # NoKey
    <2>1. PICK m : m = inbox'[i].msg
      OBVIOUS
    <2>2. /\ inbox'[i].type \in {"new", "ack"} => Genuine(m)
          /\ inbox'[i].type = "ack" => inbox'[i].msg.key # NoKey
      BY <1>3, <2>1 DEF ThreadInv, UnderWay
    <2>3. inbox'[i].type \in {"new", "ack"} => Genuine(m)'
      BY <2>2 DEF Kept
    <2>4. inbox'[i].type \in {"new", "ack"} => Genuine(inbox[i].msg)'
      BY <2>1, <2>3 DEF Genuine
    <2> QED
      BY <2>2, <2>4
  <1>5. \A m \in answers' : Genuine(m)'
    BY DEF Kept
  <1>6. \A h \in handlers' : h.seq \in DOMAIN log' /\ (h.via = "socket" => log'[h.seq].key # NoKey)
    BY DEF ThreadInv, UnderWay
  <1> QED
    BY <1>2, <1>4, <1>5, <1>6 DEF UnderWay

LEMMA StepPeerReads ==
  ASSUME ThreadInv, NEW n \in DOMAIN log, PeerReads(n)
  PROVE  ThreadInv'
  <1> USE DEF http, view
  <1>1. n \in Nat /\ inbox \in Seq(Event)
    BY DEF ThreadInv, TypeOK, Logged
  <1>2. PICK events : events = <<[type |-> "read", seq |-> n]>>
    OBVIOUS
  <1>3. PICK e : e = [type |-> "read", seq |-> n]
    OBVIOUS
  <1>4. e \in Event /\ e.type = "read" /\ events = <<e>>
    BY <1>1, <1>2, <1>3, EventTypes
  <1>5. events \in Seq(Event) /\ \A i \in DOMAIN events : events[i].type = "read"
    BY <1>4
  <1>6. inbox' = inbox \/ inbox' = inbox \o events
    BY <1>1, <1>3, <1>4 DEF PeerReads
  <1>7. /\ log' = log /\ handlers' = handlers /\ answers' = answers /\ pages' = pages
        /\ thread' = thread /\ doubled' = doubled /\ hasMore' = hasMore /\ loaded' = loaded
    BY DEF PeerReads
  <1>8. Kept
    BY <1>7, SameThread
  <1>9. handlers' \subseteq handlers /\ \A m \in answers' : Genuine(m)
    BY <1>7 DEF ThreadInv, UnderWay
  <1>10. UnderWay' /\ inbox' \in Seq(Event)
    BY <1>5, <1>6, <1>7, <1>8, <1>9, InboxGrows
  <1>11. Paged' /\ Anchored'
    BY <1>7, <1>8, PagesLeft, StaysAnchored
  <1>12. TypeOK'
    BY <1>1, <1>10 DEF PeerReads, ThreadInv, TypeOK
  <1> QED
    BY <1>8, <1>10, <1>11, <1>12 DEF ThreadInv, Kept

\* What the client is told of a message that is stored.
LEMMA KnownMessage ==
  ASSUME ThreadInv, NEW k \in Key, NEW n \in SeqsOf(k), NEW read \in Nat
  PROVE  /\ Stored(n, read) \in Message /\ Genuine(Stored(n, read))
         /\ Stored(n, read).key = k /\ k # NoKey
  <1>1. n \in DOMAIN log /\ log[n].key = k
    BY DEF SeqsOf
  <1>2. Stored(n, read) \in Message /\ Genuine(Stored(n, read))
    BY <1>1, StoredType DEF ThreadInv
  <1>3. Stored(n, read).key = k
    BY <1>1 DEF Stored
  <1> QED
    BY <1>2, <1>3, KeyAssumption

LEMMA StepFrameKnown ==
  ASSUME ThreadInv, FrameKnown
  PROVE  ThreadInv'
  <1> USE DEF http, view, server
  <1>1. PICK k : k = Head(outbox)
    OBVIOUS
  <1>2. k \in Key /\ outbox' \in Seq(Key) /\ inbox \in Seq(Event) /\ peerRead \in Nat
    BY <1>1 DEF FrameKnown, ThreadInv, TypeOK
  <1>3. PICK n \in SeqsOf(k) :
          inbox' = Append(inbox, [type |-> "ack", msg |-> Stored(n, peerRead)])
    BY <1>1 DEF FrameKnown
  <1>4. PICK m : m = Stored(n, peerRead)
    OBVIOUS
  <1>5. m \in Message /\ Genuine(m) /\ m.key # NoKey
    BY <1>2, <1>4, KnownMessage
  <1>6. PICK e : e = [type |-> "ack", msg |-> m]
    OBVIOUS
  <1>7. e \in Event /\ e.msg = m /\ e.type = "ack"
    BY <1>5, <1>6, EventTypes
  <1>8. PICK events : events = <<e>>
    OBVIOUS
  <1>9. /\ events \in Seq(Event)
        /\ \A i \in DOMAIN events : Genuine(events[i].msg) /\ events[i].msg.key # NoKey
    BY <1>5, <1>7, <1>8
  <1>10. inbox' = inbox \o events
    BY <1>2, <1>3, <1>4, <1>6, <1>7, <1>8
  <1>11. /\ log' = log /\ handlers' = handlers /\ answers' = answers /\ pages' = pages
         /\ thread' = thread /\ doubled' = doubled /\ hasMore' = hasMore /\ loaded' = loaded
    BY DEF FrameKnown
  <1>12. Kept
    BY <1>11, SameThread
  <1>13. handlers' \subseteq handlers /\ \A a \in answers' : Genuine(a)
    BY <1>11 DEF ThreadInv, UnderWay
  <1>14. UnderWay' /\ inbox' \in Seq(Event)
    BY <1>9, <1>10, <1>11, <1>12, <1>13, InboxGrows
  <1>15. Paged' /\ Anchored'
    BY <1>11, <1>12, PagesLeft, StaysAnchored
  <1>16. TypeOK'
    BY <1>2, <1>14 DEF FrameKnown, ThreadInv, TypeOK
  <1> QED
    BY <1>12, <1>14, <1>15, <1>16 DEF ThreadInv, Kept

LEMMA StepFrameRefused ==
  ASSUME ThreadInv, FrameRefused
  PROVE  ThreadInv'
  <1> USE DEF http, view, server
  <1>1. PICK k : k = Head(outbox)
    OBVIOUS
  <1>2. k \in Key /\ outbox' \in Seq(Key) /\ lost' \subseteq Key
    BY <1>1 DEF FrameRefused, ThreadInv, TypeOK
  <1>3. /\ log' = log /\ handlers' \subseteq handlers /\ answers' \subseteq answers
        /\ inbox' = inbox /\ thread' = thread /\ doubled' = doubled /\ pages' = pages
        /\ hasMore' = hasMore /\ loaded' = loaded
    BY DEF FrameRefused
  <1>4. Kept
    BY <1>3, SameThread
  <1>5. UnderWay'
    BY <1>3, <1>4, StaysUnderWay
  <1>6. Paged' /\ Anchored'
    BY <1>3, <1>4, PagesLeft, StaysAnchored
  <1>7. TypeOK'
    BY <1>2 DEF FrameRefused, ThreadInv, TypeOK
  <1> QED
    BY <1>4, <1>5, <1>6, <1>7 DEF ThreadInv, Kept

LEMMA StepPostKnown ==
  ASSUME ThreadInv, NEW k \in Key, PostKnown(k)
  PROVE  ThreadInv'
  <1> USE DEF wire, view, server
  <1>1. PICK n \in SeqsOf(k) : answers' = answers \cup {Stored(n, peerRead)}
    BY DEF PostKnown
  <1>2. PICK m : m = Stored(n, peerRead)
    OBVIOUS
  <1>3. m \in Message /\ Genuine(m)
    BY <1>2, KnownMessage DEF ThreadInv, TypeOK
  <1>4. /\ log' = log /\ handlers' = handlers /\ inbox' = inbox /\ pages' = pages
        /\ thread' = thread /\ doubled' = doubled /\ hasMore' = hasMore /\ loaded' = loaded
    BY DEF PostKnown
  <1>5. Kept
    BY <1>4, SameThread
  <1>6. answers' \subseteq Message /\ \A a \in answers' : Genuine(a)
    BY <1>1, <1>2, <1>3 DEF ThreadInv, UnderWay, TypeOK
  <1>7. UnderWay'
    <2>1. PICK none : none = <<>>
      OBVIOUS
    <2>2. none \in Seq(Event) /\ DOMAIN none = {} /\ handlers' \subseteq handlers
      BY <1>4, <2>1
    <2> QED
      BY <1>4, <1>5, <1>6, <2>2, InboxGrows
  <1>8. Paged' /\ Anchored'
    BY <1>4, <1>5, PagesLeft, StaysAnchored
  <1>9. TypeOK'
    BY <1>6 DEF PostKnown, ThreadInv, TypeOK
  <1> QED
    BY <1>5, <1>7, <1>8, <1>9 DEF ThreadInv, Kept

LEMMA StepFanOut ==
  ASSUME ThreadInv, NEW h \in handlers, FanOut(h)
  PROVE  ThreadInv'
  <1> USE DEF view
  <1>1. PICK m : m = Stored(h.seq, 0)
    OBVIOUS
  <1>2. /\ m \in Message /\ Genuine(m)
        /\ h.via = "socket" => m.key # NoKey
    <2>1. h.seq \in DOMAIN log /\ (h.via = "socket" => log[h.seq].key # NoKey)
      BY DEF ThreadInv, UnderWay
    <2>2. m \in Message /\ Genuine(m)
      BY <1>1, <2>1, StoredType DEF ThreadInv
    <2>3. m.key = log[h.seq].key
      BY <1>1 DEF Stored
    <2> QED
      BY <2>1, <2>2, <2>3
  <1>3. PICK new, ack : new = [type |-> "new", msg |-> m] /\ ack = [type |-> "ack", msg |-> m]
    OBVIOUS
  <1>4. /\ new \in Event /\ new.type = "new" /\ new.msg = m
        /\ ack \in Event /\ ack.type = "ack" /\ ack.msg = m
    BY <1>2, <1>3, EventTypes
  <1>5. PICK events : events = IF h.via = "socket" THEN <<new, ack>> ELSE <<new>>
    OBVIOUS
  <1>6. events = Frames(h)
    BY <1>1, <1>3, <1>5 DEF Frames
  <1>7. /\ events \in Seq(Event)
        /\ \A i \in DOMAIN events :
             /\ events[i].type \in {"new", "ack"} => Genuine(events[i].msg)
             /\ events[i].type = "ack" => events[i].msg.key # NoKey
    <2>1. CASE h.via = "socket"
      <3>1. events = <<new, ack>>
        BY <1>5, <2>1
      <3>2. \A i \in DOMAIN events : events[i] = new \/ events[i] = ack
        BY <3>1
      <3> QED
        BY <1>2, <1>4, <2>1, <3>1, <3>2
    <2>2. CASE h.via # "socket"
      <3>1. events = <<new>>
        BY <1>5, <2>2
      <3> QED
        BY <1>2, <1>4, <3>1
    <2> QED
      BY <2>1, <2>2
  <1>8. inbox' = inbox \/ inbox' = inbox \o events
    BY <1>6 DEF FanOut
  <1>9. answers' = answers \/ answers' = answers \cup {m}
    BY <1>1 DEF FanOut
  <1>10. answers' \subseteq Message /\ \A a \in answers' : Genuine(a)
    BY <1>2, <1>9 DEF ThreadInv, UnderWay, TypeOK
  <1>11. /\ log' = log /\ handlers' \subseteq handlers /\ pages' = pages
         /\ thread' = thread /\ doubled' = doubled /\ hasMore' = hasMore /\ loaded' = loaded
    BY DEF FanOut
  <1>12. Kept
    BY <1>11, SameThread
  <1>13. UnderWay' /\ inbox' \in Seq(Event)
    BY <1>7, <1>8, <1>10, <1>11, <1>12, InboxGrows
  <1>14. Paged' /\ Anchored'
    BY <1>11, <1>12, PagesLeft, StaysAnchored
  <1>15. TypeOK'
    BY <1>10, <1>13 DEF FanOut, ThreadInv, TypeOK
  <1> QED
    BY <1>12, <1>13, <1>14, <1>15 DEF ThreadInv, Kept

LEMMA AnswerKeeps ==
  ASSUME ThreadInv, NEW p \in Page, PageOK(p)
  PROVE  Answer(p) \in Page /\ PageOK(Answer(p)) /\ Answer(p).kind = p.kind
  <1> DEFINE n == Len(log)
             first == CASE p.kind = "open"  -> n + 1 - Least(n, PageSize)
                        [] p.kind = "older" -> p.from - Least(p.from - 1, PageSize)
                        [] OTHER            -> p.from + 1
             last == CASE p.kind = "open"  -> n
                       [] p.kind = "older" -> p.from - 1
                       [] OTHER            -> Least(n, p.from + BackfillSize)
  <1>1. /\ n \in Nat /\ DOMAIN log = 1..n /\ peerRead \in Nat
        /\ PageSize \in Nat /\ PageSize # 0 /\ BackfillSize \in Nat
    BY BoundAssumption DEF ThreadInv, TypeOK, Logged
  <1>2. /\ p.kind \in {"open", "older", "backfill"} /\ p.from \in Nat
        /\ p.kind = "older" => p.from \in 1..n
    BY <1>1, PageTypes DEF PageOK
  <1>3. ASSUME NEW a \in Int, NEW b \in Int
        PROVE  /\ Least(a, b) \in Int /\ Least(a, b) <= a /\ Least(a, b) <= b
               /\ Least(a, b) = a \/ Least(a, b) = b
    BY DEF Least
  <1>4. /\ first \in Int /\ last \in Int /\ first >= 1 /\ last <= n
        /\ p.kind = "older" => last < p.from
        /\ p.kind # "backfill" /\ first > 1 => first <= last
    <2>1. CASE p.kind = "open"
      <3>1. first = n + 1 - Least(n, PageSize) /\ last = n
        BY <2>1
      <3>2. n \in Int /\ PageSize \in Int
        BY <1>1
      <3>3. PICK l \in Int : l = Least(n, PageSize) /\ l <= n /\ (l = n \/ l = PageSize)
        BY <1>3, <3>2
      <3>4. first = n + 1 - l /\ last = n
        BY <3>1, <3>3
      <3> HIDE DEF first, last, n
      <3> QED
        BY <1>1, <2>1, <3>3, <3>4
    <2>2. CASE p.kind = "older"
      <3>1. first = p.from - Least(p.from - 1, PageSize) /\ last = p.from - 1
        BY <2>2
      <3>2. p.from - 1 \in Int /\ PageSize \in Int
        BY <1>1, <1>2
      <3>3. PICK l \in Int : /\ l = Least(p.from - 1, PageSize)
                            /\ l <= p.from - 1 /\ (l = p.from - 1 \/ l = PageSize)
        BY <1>3, <3>2
      <3>4. first = p.from - l /\ last = p.from - 1
        BY <3>1, <3>3
      <3> HIDE DEF first, last, n
      <3> QED
        BY <1>1, <1>2, <2>2, <3>3, <3>4
    <2>3. CASE p.kind = "backfill"
      <3>1. first = p.from + 1 /\ last = Least(n, p.from + BackfillSize)
        BY <2>3
      <3>2. n \in Int /\ p.from + BackfillSize \in Int
        BY <1>1, <1>2
      <3>3. PICK l \in Int : l = Least(n, p.from + BackfillSize) /\ l <= n
        BY <1>3, <3>2
      <3>4. first = p.from + 1 /\ last = l
        BY <3>1, <3>3
      <3> HIDE DEF first, last, n
      <3> QED
        BY <1>1, <1>2, <2>3, <3>3, <3>4
    <2> QED
      BY <1>2, <2>1, <2>2, <2>3
  <1> DEFINE found == Rows(first, last)
             above == (first > 1)
  <1>5. Answer(p) = [p EXCEPT !.got = TRUE, !.rows = found, !.more = above]
    BY DEF Answer
  <1> HIDE DEF first, last
  <1>6. /\ found \in Seq(Message) /\ DOMAIN found = 1..(last + 1 - first)
        /\ \A j \in DOMAIN found : Genuine(found[j]) /\ found[j].id = first + j - 1
    BY <1>1, <1>4, RowsType DEF ThreadInv
  <1>7. above \in BOOLEAN
    OBVIOUS
  <1>8. p.kind # "backfill" /\ above => found # <<>>
    BY <1>4, <1>6
  <1>9. \A j, k \in DOMAIN found : j < k => found[j].id < found[k].id
    BY <1>4, <1>6
  <1>10. p.kind = "older" => \A j \in DOMAIN found : found[j].id < p.from
    BY <1>2, <1>4, <1>6
  <1>11. PICK a : a = Answer(p)
    OBVIOUS
  <1>12. /\ a \in Page /\ a.kind = p.kind /\ a.from = p.from
         /\ a.rows = found /\ a.more = above
    <2> HIDE DEF found, above
    <2>1. PICK r \in Seq(Message) : r = found
      BY <1>6
    <2>2. PICK b \in BOOLEAN : b = above
      BY <1>7
    <2>3. a = [p EXCEPT !.got = TRUE, !.rows = r, !.more = b]
      BY <1>5, <1>11, <2>1, <2>2
    <2>4. a \in Page /\ a.kind = p.kind /\ a.from = p.from /\ a.rows = r /\ a.more = b
      <3> DEFINE R == Seq(Message)
      <3>1. r \in R
        OBVIOUS
      <3> HIDE DEF R
      <3>2. Page = [kind : {"open", "older", "backfill"}, from : Nat, got : BOOLEAN,
                    rows : R, more : BOOLEAN]
        BY DEF Page, R
      <3> QED
        BY <2>3, <3>1, <3>2
    <2> QED
      BY <2>1, <2>2, <2>4
  <1> HIDE DEF found, above
  <1>13. PageOK(a)
    <2>1. p.kind = "older" => p.from \in DOMAIN log /\ Behind(thread, p.from)
      BY DEF PageOK
    <2> QED
      BY <1>6, <1>8, <1>9, <1>10, <1>12, <2>1 DEF PageOK
  <1> QED
    BY <1>11, <1>12, <1>13

LEMMA StepServePage ==
  ASSUME ThreadInv, NEW i \in DOMAIN pages, ServePage(i)
  PROVE  ThreadInv'
  <1> USE DEF server, wire, view
  <1>1. pages \in Seq(Page)
    BY DEF ThreadInv, TypeOK
  <1>2. PICK p : p = Answer(pages[i])
    OBVIOUS
  <1>3. p \in Page /\ PageOK(p) /\ p.kind = pages[i].kind
    <2>1. PICK q : q = pages[i]
      OBVIOUS
    <2>2. q \in Page /\ PageOK(q)
      BY <1>1, <2>1 DEF ThreadInv, Paged
    <2> QED
      BY <1>2, <2>1, <2>2, AnswerKeeps
  <1>4. pages' = [pages EXCEPT ![i] = p]
    BY <1>2 DEF ServePage
  <1>5. /\ pages' \in Seq(Page) /\ DOMAIN pages' = DOMAIN pages
        /\ \A j \in DOMAIN pages : pages'[j] = (IF j = i THEN p ELSE pages[j])
    BY <1>1, <1>3, <1>4
  <1>6. \A j \in DOMAIN pages : pages'[j].kind = pages[j].kind
    BY <1>3, <1>5
  <1>7. /\ log' = log /\ handlers' = handlers /\ inbox' = inbox /\ answers' = answers
        /\ thread' = thread /\ doubled' = doubled /\ hasMore' = hasMore /\ loaded' = loaded
    BY DEF ServePage
  <1>8. Kept
    BY <1>7, SameThread
  <1>9. UnderWay'
    <2>1. handlers' \subseteq handlers /\ answers' \subseteq answers
      BY <1>7
    <2> QED
      BY <1>7, <1>8, <2>1, StaysUnderWay
  <1>10. ASSUME NEW j \in DOMAIN pages' PROVE PageOK(pages[j])'
    <2>1. PICK q : q = pages'[j]
      OBVIOUS
    <2>2. PageOK(q)
      BY <1>3, <1>5, <2>1 DEF ThreadInv, Paged
    <2>3. PageOK(q)'
      BY <1>8, <2>2, PageKept
    <2> QED
      BY <2>1, <2>3 DEF PageOK
  <1>11. Paged'
    BY <1>5, <1>6, <1>10 DEF ThreadInv, Paged
  <1>12. Anchored'
    BY <1>5, <1>6, <1>7, <1>8 DEF ThreadInv, Anchored, Kept
  <1>13. TypeOK'
    BY <1>5 DEF ServePage, ThreadInv, TypeOK
  <1> QED
    BY <1>8, <1>9, <1>11, <1>12, <1>13 DEF ThreadInv, Kept

-----------------------------------------------------------------------------
(***************************************************************************)
(* What comes to the client                                                *)
(***************************************************************************)

\* What is left out of the thread is in the log.
LEMMA GapsAreLogged ==
  ASSUME ThreadInv
  PROVE  /\ missed \subseteq DOMAIN log /\ doubled \subseteq DOMAIN log
         /\ \A s : /\ Unshown(s) \subseteq DOMAIN log
                   /\ Unfetched(s) \subseteq DOMAIN log
                   /\ CutOff(s) \subseteq DOMAIN log
         /\ \A n \in DOMAIN log : TooEarly(n) \subseteq DOMAIN log
         /\ NotBackfilled \subseteq DOMAIN log
         /\ \A p : /\ Beyond(p) \subseteq DOMAIN log
                   /\ Replaced(p) \subseteq DOMAIN log
                   /\ Skipped(p) \subseteq DOMAIN log
                   /\ Unanswered(p) \subseteq DOMAIN log
  <1>1. missed \subseteq DOMAIN log /\ doubled \subseteq DOMAIN log
    BY DEF ThreadInv, TypeOK
  <1>2. \A s : Unshown(s) \subseteq DOMAIN log
    BY DEF Unshown
  <1>3. \A s : Unfetched(s) \subseteq DOMAIN log
    BY <1>2 DEF Unfetched
  <1>4. \A s : CutOff(s) \subseteq DOMAIN log
    BY <1>2 DEF CutOff
  <1>5. \A n \in DOMAIN log : TooEarly(n) \subseteq DOMAIN log
    BY DEF TooEarly
  <1>6. NotBackfilled \subseteq DOMAIN log
    BY <1>2 DEF NotBackfilled
  <1>7. \A p : /\ Beyond(p) \subseteq DOMAIN log
               /\ Replaced(p) \subseteq DOMAIN log
               /\ Skipped(p) \subseteq DOMAIN log
               /\ Unanswered(p) \subseteq DOMAIN log
    BY <1>2 DEF Beyond, Replaced, Skipped, Unanswered, Holds
  <1> QED
    BY <1>1, <1>2, <1>3, <1>4, <1>5, <1>6, <1>7

\* The event that is received.
LEMMA FirstEvent ==
  ASSUME ThreadInv, NEW type, Receive(type)
  PROVE  /\ inbox # <<>> /\ inbox' = Tail(inbox) /\ inbox' \in Seq(Event)
         /\ type \in {"new", "ack"} =>
              Head(inbox).msg \in Message /\ Genuine(Head(inbox).msg)
         /\ type = "ack" => Head(inbox).msg.key # NoKey
         /\ type = "read" => Head(inbox).seq \in Nat
  <1>1. inbox \in Seq(Event) /\ inbox # <<>> /\ inbox' = Tail(inbox)
    BY DEF Receive, ThreadInv, TypeOK
  <1>2. 1 \in DOMAIN inbox /\ Head(inbox) = inbox[1] /\ inbox[1] \in Event
    BY <1>1
  <1>3. inbox[1].type = type
    BY <1>2 DEF Receive
  <1>4. inbox' \in Seq(Event)
    BY <1>1
  <1> QED
    BY <1>1, <1>2, <1>3, <1>4, EventTypes DEF ThreadInv, UnderWay

\* A step by which only the thread changes, and what is under way to it.
LEMMA ThreadChanges ==
  ASSUME ThreadInv, NEW t \in Seq(Message), thread' = t, Entries(t), Distinct(t),
         Rooted(thread) => Rooted(t),
         \A n \in Nat : Behind(thread, n) => Behind(t, n),
         log' = log, doubled' = doubled, handlers' = handlers, answers' \subseteq answers,
         inbox' = inbox \/ inbox' = <<>> \/ (inbox # <<>> /\ inbox' = Tail(inbox)),
         pages' = pages, hasMore' = hasMore, loaded => loaded'
  PROVE  /\ Logged' /\ UnderWay' /\ Paged' /\ Entries(thread)' /\ Distinct(thread)'
         /\ Anchored'
  <1>1. Kept
    BY FromThread
  <1>2. handlers' \subseteq handlers
    OBVIOUS
  <1>3. UnderWay'
    BY <1>1, <1>2, StaysUnderWay
  <1>4. Paged' /\ Anchored'
    BY <1>1, PagesLeft, StaysAnchored
  <1> QED
    BY <1>1, <1>3, <1>4 DEF Kept

LEMMA StepHandleNew ==
  ASSUME ThreadInv, HandleNew
  PROVE  ThreadInv'
  <1> USE DEF http
  <1>1. PICK m : m = Head(inbox).msg
    OBVIOUS
  <1>2. m \in Message /\ Genuine(m) /\ m.seq \in DOMAIN log
    BY <1>1, FirstEvent DEF HandleNew, Genuine
  <1>3. inbox # <<>> /\ inbox' = Tail(inbox) /\ inbox' \in Seq(Event)
    BY FirstEvent DEF HandleNew
  <1>4. /\ Logged /\ thread \in Seq(Message) /\ Entries(thread) /\ Distinct(thread)
    BY DEF ThreadInv, TypeOK
  <1>5. PICK t : t = IF loaded THEN mergeMessage(thread, m) ELSE thread
    OBVIOUS
  <1>6. /\ t \in Seq(Message) /\ Entries(t) /\ Distinct(t) /\ (Rooted(thread) => Rooted(t))
        /\ \A n \in Nat : Behind(thread, n) => Behind(t, n)
    <2>1. CASE loaded
      <3>1. t = mergeMessage(thread, m)
        BY <1>5, <2>1
      <3> QED
        BY <1>2, <1>4, <3>1, MergeKeeps
    <2>2. CASE ~loaded
      BY <1>4, <1>5, <2>2
    <2> QED
      BY <2>1, <2>2
  <1>7. /\ thread' = t /\ log' = log /\ doubled' = doubled /\ handlers' = handlers
        /\ answers' = answers /\ pages' = pages /\ hasMore' = hasMore /\ loaded' = loaded
    BY <1>1, <1>5 DEF HandleNew, server
  <1>8. Logged' /\ UnderWay' /\ Paged' /\ Entries(thread)' /\ Distinct(thread)' /\ Anchored'
    <2>1. answers' \subseteq answers
      BY <1>7
    <2> QED
      BY <1>3, <1>6, <1>7, <2>1, ThreadChanges
  <1>9. missed' \cup doubled' \subseteq DOMAIN log'
    <2>1. missed' = missed \cup TooEarly(m.seq) \cup CutOff(t)
      BY <1>1, <1>7 DEF HandleNew
    <2> QED
      BY <1>2, <1>7, <2>1, GapsAreLogged
  <1>10. TypeOK'
    BY <1>3, <1>6, <1>7, <1>9 DEF HandleNew, ThreadInv, TypeOK, server
  <1> QED
    BY <1>8, <1>10 DEF ThreadInv

LEMMA StepHandleAck ==
  ASSUME ThreadInv, HandleAck
  PROVE  ThreadInv'
  <1> USE DEF http, server
  <1>1. PICK m : m = Head(inbox).msg
    OBVIOUS
  <1>2. m \in Message /\ Genuine(m) /\ m.key # NoKey
    BY <1>1, FirstEvent DEF HandleAck
  <1>3. inbox # <<>> /\ inbox' = Tail(inbox) /\ inbox' \in Seq(Event)
    BY FirstEvent DEF HandleAck
  <1>4. Logged /\ thread \in Seq(Message) /\ Entries(thread) /\ Distinct(thread)
    BY DEF ThreadInv, TypeOK
  <1>5. PICK t : t = Acked(thread, m)
    OBVIOUS
  <1>6. /\ t \in Seq(Message) /\ Entries(t) /\ Distinct(t) /\ (Rooted(thread) => Rooted(t))
        /\ \A n \in Nat : Behind(thread, n) => Behind(t, n)
    BY <1>2, <1>4, <1>5, AckedKeeps
  <1>7. /\ thread' = t /\ log' = log /\ doubled' = doubled /\ handlers' = handlers
        /\ answers' = answers /\ pages' = pages /\ hasMore' = hasMore /\ loaded' = TRUE
    BY <1>1, <1>5 DEF HandleAck
  <1>8. Logged' /\ UnderWay' /\ Paged' /\ Entries(thread)' /\ Distinct(thread)' /\ Anchored'
    <2>1. answers' \subseteq answers
      BY <1>7
    <2> QED
      BY <1>3, <1>6, <1>7, <2>1, ThreadChanges
  <1>9. missed' \cup doubled' \subseteq DOMAIN log'
    <2>1. missed' = missed \cup Unfetched(t)
      BY <1>7 DEF HandleAck
    <2> QED
      BY <1>7, <2>1, GapsAreLogged
  <1>10. TypeOK'
    BY <1>3, <1>6, <1>7, <1>9 DEF HandleAck, ThreadInv, TypeOK
  <1> QED
    BY <1>8, <1>10 DEF ThreadInv

LEMMA StepHandleRead ==
  ASSUME ThreadInv, HandleRead
  PROVE  ThreadInv'
  <1> USE DEF http, server
  <1>1. PICK seq : seq = Head(inbox).seq
    OBVIOUS
  <1>2. seq \in Nat
    BY <1>1, FirstEvent DEF HandleRead
  <1>3. inbox # <<>> /\ inbox' = Tail(inbox) /\ inbox' \in Seq(Event)
    BY FirstEvent DEF HandleRead
  <1>4. Logged /\ thread \in Seq(Message) /\ Entries(thread) /\ Distinct(thread)
    BY DEF ThreadInv, TypeOK
  <1>5. PICK t : t = Receipted(thread, seq)
    OBVIOUS
  <1>6. /\ t \in Seq(Message) /\ Entries(t) /\ Distinct(t) /\ (Rooted(thread) => Rooted(t))
        /\ \A n \in Nat : Behind(thread, n) => Behind(t, n)
    BY <1>2, <1>4, <1>5, ReceiptedKeeps
  <1>7. /\ thread' = t /\ log' = log /\ doubled' = doubled /\ handlers' = handlers
        /\ answers' = answers /\ pages' = pages /\ hasMore' = hasMore /\ loaded' = TRUE
    BY <1>1, <1>5 DEF HandleRead
  <1>8. Logged' /\ UnderWay' /\ Paged' /\ Entries(thread)' /\ Distinct(thread)' /\ Anchored'
    <2>1. answers' \subseteq answers
      BY <1>7
    <2> QED
      BY <1>3, <1>6, <1>7, <2>1, ThreadChanges
  <1>9. missed' \cup doubled' \subseteq DOMAIN log'
    <2>1. missed' = missed \cup Unfetched(t)
      BY <1>7 DEF HandleRead
    <2> QED
      BY <1>7, <2>1, GapsAreLogged
  <1>10. TypeOK'
    BY <1>3, <1>6, <1>7, <1>9 DEF HandleRead, ThreadInv, TypeOK
  <1> QED
    BY <1>8, <1>10 DEF ThreadInv

LEMMA StepPostAnswered ==
  ASSUME ThreadInv, NEW m \in answers, PostAnswered(m)
  PROVE  ThreadInv'
  <1> USE DEF wire, server
  <1>1. m \in Message /\ Genuine(m)
    BY DEF ThreadInv, UnderWay, TypeOK
  <1>2. Logged /\ thread \in Seq(Message) /\ Entries(thread) /\ Distinct(thread)
    BY DEF ThreadInv, TypeOK
  <1>3. PICK t : t = mergeMessage(thread, m)
    OBVIOUS
  <1>4. /\ t \in Seq(Message) /\ Entries(t) /\ Distinct(t) /\ (Rooted(thread) => Rooted(t))
        /\ \A n \in Nat : Behind(thread, n) => Behind(t, n)
    BY <1>1, <1>2, <1>3, MergeKeeps
  <1>5. /\ thread' = t /\ log' = log /\ doubled' = doubled /\ handlers' = handlers
        /\ answers' \subseteq answers /\ inbox' = inbox /\ pages' = pages
        /\ hasMore' = hasMore /\ loaded' = TRUE
    BY <1>3 DEF PostAnswered
  <1>6. Logged' /\ UnderWay' /\ Paged' /\ Entries(thread)' /\ Distinct(thread)' /\ Anchored'
    BY <1>4, <1>5, ThreadChanges
  <1>7. missed' \cup doubled' \subseteq DOMAIN log'
    <2>1. missed' = missed \cup Unfetched(t) \cup CutOff(t)
      BY <1>5 DEF PostAnswered
    <2> QED
      BY <1>5, <2>1, GapsAreLogged
  <1>8. TypeOK'
    BY <1>4, <1>5, <1>7 DEF PostAnswered, ThreadInv, TypeOK
  <1> QED
    BY <1>6, <1>8 DEF ThreadInv

LEMMA StepPostFails ==
  ASSUME ThreadInv, NEW k \in Key, PostFails(k)
  PROVE  ThreadInv'
  <1> USE DEF wire, server
  <1>1. Logged /\ thread \in Seq(Message) /\ Entries(thread) /\ Distinct(thread)
    BY DEF ThreadInv, TypeOK
  <1>2. PICK t : t = Failed(thread, k)
    OBVIOUS
  <1>3. /\ t \in Seq(Message) /\ Entries(t) /\ Distinct(t) /\ (Rooted(thread) => Rooted(t))
        /\ \A n \in Nat : Behind(thread, n) => Behind(t, n)
    BY <1>1, <1>2, FailedKeeps
  <1>4. /\ thread' = t /\ log' = log /\ doubled' = doubled /\ handlers' = handlers
        /\ answers' \subseteq answers /\ inbox' = inbox /\ pages' = pages
        /\ hasMore' = hasMore /\ loaded' = TRUE
    BY <1>2 DEF PostFails
  <1>5. Logged' /\ UnderWay' /\ Paged' /\ Entries(thread)' /\ Distinct(thread)' /\ Anchored'
    BY <1>3, <1>4, ThreadChanges
  <1>6. missed' \cup doubled' \subseteq DOMAIN log'
    <2>1. missed' = missed \cup Unfetched(t)
      BY <1>4 DEF PostFails
    <2> QED
      BY <1>4, <2>1, GapsAreLogged
  <1>7. TypeOK'
    BY <1>3, <1>4, <1>6 DEF PostFails, ThreadInv, TypeOK
  <1> QED
    BY <1>5, <1>7 DEF ThreadInv

\* The rows of a page are no message twice.
LEMMA RowsDistinct ==
  ASSUME Logged, NEW rows \in Seq(Message), \A j \in DOMAIN rows : Genuine(rows[j]),
         \A j, k \in DOMAIN rows : j < k => rows[j].id < rows[k].id
  PROVE  \A j, k \in DOMAIN rows : j # k =>
           /\ rows[j].id # rows[k].id
           /\ rows[j].key = rows[k].key => rows[j].key = NoKey
  <1> SUFFICES ASSUME NEW j \in DOMAIN rows, NEW k \in DOMAIN rows, j # k
               PROVE  /\ rows[j].id # rows[k].id
                      /\ rows[j].key = rows[k].key => rows[j].key = NoKey
    OBVIOUS
  <1>1. j \in Nat /\ k \in Nat
    BY Places
  <1>2. rows[j] \in Message /\ rows[k] \in Message
    OBVIOUS
  <1>3. rows[j].id \in Nat /\ rows[k].id \in Nat
    BY <1>2, MessageFields
  <1>4. rows[j].id # rows[k].id
    BY <1>1, <1>3
  <1>5. rows[j].key = rows[k].key /\ rows[j].key # NoKey => rows[j].id = rows[k].id
    BY DEF Genuine, Logged
  <1> QED
    BY <1>4, <1>5

\* They make a thread that older messages can be fetched for.
LEMMA RowsRooted ==
  ASSUME Logged, NEW rows \in Seq(Message), rows # <<>>,
         \A j \in DOMAIN rows : Genuine(rows[j]),
         \A j, k \in DOMAIN rows : j < k => rows[j].id < rows[k].id
  PROVE  Rooted(rows)
  <1>1. 1 \in DOMAIN rows
    OBVIOUS
  <1>2. \A j \in DOMAIN rows : /\ rows[j].id # 0
                              /\ rows[j].seq \in DOMAIN log
    BY DEF Genuine, Logged
  <1> QED
    BY <1>1, <1>2 DEF Rooted

\* openConversation replaces the thread by one without bubbles.
LEMMA OpenApplied ==
  ASSUME ThreadInv, NEW i \in DOMAIN pages, pages[i].kind = "open",
         pages' = RemoveAt(pages, i), thread' = pages[i].rows, loaded' = TRUE,
         hasMore' = pages[i].more, log' = log, doubled' = doubled,
         handlers' = handlers, inbox' = inbox, answers' = answers
  PROVE  /\ Logged' /\ UnderWay' /\ Paged' /\ Entries(thread)' /\ Distinct(thread)'
         /\ Anchored' /\ pages' \in Seq(Page) /\ thread' \in Seq(Message)
  <1>1. PICK p : p = pages[i]
    OBVIOUS
  <1>2. p \in Page /\ PageOK(p) /\ p.kind = "open"
    BY <1>1 DEF ThreadInv, TypeOK, Paged
  <1>3. PICK rows : rows = p.rows
    OBVIOUS
  <1>4. /\ rows \in Seq(Message) /\ thread' = rows /\ hasMore' = p.more
        /\ \A j \in DOMAIN rows : Genuine(rows[j])
        /\ \A j, k \in DOMAIN rows : j < k => rows[j].id < rows[k].id
        /\ p.more => rows # <<>>
    BY <1>1, <1>2, <1>3, PageTypes DEF PageOK
  <1>5. \A n : Behind(thread, n)'
    BY <1>4 DEF Behind, Genuine, ThreadInv, Logged
  <1>6. Logged /\ Logged'
    BY DEF ThreadInv, Logged
  <1>7. UnderWay'
    <2>1. handlers' \subseteq handlers /\ answers' \subseteq answers
      OBVIOUS
    <2> QED
      BY <2>1, StaysUnderWay
  <1>8. Entries(thread)'
    BY <1>4 DEF Entries, Genuine
  <1>9. Distinct(thread)'
    BY <1>4, <1>6, RowsDistinct DEF Distinct
  <1>10. /\ pages' \in Seq(Page)
         /\ \A j \in DOMAIN pages' : \E k \in DOMAIN pages : pages'[j] = pages[k]
    BY Left DEF ThreadInv, TypeOK
  <1>11. ASSUME NEW j \in DOMAIN pages' PROVE PageOK(pages[j])'
    <2>1. PICK q : q = pages'[j]
      OBVIOUS
    <2>2. PageOK(q)
      BY <1>10, <2>1 DEF ThreadInv, Paged
    <2>3. PageOK(q)'
      BY <1>5, <2>2 DEF PageOK, Genuine
    <2> QED
      BY <2>1, <2>3 DEF PageOK
  <1>12. Paged'
    BY <1>11 DEF Paged
  <1>13. Anchored'
    <2> SUFFICES ASSUME hasMore' PROVE Rooted(thread)'
      BY DEF Anchored
    <2>1. Rooted(rows)
      BY <1>4, <1>6, RowsRooted
    <2> QED
      BY <1>4, <2>1 DEF Rooted, Under, SeqsOf
  <1> QED
    BY <1>4, <1>6, <1>7, <1>8, <1>9, <1>10, <1>12, <1>13

\* loadOlder prepends, to a thread that may have come to hold some of the page.
LEMMA OlderApplied ==
  ASSUME ThreadInv, NEW i \in DOMAIN pages, pages[i].kind = "older",
         thread' = pages[i].rows \o thread, log' = log,
         doubled' = doubled \cup Overlap(pages[i])
  PROVE  /\ Kept /\ thread' \in Seq(Message) /\ doubled' \subseteq DOMAIN log
         /\ pages[i].rows # <<>> => Rooted(thread)'
  <1>1. PICK p : p = pages[i]
    OBVIOUS
  <1>2. p \in Page /\ PageOK(p) /\ p.kind = "older"
    BY <1>1 DEF ThreadInv, TypeOK, Paged
  <1>3. PICK rows : rows = p.rows
    OBVIOUS
  <1>4. PICK from : from = p.from
    OBVIOUS
  <1>5. /\ rows \in Seq(Message)
        /\ \A j \in DOMAIN rows : Genuine(rows[j]) /\ rows[j].id < from
        /\ \A j, k \in DOMAIN rows : j < k => rows[j].id < rows[k].id
        /\ from \in DOMAIN log /\ Behind(thread, from)
    BY <1>2, <1>3, <1>4, PageTypes DEF PageOK
  <1>6. /\ Logged /\ DOMAIN log = 1..Len(log) /\ Len(log) \in Nat
        /\ thread \in Seq(Message) /\ Entries(thread) /\ Distinct(thread)
    BY DEF ThreadInv, TypeOK, Logged
  <1>7. \A n \in DOMAIN log : Stored(n, peerRead).id = n /\ Stored(n, peerRead).key = log[n].key
    BY DEF Stored
  <1> DEFINE top == Len(rows)
             up == Overlap(p)
  <1>8. PICK t : t = rows \o thread
    OBVIOUS
  <1>9. /\ top \in Nat /\ Len(thread) \in Nat
        /\ DOMAIN rows = 1..top /\ DOMAIN thread = 1..Len(thread)
        /\ t \in Seq(Message) /\ Len(t) = top + Len(thread) /\ DOMAIN t = 1..(top + Len(thread))
        /\ \A j \in 1..top : t[j] = rows[j]
        /\ \A j \in (top + 1)..(top + Len(thread)) : t[j] = thread[j - top]
    BY <1>5, <1>6, <1>8
  <1>10. ASSUME NEW j \in DOMAIN t
         PROVE  \/ j \in DOMAIN rows /\ t[j] = rows[j]
                \/ j \notin DOMAIN rows /\ j - top \in DOMAIN thread /\ t[j] = thread[j - top]
    <2>1. CASE j <= top
      BY <1>9, <2>1
    <2>2. CASE ~(j <= top)
      <3>1. j \in (top + 1)..(top + Len(thread)) /\ j - top \in 1..Len(thread)
        BY <1>9, <2>2
      <3>2. j \notin DOMAIN rows
        BY <1>9, <2>2
      <3> QED
        BY <1>9, <3>1, <3>2
    <2> QED
      BY <2>1, <2>2
  <1>11. \A k \in DOMAIN thread : top + k \in DOMAIN t /\ t[top + k] = thread[k]
    <2> SUFFICES ASSUME NEW k \in DOMAIN thread
                 PROVE  top + k \in DOMAIN t /\ t[top + k] = thread[k]
      OBVIOUS
    <2>1. top + k \in (top + 1)..(top + Len(thread)) /\ (top + k) - top = k
      BY <1>9
    <2> QED
      BY <1>9, <2>1
  <1>12. \A n \in DOMAIN log :
           /\ n < from
           /\ \E k \in DOMAIN thread :
                thread[k].id = n \/ (log[n].key # NoKey /\ thread[k].key = log[n].key)
           => n \in up
    BY <1>2, <1>4, <1>7 DEF Overlap, SameMessage
  <1>13. up \subseteq DOMAIN log
    BY DEF Overlap
  <1>15. ASSUME NEW j \in DOMAIN rows, NEW k \in DOMAIN thread
         PROVE  /\ rows[j].id = thread[k].id => rows[j].id \in up
                /\ rows[j].key = thread[k].key /\ rows[j].key # NoKey
                     => SeqsOf(rows[j].key) \cap up # {}
    <2>1. Genuine(rows[j]) /\ rows[j].id < from
      BY <1>5
    <2>2. rows[j].id \in DOMAIN log /\ rows[j].key = log[rows[j].id].key
      BY <2>1 DEF Genuine
    <2>3. rows[j].id = thread[k].id => rows[j].id \in up
      BY <1>12, <2>1, <2>2
    <2>4. rows[j].key = thread[k].key /\ rows[j].key # NoKey => rows[j].id \in up
      BY <1>12, <2>1, <2>2
    <2>5. rows[j].id \in SeqsOf(rows[j].key)
      BY <2>2 DEF SeqsOf
    <2> QED
      BY <2>3, <2>4, <2>5
  <1> HIDE DEF up
  <1>16. thread' = t /\ doubled' = doubled \cup up
    BY <1>1, <1>3, <1>8 DEF up
  <1>17. /\ \A k : SeqsOf(k)' = SeqsOf(k)
         /\ \A m : Genuine(m)' <=> Genuine(m)
    BY DEF SeqsOf, Genuine
  <1>18. Entries(thread)'
    <2>1. \A j \in DOMAIN t : Genuine(t[j]) \/ Optimistic(t[j])
      BY <1>5, <1>6, <1>10 DEF Entries
    <2> QED
      BY <1>16, <2>1 DEF Entries, Genuine, Optimistic
  <1>19. ASSUME NEW j \in DOMAIN t, NEW k \in DOMAIN t, j # k
         PROVE  /\ t[j].id = t[k].id /\ t[j].id # 0 => t[j].id \in doubled \cup up
                /\ t[j].key = t[k].key /\ t[j].key # NoKey
                     => SeqsOf(t[j].key) \cap (doubled \cup up) # {}
    <2>1. CASE j \in DOMAIN rows /\ k \in DOMAIN rows
      BY <1>5, <1>6, <1>10, <1>19, <2>1, RowsDistinct
    <2>2. CASE j \in DOMAIN rows /\ k \notin DOMAIN rows
      BY <1>10, <1>15, <2>2
    <2>3. CASE j \notin DOMAIN rows /\ k \in DOMAIN rows
      BY <1>10, <1>15, <2>3
    <2>4. CASE j \notin DOMAIN rows /\ k \notin DOMAIN rows
      <3>1. /\ j - top \in DOMAIN thread /\ t[j] = thread[j - top]
            /\ k - top \in DOMAIN thread /\ t[k] = thread[k - top]
        BY <1>10, <2>4
      <3>2. j - top # k - top
        BY <1>9, <1>19
      <3> QED
        BY <1>6, <3>1, <3>2 DEF Distinct
    <2> QED
      BY <2>1, <2>2, <2>3, <2>4
  <1>20. Distinct(thread)'
    BY <1>16, <1>17, <1>19 DEF Distinct
  <1>21. \A j \in DOMAIN t : t[j].id = 0 => j - top \in DOMAIN thread /\ t[j] = thread[j - top]
    BY <1>5, <1>6, <1>10 DEF Genuine
  <1>22. /\ Rooted(thread) /\ t # <<>> /\ t[1].seq \in DOMAIN log => Rooted(t)
         /\ \A n \in Nat : Behind(thread, n) => Behind(t, n)
    <2>1. \A k \in DOMAIN thread : thread[k].id # 0 =>
            \E j \in DOMAIN t : t[j].id # 0 /\ t[j].seq = thread[k].seq
      BY <1>11
    <2>2. \A j \in DOMAIN t : t[j].id = 0 =>
            \/ SeqsOf(t[j].key) = {}
            \/ \E k \in DOMAIN thread : thread[k].id = 0 /\ thread[k].key = t[j].key
      BY <1>21
    <2> QED
      BY <2>1, <2>2, RootsKept
  <1>23. rows # <<>> => Rooted(t)
    <2> SUFFICES ASSUME rows # <<>> PROVE Rooted(t)
      OBVIOUS
    <2>1. 1 \in DOMAIN rows /\ 1 \in DOMAIN t /\ t[1] = rows[1] /\ t # <<>>
      BY <1>5, <1>9
    <2>2. t[1].id # 0 /\ t[1].seq \in DOMAIN log /\ t[1].seq < from
      BY <1>5, <1>6, <2>1 DEF Genuine
    <2>3. Behind(t, from)
      BY <1>5, <1>6, <1>22
    <2>4. \A q \in DOMAIN log : from <= q => Under(t, q)
      BY <1>5, <1>6, <2>1, <2>2 DEF Under
    <2>5. \A k : SeqsOf(k) \subseteq DOMAIN log
      BY DEF SeqsOf
    <2> QED
      BY <2>1, <2>2, <2>3, <2>4, <2>5 DEF Rooted, Behind
  <1>24. Rooted(thread) => Rooted(t)
    <2>1. CASE rows # <<>>
      BY <1>23, <2>1
    <2>2. CASE rows = <<>>
      <3>1. t = thread
        BY <1>6, <1>8, <2>2
      <3> QED
        BY <3>1
    <2> QED
      BY <2>1, <2>2
  <1>25. Rooted(thread)' <=> Rooted(t)
    BY <1>16, <1>17 DEF Rooted, Under
  <1>26. \A n \in DOMAIN log : Behind(thread, n) => Behind(thread, n)'
    <2>1. \A n : Behind(thread, n)' <=> Behind(t, n)
      BY <1>16, <1>17 DEF Behind, Under
    <2> QED
      BY <1>6, <1>22, <2>1
  <1>27. Logged'
    BY DEF ThreadInv, Logged
  <1>28. Kept
    BY <1>17, <1>18, <1>20, <1>24, <1>25, <1>26, <1>27 DEF Kept
  <1>29. doubled' \subseteq DOMAIN log
    BY <1>13, <1>16, GapsAreLogged
  <1> QED
    BY <1>1, <1>3, <1>9, <1>16, <1>23, <1>25, <1>28, <1>29

LEMMA StepApplyPage ==
  ASSUME ThreadInv, NEW i \in DOMAIN pages, ApplyPage(i)
  PROVE  ThreadInv'
  <1> USE DEF server, wire
  <1>1. PICK p : p = pages[i]
    OBVIOUS
  <1>2. p \in Page /\ PageOK(p) /\ p.kind \in {"open", "older", "backfill"} /\ p.more \in BOOLEAN
        /\ p.rows \in Seq(Message)
    BY <1>1, PageTypes DEF ThreadInv, TypeOK, Paged
  <1>3. /\ pages' = RemoveAt(pages, i) /\ loaded' = TRUE
        /\ log' = log /\ peerRead' = peerRead /\ handlers' = handlers
        /\ inbox' = inbox /\ answers' = answers
    BY DEF ApplyPage
  <1>4. /\ hasMore' = (IF p.kind = "backfill" THEN hasMore ELSE p.more)
        /\ doubled' = doubled \cup Overlap(p)
        /\ p.kind = "open" => thread' = p.rows
        /\ p.kind = "older" => thread' = p.rows \o thread
        /\ p.kind = "backfill" => thread' = Merged(thread, p.rows)
    BY <1>1, <1>2 DEF ApplyPage
  <1>5. \E j \in DOMAIN pages : pages' = RemoveAt(pages, j)
    BY <1>3
  <1>6. handlers' \subseteq handlers /\ answers' \subseteq answers
    BY <1>3
  <1>7. /\ Logged' /\ UnderWay' /\ Paged' /\ Entries(thread)' /\ Distinct(thread)'
        /\ Anchored' /\ pages' \in Seq(Page) /\ thread' \in Seq(Message)
        /\ doubled' \subseteq DOMAIN log
    <2>1. CASE p.kind = "open"
      <3>1. /\ thread' = pages[i].rows /\ hasMore' = pages[i].more /\ doubled' = doubled
            /\ pages[i].kind = "open"
        BY <1>1, <1>4, <2>1 DEF Overlap
      <3> QED
        BY <1>3, <3>1, OpenApplied, GapsAreLogged
    <2>2. CASE p.kind = "older"
      <3>1. /\ thread' = pages[i].rows \o thread /\ doubled' = doubled \cup Overlap(pages[i])
            /\ pages[i].kind = "older"
        BY <1>1, <1>4, <2>2
      <3>2. /\ Kept /\ thread' \in Seq(Message) /\ doubled' \subseteq DOMAIN log
            /\ pages[i].rows # <<>> => Rooted(thread)'
        BY <1>3, <3>1, OlderApplied
      <3>3. UnderWay'
        BY <1>3, <1>6, StaysUnderWay
      <3>4. pages' \in Seq(Page) /\ Paged'
        BY <1>5, <3>2, PagesLeft
      <3>5. hasMore' => p.rows # <<>>
        BY <1>2, <1>4, <2>2 DEF PageOK
      <3>6. Anchored'
        BY <1>1, <1>3, <3>2, <3>5 DEF Anchored
      <3> QED
        BY <3>2, <3>3, <3>4, <3>6 DEF Kept
    <2>3. CASE p.kind = "backfill"
      <3>1. Logged /\ thread \in Seq(Message) /\ Entries(thread) /\ Distinct(thread)
        BY DEF ThreadInv, TypeOK
      <3>2. PICK t : t = Merged(thread, p.rows)
        OBVIOUS
      <3>3. \A j \in DOMAIN p.rows : Genuine(p.rows[j])
        BY <1>2 DEF PageOK
      <3>4. /\ t \in Seq(Message) /\ Entries(t) /\ Distinct(t) /\ (Rooted(thread) => Rooted(t))
            /\ \A n \in Nat : Behind(thread, n) => Behind(t, n)
        BY <1>2, <3>1, <3>2, <3>3, MergedKeeps
      <3>5. thread' = t /\ doubled' = doubled /\ hasMore' = hasMore
        BY <1>4, <2>3, <3>2 DEF Overlap
      <3>6. Kept
        BY <1>3, <3>4, <3>5, FromThread
      <3>7. UnderWay'
        BY <1>3, <1>6, StaysUnderWay
      <3>8. pages' \in Seq(Page) /\ Paged' /\ Anchored'
        BY <1>3, <1>5, <3>5, <3>6, PagesLeft, StaysAnchored
      <3> QED
        BY <3>4, <3>5, <3>6, <3>7, <3>8, GapsAreLogged DEF Kept
    <2> QED
      BY <1>2, <2>1, <2>2, <2>3
  <1>8. missed' \subseteq DOMAIN log
    <2>1. PICK t : t = thread'
      OBVIOUS
    <2>2. missed' = missed \cup
            CASE p.kind = "open"  -> Replaced(p)
              [] p.kind = "older" -> Skipped(p)
              [] OTHER            -> Beyond(p) \cup Unfetched(t) \cup CutOff(t)
      BY <1>1, <2>1 DEF ApplyPage
    <2>3. missed' \subseteq missed \cup Replaced(p) \cup Skipped(p) \cup Beyond(p)
                             \cup Unfetched(t) \cup CutOff(t)
      BY <1>2, <2>2
    <2> QED
      BY <2>3, GapsAreLogged
  <1>9. hasMore' \in BOOLEAN
    BY <1>2, <1>4 DEF ThreadInv, TypeOK
  <1>10. missed' \cup doubled' \subseteq DOMAIN log'
    BY <1>3, <1>7, <1>8
  <1>11. TypeOK'
    BY <1>7, <1>9, <1>10 DEF ApplyPage, ThreadInv, TypeOK
  <1> QED
    BY <1>7, <1>11 DEF ThreadInv

LEMMA StepPageFails ==
  ASSUME ThreadInv, NEW i \in DOMAIN pages, PageFails(i)
  PROVE  ThreadInv'
  <1> USE DEF server, wire
  <1>1. /\ \E j \in DOMAIN pages : pages' = RemoveAt(pages, j)
        /\ log' = log /\ handlers' \subseteq handlers /\ answers' \subseteq answers
        /\ inbox' = inbox /\ thread' = thread /\ doubled' = doubled
        /\ hasMore' = hasMore /\ loaded' = loaded
        /\ missed' = missed \cup Unanswered(pages[i])
    BY DEF PageFails
  <1>2. Kept
    BY <1>1, SameThread
  <1>3. UnderWay'
    BY <1>1, StaysUnderWay
  <1>4. pages' \in Seq(Page) /\ Paged' /\ Anchored'
    BY <1>1, <1>2, PagesLeft, StaysAnchored
  <1>5. missed' \cup doubled' \subseteq DOMAIN log'
    BY <1>1, GapsAreLogged
  <1>6. TypeOK'
    BY <1>4, <1>5 DEF PageFails, ThreadInv, TypeOK
  <1> QED
    BY <1>2, <1>3, <1>4, <1>6 DEF ThreadInv, Kept

LEMMA StepDrop ==
  ASSUME ThreadInv, Drop
  PROVE  ThreadInv'
  <1> USE DEF server, http, view
  <1>1. /\ log' = log /\ handlers' \subseteq handlers /\ answers' \subseteq answers
        /\ inbox' = <<>> /\ thread' = thread /\ doubled' = doubled /\ pages' = pages
        /\ hasMore' = hasMore /\ loaded' = loaded
    BY DEF Drop
  <1>2. Kept
    BY <1>1, SameThread
  <1>3. UnderWay'
    BY <1>1, StaysUnderWay
  <1>4. pages' \in Seq(Page) /\ Paged' /\ Anchored'
    BY <1>1, <1>2, PagesLeft, StaysAnchored
  <1>5. lost' \subseteq Key /\ drops' \in Nat
    <2>1. outbox \in Seq(Key) /\ lost \subseteq Key /\ drops \in Nat
      BY DEF ThreadInv, TypeOK
    <2>2. ToSet(outbox) \subseteq Key
      BY <2>1 DEF ToSet
    <2> QED
      BY <2>1, <2>2 DEF Drop
  <1>6. inbox' \in Seq(Event) /\ outbox' \in Seq(Key)
    BY DEF Drop
  <1>7. TypeOK'
    BY <1>4, <1>5, <1>6 DEF Drop, ThreadInv, TypeOK
  <1> QED
    BY <1>2, <1>3, <1>4, <1>7 DEF ThreadInv, Kept

LEMMA StepReconnect ==
  ASSUME ThreadInv, Reconnect
  PROVE  ThreadInv'
  <1> DEFINE p == [kind |-> "backfill", from |-> LastSeq(thread), got |-> FALSE,
                   rows |-> <<>>, more |-> FALSE]
  <1> USE DEF server
  <1>1. /\ log' = log /\ handlers' \subseteq handlers /\ answers' \subseteq answers
        /\ inbox' = inbox /\ thread' = thread /\ doubled' = doubled
        /\ hasMore' = hasMore /\ loaded' = loaded
        /\ missed' = missed \cup NotBackfilled
    BY DEF Reconnect
  <1>2. Kept
    BY <1>1, SameThread
  <1>3. UnderWay'
    BY <1>1, StaysUnderWay
  <1>4. pages' \in Seq(Page) /\ Paged' /\ Anchored'
    <2>1. CASE ~active
      <3>1. pages' = pages
        BY <2>1 DEF Reconnect
      <3> QED
        BY <1>1, <1>2, <3>1, PagesLeft, StaysAnchored
    <2>2. CASE active
      <3>1. PICK q : q = p
        OBVIOUS
      <3>2. LastSeq(thread) \in Nat
        BY LastSeqType DEF ThreadInv, TypeOK
      <3>3. q \in Page /\ q.kind = "backfill" /\ q.rows = <<>>
        BY <3>1, <3>2, PageTypes
      <3>4. pages' = Append(pages, q)
        BY <2>2, <3>1 DEF Reconnect
      <3>5. PageOK(q)'
        BY <3>3 DEF PageOK
      <3>6. pages' \in Seq(Page) /\ Paged'
        BY <1>2, <3>3, <3>4, <3>5, PageAdded
      <3>7. \A j \in DOMAIN pages' :
              (j \in DOMAIN pages /\ pages'[j] = pages[j]) \/ pages'[j] = q
        <4>1. pages \in Seq(Page)
          BY DEF ThreadInv, TypeOK
        <4> QED
          BY <3>3, <3>4, <4>1
      <3>8. Anchored'
        BY <1>1, <1>2, <3>3, <3>7 DEF ThreadInv, Anchored, Kept
      <3> QED
        BY <3>6, <3>8
    <2> QED
      BY <2>1, <2>2
  <1>5. missed' \cup doubled' \subseteq DOMAIN log'
    BY <1>1, GapsAreLogged
  <1>6. outbox' \in Seq(Key) /\ queue' \in Seq(Key)
    BY DEF Reconnect, ThreadInv, TypeOK
  <1>7. TypeOK'
    BY <1>4, <1>5, <1>6 DEF Reconnect, ThreadInv, TypeOK
  <1> QED
    BY <1>2, <1>3, <1>4, <1>7 DEF ThreadInv, Kept

-----------------------------------------------------------------------------
(***************************************************************************)
(* The theorems                                                            *)
(***************************************************************************)

\* A thread that is open at the start has its first page.
LEMMA ThreadInit ==
  ASSUME Init
  PROVE  ThreadInv
  <1> DEFINE Record == [key : Key \cup {NoKey}, mine : BOOLEAN]
             e == [key |-> NoKey, mine |-> TRUE]
             first == Earlier + 1 - Least(Earlier, PageSize)
  <1>1. /\ Earlier \in Nat /\ PageSize \in Nat /\ PageSize # 0 /\ StartOpen \in BOOLEAN
    BY BoundAssumption, FlagAssumption
  <1>2. log = [i \in 1..Earlier |-> e] /\ e \in Record /\ peerRead = 0
    BY DEF Init
  <1>3. log \in Seq(Record) /\ Len(log) = Earlier /\ \A i \in DOMAIN log : log[i].key = NoKey
    <2>1. e.key = NoKey
      OBVIOUS
    <2> HIDE DEF Record, e
    <2> QED
      BY <1>1, <1>2, <2>1
  <1>4. Logged
    BY <1>3 DEF Logged
  <1>5. /\ first \in Int /\ first >= 1
        /\ Earlier > PageSize => first <= Earlier
    BY <1>1 DEF Least
  <1> HIDE DEF first
  <1>6. PICK rows : rows = Rows(first, Earlier)
    OBVIOUS
  <1>7. /\ rows \in Seq(Message) /\ DOMAIN rows = 1..(Earlier + 1 - first)
        /\ \A j \in DOMAIN rows : Genuine(rows[j]) /\ rows[j].id = first + j - 1
    <2>1. peerRead \in Nat /\ Earlier \in Int /\ Earlier <= Len(log)
      BY <1>1, <1>2, <1>3
    <2> QED
      BY <1>4, <1>5, <1>6, <2>1, RowsType
  <1>8. \A j, k \in DOMAIN rows : j < k => rows[j].id < rows[k].id
    BY <1>1, <1>5, <1>7
  <1>9. PICK t : t = thread
    OBVIOUS
  <1>10. t = rows \/ (t = <<>> /\ ~hasMore)
    BY <1>6, <1>9 DEF Init, first
  <1>11. t \in Seq(Message) /\ Entries(t) /\ Distinct(t)
    <2>1. CASE t = rows
      <3>1. \A j, k \in DOMAIN rows : j # k =>
              /\ rows[j].id # rows[k].id
              /\ rows[j].key = rows[k].key => rows[j].key = NoKey
        BY <1>4, <1>7, <1>8, RowsDistinct
      <3> QED
        BY <1>7, <2>1, <3>1 DEF Entries, Distinct
    <2>2. CASE t = <<>>
      BY <2>2 DEF Entries, Distinct
    <2> QED
      BY <1>10, <2>1, <2>2
  <1>12. Anchored
    <2>1. pages = <<>>
      BY DEF Init
    <2>2. ASSUME hasMore PROVE loaded /\ Rooted(t)
      <3>1. Earlier > PageSize /\ loaded
        BY <2>2 DEF Init
      <3>2. rows # <<>>
        BY <1>1, <1>5, <1>7, <3>1
      <3> QED
        BY <1>4, <1>7, <1>8, <1>10, <2>2, <3>1, <3>2, RowsRooted
    <2> QED
      BY <1>9, <2>1, <2>2 DEF Anchored
  <1>13. UnderWay /\ Paged
    BY DEF Init, UnderWay, Paged
  <1>14. TypeOK
    <2>1. thread \in Seq(Message)
      BY <1>9, <1>11
    <2>2. log \in Seq([key : Key \cup {NoKey}, mine : BOOLEAN])
      BY <1>3
    <2>3. hasMore \in BOOLEAN /\ active \in BOOLEAN /\ loaded \in BOOLEAN
      BY <1>1 DEF Init
    <2> QED
      BY <2>1, <2>2, <2>3 DEF Init, TypeOK
  <1> QED
    BY <1>4, <1>9, <1>11, <1>12, <1>13, <1>14 DEF ThreadInv

LEMMA ThreadNext ==
  ASSUME ThreadInv, [Next]_vars
  PROVE  ThreadInv'
  <1>1. CASE UNCHANGED vars
    <2>1. /\ log' = log /\ handlers' \subseteq handlers /\ answers' \subseteq answers
          /\ inbox' = inbox /\ thread' = thread /\ doubled' = doubled /\ pages' = pages
          /\ hasMore' = hasMore /\ loaded' = loaded
      BY <1>1 DEF vars
    <2>2. Kept
      BY <2>1, SameThread
    <2>3. UnderWay'
      BY <2>1, StaysUnderWay
    <2>4. Paged' /\ Anchored'
      BY <2>1, <2>2, PagesLeft, StaysAnchored
    <2>5. TypeOK'
      BY <1>1 DEF ThreadInv, TypeOK, vars
    <2> QED
      BY <2>2, <2>3, <2>4, <2>5 DEF ThreadInv, Kept
  <1>2. CASE Next
    <2>1. CASE Open \/ Leave \/ LoadOlder
      BY <2>1, StepOpen, StepLeave, StepLoadOlder
    <2>2. ASSUME NEW k \in Key, SendMessage(k) \/ PostStored(k) \/ PostKnown(k) \/ PostFails(k)
          PROVE  ThreadInv'
      BY <2>2, StepSendMessage, StepPostStored, StepPostKnown, StepPostFails
    <2>3. CASE PeerSends
      BY <2>3, StepPeerSends
    <2>4. ASSUME NEW n \in DOMAIN log, PeerReads(n) PROVE ThreadInv'
      BY <2>4, StepPeerReads
    <2>5. CASE FrameStored \/ FrameKnown \/ FrameRefused
      BY <2>5, StepFrameStored, StepFrameKnown, StepFrameRefused
    <2>6. ASSUME NEW h \in handlers, FanOut(h) PROVE ThreadInv'
      BY <2>6, StepFanOut
    <2>7. ASSUME NEW i \in DOMAIN pages, ServePage(i) \/ ApplyPage(i) \/ PageFails(i)
          PROVE  ThreadInv'
      BY <2>7, StepServePage, StepApplyPage, StepPageFails
    <2>8. CASE HandleNew \/ HandleAck \/ HandleRead
      BY <2>8, StepHandleNew, StepHandleAck, StepHandleRead
    <2>9. ASSUME NEW m \in answers, PostAnswered(m) PROVE ThreadInv'
      BY <2>9, StepPostAnswered
    <2>10. CASE Drop \/ Reconnect
      BY <2>10, StepDrop, StepReconnect
    <2> QED
      BY <1>2, <2>1, <2>2, <2>3, <2>4, <2>5, <2>6, <2>7, <2>8, <2>9, <2>10 DEF Next
  <1> QED
    BY <1>1, <1>2

LEMMA ThreadInvariant == Spec => []ThreadInv
  <1>1. Init => ThreadInv
    BY ThreadInit
  <1>2. ThreadInv /\ [Next]_vars => ThreadInv'
    BY ThreadNext
  <1> QED
    BY <1>1, <1>2, PTL DEF Spec

\* What the client holds and what is under way to it has the shape that lib/store.ts
\* takes it to have.
THEOREM ThreadTypeCorrect == Spec => []TypeOK
  <1>1. ThreadInv => TypeOK
    BY DEF ThreadInv
  <1> QED
    BY <1>1, ThreadInvariant, PTL

\* No message is shown twice, by whichever of the five ways it came, and none beside its
\* bubble, for any number of sends, drops and requests that are under way at once.
THEOREM EachShownOnce == Spec => []ShownOnce
  <1>1. ASSUME NEW S, \A i, j \in S : i = j
        PROVE  Cardinality(S) <= 1
    <2>1. CASE S = {}
      BY <2>1, FS_EmptySet
    <2>2. CASE S # {}
      <3>1. PICK i \in S : TRUE
        BY <2>2
      <3>2. S = {i}
        BY <1>1, <3>1
      <3> QED
        BY <3>2, FS_Singleton, Cardinality({i}) = 1
    <2> QED
      BY <2>1, <2>2
  <1>2. ASSUME ThreadInv PROVE ShownOnce
    <2>1. Distinct(thread) /\ 0 \notin DOMAIN log
      BY <1>2 DEF ThreadInv, Logged
    <2>2. ASSUME NEW n \in DOMAIN log \ doubled PROVE Cardinality(Shown(n)) <= 1
      <3>1. \A i, j \in Shown(n) : i = j
        BY <2>1, <2>2 DEF Distinct, Shown
      <3> QED
        BY <1>1, <3>1
    <2>3. ASSUME NEW k \in Key, SeqsOf(k) \cap doubled = {} PROVE Cardinality(Bubbles(k)) <= 1
      <3>1. \A i, j \in Bubbles(k) : i = j
        BY <2>1, <2>3, KeyAssumption DEF Distinct, Bubbles
      <3> QED
        BY <1>1, <3>1
    <2> QED
      BY <2>2, <2>3 DEF ShownOnce
  <1> QED
    BY <1>2, ThreadInvariant, PTL

-----------------------------------------------------------------------------
(***************************************************************************)
(* What becomes of a thread                                                *)
(***************************************************************************)

Shows(s, n) == \E i \in DOMAIN s : s[i].id = n

\* Only bubbles wait for an answer.
Settled(s) == \A i \in DOMAIN s : s[i].status = "sending" => s[i].id = 0

\* Of a thread s became t: what was shown is shown, and no bubble has come or moved.
Follows(s, t) ==
  /\ \A i \in DOMAIN s : s[i].id # 0 => Shows(t, s[i].id)
  /\ \A i \in DOMAIN t : t[i].id = 0 =>
       \E j \in DOMAIN s : s[j].id = 0 /\ s[j].key = t[i].key /\ s[j].seq = t[i].seq
  /\ Settled(s) => Settled(t)

LEMMA FollowsItself ==
  ASSUME NEW s
  PROVE  Follows(s, s)
  BY DEF Follows, Shows

LEMMA FollowsOn ==
  ASSUME NEW s, NEW t, NEW u, Entries(t), Follows(s, t), Follows(t, u)
  PROVE  /\ Follows(s, u)
         /\ \A n : n # 0 /\ Shows(t, n) => Shows(u, n)
  <1>1. \A n : n # 0 /\ Shows(t, n) => Shows(u, n)
    BY DEF Follows, Shows
  <1>2. \A i \in DOMAIN s : s[i].id # 0 => Shows(u, s[i].id)
    BY <1>1 DEF Follows
  <1>3. ASSUME NEW i \in DOMAIN u, u[i].id = 0
        PROVE  \E j \in DOMAIN s : s[j].id = 0 /\ s[j].key = u[i].key /\ s[j].seq = u[i].seq
    <2>1. PICK k \in DOMAIN t : t[k].id = 0 /\ t[k].key = u[i].key /\ t[k].seq = u[i].seq
      BY <1>3 DEF Follows
    <2> QED
      BY <2>1 DEF Follows
  <1> QED
    BY <1>1, <1>2, <1>3 DEF Follows

LEMMA InsertFollows ==
  ASSUME Logged, NEW s \in Seq(Message), Entries(s),
         NEW m \in Message, Genuine(m), m.status # "sending",
         \A i \in DOMAIN s : ~SameMessage(s[i], m)
  PROVE  /\ Follows(s, SortBySeq(Append(s, m)))
         /\ Shows(SortBySeq(Append(s, m)), m.id)
  <1> DEFINE a == Append(s, m)
             t == SortBySeq(a)
             D == DOMAIN a
             last == Len(s) + 1
  <1>1. /\ a \in Seq(Message) /\ last \in D /\ a[last] = m /\ DOMAIN s \subseteq D
        /\ \A i \in DOMAIN s : a[i] = s[i]
        /\ \A i \in D : i \in DOMAIN s \/ i = last
    OBVIOUS
  <1>2. m.id # 0
    BY DEF Genuine, Logged
  <1> HIDE DEF a
  <1>4. DOMAIN t = D
    BY <1>1, Sorted
  <1>5. PICK place \in [D -> D] :
          /\ \A p, n \in D : place[p] = place[n] => p = n
          /\ \A i \in D : \E n \in D : place[n] = i
          /\ \A n \in D : t[n] = a[place[n]]
    BY <1>1, Sorted
  <1> HIDE DEF t, D
  <1>6. \A i \in D : Shows(t, a[i].id)
    BY <1>4, <1>5 DEF Shows
  <1>7. \A i \in DOMAIN s : Shows(t, s[i].id)
    BY <1>1, <1>6
  <1>8. Shows(t, m.id)
    BY <1>1, <1>6
  <1>9. ASSUME NEW i \in D, t[i].id = 0 PROVE place[i] \in DOMAIN s /\ t[i] = s[place[i]]
    BY <1>1, <1>2, <1>5, <1>9
  <1>10. Settled(s) => Settled(t)
    BY <1>1, <1>4, <1>5 DEF Settled
  <1> QED
    BY <1>4, <1>7, <1>8, <1>9, <1>10 DEF Follows, t, a

LEMMA ReplaceFollows ==
  ASSUME Logged, NEW s \in Seq(Message), Entries(s),
         NEW m \in Message, Genuine(m), m.status # "sending",
         NEW i \in DOMAIN s, SameMessage(s[i], m)
  PROVE  /\ Follows(s, [s EXCEPT ![i] = m])
         /\ Shows([s EXCEPT ![i] = m], m.id)
  <1> DEFINE t == [s EXCEPT ![i] = m]
             D == DOMAIN s
  <1>1. DOMAIN t = D /\ t[i] = m /\ \A j \in D : j # i => t[j] = s[j]
    OBVIOUS
  <1> HIDE DEF t
  <1>2. /\ s[i].key = m.key /\ m.id # 0
        /\ s[i].id = m.id \/ s[i].id = 0
    BY SameMeans DEF Entries
  <1>3. Shows(t, m.id)
    BY <1>1 DEF Shows
  <1>4. \A j \in D : s[j].id # 0 => Shows(t, s[j].id)
    BY <1>1, <1>2 DEF Shows
  <1>5. \A j \in D : t[j].id = 0 => j # i /\ t[j] = s[j]
    BY <1>1, <1>2
  <1>6. Settled(s) => Settled(t)
    BY <1>1 DEF Settled
  <1> QED
    BY <1>1, <1>3, <1>4, <1>5, <1>6 DEF Follows, t

LEMMA MergeFollows ==
  ASSUME Logged, NEW s \in Seq(Message), Entries(s),
         NEW m \in Message, Genuine(m), m.status # "sending"
  PROVE  Follows(s, mergeMessage(s, m)) /\ Shows(mergeMessage(s, m), m.id)
  <1> DEFINE at == {i \in DOMAIN s : SameMessage(s[i], m)}
             first == CHOOSE i \in at : \A j \in at : i <= j
  <1>1. mergeMessage(s, m) = IF at = {} THEN SortBySeq(Append(s, m))
                             ELSE [s EXCEPT ![first] = m]
    BY DEF mergeMessage
  <1>2. CASE at = {}
    <2>1. \A i \in DOMAIN s : ~SameMessage(s[i], m)
      BY <1>2
    <2>2. mergeMessage(s, m) = SortBySeq(Append(s, m))
      BY <1>1, <1>2
    <2> QED
      BY <2>1, <2>2, InsertFollows
  <1>3. CASE at # {}
    <2>1. PICK top \in at : TRUE
      BY <1>3
    <2>2. at \in SUBSET Nat
      BY Places
    <2>3. first \in at
      BY <2>1, <2>2, LeastNumber
    <2>4. first \in DOMAIN s /\ SameMessage(s[first], m)
      BY <2>3
    <2>5. mergeMessage(s, m) = [s EXCEPT ![first] = m]
      BY <1>1, <1>3
    <2> HIDE DEF first
    <2> QED
      BY <2>4, <2>5, ReplaceFollows
  <1> QED
    BY <1>2, <1>3

\* What holds after no row of a page is merged, and after each if it did before, holds
\* at the end.
LEMMA MergedFollows ==
  ASSUME Logged, NEW s \in Seq(Message), Entries(s), Distinct(s),
         NEW rows \in Seq(Message),
         \A j \in DOMAIN rows : Genuine(rows[j]) /\ rows[j].status # "sending"
  PROVE  /\ Follows(s, Merged(s, rows))
         /\ \A j \in DOMAIN rows : Shows(Merged(s, rows), rows[j].id)
  <1> DEFINE merged(n) == Merging(s, rows)[n]
             Good(n) == /\ merged(n) \in Seq(Message) /\ Entries(merged(n)) /\ Distinct(merged(n))
                        /\ Follows(s, merged(n))
                        /\ \A j \in 1..n : Shows(merged(n), rows[j].id)
             bad == {n \in 0..Len(rows) : ~Good(n)}
  <1>1. Len(rows) \in Nat /\ DOMAIN rows = 1..Len(rows)
    OBVIOUS
  <1>2. merged(0) = s
    BY MergingSteps
  <1>3. \A n \in 1..Len(rows) : merged(n) = mergeMessage(merged(n - 1), rows[n])
    BY MergingSteps
  <1> HIDE DEF merged
  <1>4. Good(0)
    <2>1. 1..0 = {}
      OBVIOUS
    <2> QED
      BY <1>2, <2>1, FollowsItself
  <1>5. ASSUME NEW n \in 1..Len(rows), Good(n - 1) PROVE Good(n)
    <2>1. rows[n] \in Message /\ Genuine(rows[n]) /\ rows[n].status # "sending"
      BY <1>1
    <2>2. merged(n) \in Seq(Message) /\ Entries(merged(n)) /\ Distinct(merged(n))
      BY <1>3, <1>5, <2>1, MergeKeeps
    <2>3. Follows(merged(n - 1), merged(n)) /\ Shows(merged(n), rows[n].id)
      BY <1>3, <1>5, <2>1, MergeFollows
    <2>4. /\ Follows(s, merged(n))
          /\ \A q : q # 0 /\ Shows(merged(n - 1), q) => Shows(merged(n), q)
      BY <1>5, <2>3, FollowsOn
    <2>5. ASSUME NEW j \in 1..n PROVE Shows(merged(n), rows[j].id)
      <3>1. CASE j = n
        BY <2>3, <3>1
      <3>2. CASE j # n
        <4>1. j \in 1..(n - 1) /\ j \in DOMAIN rows
          BY <1>1, <3>2
        <4>2. rows[j].id # 0
          BY <4>1 DEF Genuine, Logged
        <4> QED
          BY <1>5, <2>4, <4>1, <4>2
      <3> QED
        BY <3>1, <3>2
    <2> QED
      BY <2>2, <2>4, <2>5
  <1> HIDE DEF Good
  <1>6. bad = {}
    <2> SUFFICES ASSUME bad # {} PROVE FALSE
      OBVIOUS
    <2>1. PICK some \in bad : TRUE
      OBVIOUS
    <2>2. bad \in SUBSET Nat
      OBVIOUS
    <2> HIDE DEF bad
    <2>3. PICK n \in bad : \A k \in bad : n <= k
      BY <2>1, <2>2, LeastNumber
    <2>4. n \in 0..Len(rows) /\ ~Good(n)
      BY <2>3 DEF bad
    <2>5. n \in 1..Len(rows) /\ n - 1 \in 0..Len(rows)
      BY <1>1, <1>4, <2>4
    <2>6. n - 1 \notin bad
      BY <2>3, <2>5
    <2>7. Good(n - 1)
      BY <2>5, <2>6 DEF bad
    <2> QED
      BY <1>5, <2>4, <2>5, <2>7
  <1>7. Good(Len(rows))
    BY <1>1, <1>6
  <1> QED
    BY <1>1, <1>7 DEF Good, merged, Merged

\* A thread in which only statuses change, and none back to "sending".
LEMMA RestatedFollows ==
  ASSUME NEW s, NEW t, DOMAIN t = DOMAIN s,
         \A i \in DOMAIN s : /\ t[i].id = s[i].id /\ t[i].key = s[i].key /\ t[i].seq = s[i].seq
                             /\ t[i].status = "sending" => s[i].status = "sending"
  PROVE  Follows(s, t)
  BY DEF Follows, Shows, Settled

LEMMA ReceiptedFollows ==
  ASSUME NEW s \in Seq(Message), NEW seq
  PROVE  /\ Follows(s, Receipted(s, seq))
         /\ DOMAIN Receipted(s, seq) = DOMAIN s
         /\ \A i \in DOMAIN s : Receipted(s, seq)[i].seq = s[i].seq
  <1> DEFINE t == Receipted(s, seq)
  <1>1. DOMAIN t = DOMAIN s
    BY DEF Receipted
  <1>2. ASSUME NEW i \in DOMAIN s
        PROVE  /\ t[i].id = s[i].id /\ t[i].seq = s[i].seq /\ t[i].key = s[i].key
               /\ t[i].status = "sending" => s[i].status = "sending"
    <2>1. s[i] \in Message
      OBVIOUS
    <2>2. t[i] = [s[i] EXCEPT !.status = "read"] \/ t[i] = s[i]
      BY DEF Receipted
    <2> QED
      BY <2>1, <2>2 DEF Message
  <1> HIDE DEF t
  <1>3. Follows(s, t)
    BY <1>1, <1>2, RestatedFollows
  <1> QED
    BY <1>1, <1>2, <1>3 DEF t

LEMMA FailedFollows ==
  ASSUME NEW s \in Seq(Message), NEW k
  PROVE  /\ Follows(s, Failed(s, k))
         /\ DOMAIN Failed(s, k) = DOMAIN s
         /\ \A i \in DOMAIN s : Failed(s, k)[i].seq = s[i].seq
  <1> DEFINE t == Failed(s, k)
  <1>1. DOMAIN t = DOMAIN s
    BY DEF Failed
  <1>2. ASSUME NEW i \in DOMAIN s
        PROVE  /\ t[i].id = s[i].id /\ t[i].seq = s[i].seq /\ t[i].key = s[i].key
               /\ t[i].status = "sending" => s[i].status = "sending"
    <2>1. s[i] \in Message
      OBVIOUS
    <2>2. t[i] = [s[i] EXCEPT !.status = "failed"] \/ t[i] = s[i]
      BY DEF Failed
    <2> QED
      BY <2>1, <2>2 DEF Message
  <1> HIDE DEF t
  <1>3. Follows(s, t)
    BY <1>1, <1>2, RestatedFollows
  <1> QED
    BY <1>1, <1>2, <1>3 DEF t

\* What is above the first message of a thread stays above it when a bubble gets its
\* number.
LEMMA AckedFollows ==
  ASSUME Logged, NEW s \in Seq(Message), Entries(s),
         NEW m \in Message, Genuine(m), m.key # NoKey, m.status # "sending"
  PROVE  /\ Follows(s, Acked(s, m))
         /\ \A n \in Nat : Rooted(s) /\ (\A i \in DOMAIN s : n < s[i].seq)
              => \A i \in DOMAIN Acked(s, m) : n < Acked(s, m)[i].seq
  <1> DEFINE t == Acked(s, m)
             D == DOMAIN s
  <1>1. DOMAIN t = D
    BY DEF Acked
  <1>2. ASSUME NEW i \in D
        PROVE  /\ t[i].key = s[i].key
               /\ s[i].key # m.key => t[i] = s[i]
               /\ s[i].key = m.key => /\ t[i].id = m.id /\ t[i].seq = m.seq
                                      /\ t[i].status # "sending"
    <2>1. s[i] \in Message
      OBVIOUS
    <2>2. CASE s[i].key # m.key
      BY <2>1, <2>2 DEF Acked
    <2>3. CASE s[i].key = m.key
      <3> DEFINE status == IF s[i].status = "sending" THEN m.status ELSE s[i].status
      <3>1. t[i] = [s[i] EXCEPT !.id = m.id, !.seq = m.seq, !.status = status]
        BY <2>3 DEF Acked
      <3>2. status # "sending"
        OBVIOUS
      <3> HIDE DEF status
      <3> QED
        BY <2>1, <2>3, <3>1, <3>2 DEF Message
    <2> QED
      BY <2>2, <2>3
  <1> HIDE DEF t
  <1>3. m.id # 0 /\ m.seq = m.id /\ SeqsOf(m.key) = {m.id}
    <2>1. SeqsOf(m.key) = {m.id}
      BY OneSeq
    <2>2. m.id # 0 /\ m.seq = m.id
      BY DEF Genuine, Logged
    <2> QED
      BY <2>1, <2>2
  <1>4. ASSUME NEW i \in D, s[i].id # 0 PROVE t[i].id = s[i].id /\ t[i].seq = s[i].seq
    <2>1. Genuine(s[i])
      BY <1>4 DEF Entries, Optimistic
    <2>2. s[i].key = m.key => s[i].id = m.id /\ s[i].seq = m.seq
      BY <1>3, <2>1, OneSeq DEF Genuine
    <2> QED
      BY <1>2, <2>2
  <1>5. \A i \in D : t[i].id = 0 => t[i] = s[i]
    BY <1>2, <1>3
  <1>6. \A i \in D : s[i].id # 0 => Shows(t, s[i].id)
    BY <1>1, <1>4 DEF Shows
  <1>7. Settled(s) => Settled(t)
    BY <1>1, <1>2 DEF Settled
  <1>9. Follows(s, t)
    BY <1>1, <1>5, <1>6, <1>7 DEF Follows
  <1>10. ASSUME NEW n \in Nat, Rooted(s), \A i \in D : n < s[i].seq, NEW i \in D
         PROVE  n < t[i].seq
    <2>1. CASE s[i].id # 0 \/ s[i].key # m.key
      BY <1>2, <1>4, <1>10, <2>1
    <2>2. CASE s[i].id = 0 /\ s[i].key = m.key
      <3>1. PICK j \in D : s[j].seq < m.id
        BY <1>3, <1>10, <2>2 DEF Rooted, Under
      <3>2. s[j] \in Message
        OBVIOUS
      <3>3. n < s[j].seq /\ s[j].seq \in Nat /\ m.id \in Nat /\ t[i].seq = m.id
        BY <1>2, <1>3, <1>10, <2>2, <3>2, MessageFields
      <3> QED
        BY <3>1, <3>3
    <2> QED
      BY <2>1, <2>2
  <1> QED
    BY <1>1, <1>9, <1>10 DEF t

-----------------------------------------------------------------------------
(***************************************************************************)
(* Where a message is while it is not in the thread                        *)
(***************************************************************************)

\* A page has message n, or n is above it and the page says that there are more.
Lists(p, n) == \E j \in DOMAIN p.rows : p.rows[j].id = n
Above(p, n) == p.more /\ \A j \in DOMAIN p.rows : n < p.rows[j].id

\* A request that was made when n was stored, or has been answered since. What a
\* backfill has no room for is left out when it is applied.
Brings(p, n) ==
  \/ p.kind = "open" /\ (~p.got \/ Lists(p, n) \/ Above(p, n))
  \/ /\ p.kind = "backfill" /\ p.from < n
     /\ ~p.got \/ Lists(p, n) \/ (Len(p.rows) = BackfillSize /\ Last(p.rows).seq < n)

\* Everything is fetched when the conversation is opened.
Unopened == ~active /\ ~loaded /\ ~Opening

Told(n) ==
  \/ \E h \in handlers : h.seq = n
  \/ \E i \in DOMAIN inbox : inbox[i].type = "new" /\ inbox[i].msg.id = n

Asked(n) == \E i \in DOMAIN pages : Brings(pages[i], n)

\* Without a connection nothing is told, but resuming it asks for everything, or gives
\* it up.
Traced(n) == Held(n) \/ ~link \/ Unopened \/ Told(n) \/ Asked(n)

AllTraced == \A n \in DOMAIN log \ missed : Traced(n)

\* An older page ends without a gap where it was asked to.
Whole(p) == p.got => \A n \in 1..(p.from - 1) : Lists(p, n) \/ Above(p, n)
Resumed == \A i \in DOMAIN pages : pages[i].kind = "older" => Whole(pages[i])

\* Nothing the server says of a message is that it is being sent.
Decided ==
  /\ \A i \in DOMAIN inbox : inbox[i].type \in {"new", "ack"} => inbox[i].msg.status # "sending"
  /\ \A m \in answers : m.status # "sending"
  /\ \A i \in DOMAIN pages : \A j \in DOMAIN pages[i].rows : pages[i].rows[j].status # "sending"

\* A bubble's message is stored, or its frame is under way or lost.
Sent ==
  \A i \in DOMAIN thread : thread[i].id = 0 =>
    \/ SeqsOf(thread[i].key) # {}
    \/ thread[i].key \in ToSet(outbox) \cup ToSet(queue) \cup lost

Pending == Settled(thread) /\ Sent

\* A frame is sent over a connection, and goes down with it.
Closed == ~link => outbox = <<>>

DeliveryInv == ThreadInv /\ Closed /\ Decided /\ Pending /\ Resumed /\ AllTraced

-----------------------------------------------------------------------------
LEMMA Positions ==
  ASSUME ThreadInv
  PROVE  DOMAIN log \subseteq Nat \ {0}
  <1> DEFINE R == [key : Key \cup {NoKey}, mine : BOOLEAN]
  <1>1. log \in Seq(R)
    BY DEF ThreadInv, Logged
  <1> HIDE DEF R
  <1> QED
    BY <1>1

LEMMA HeldStays ==
  ASSUME ThreadInv, ThreadInv', NEW n \in DOMAIN log, n \notin missed', Held(n),
         NEW t \in Seq(Message), thread' = t, hasMore' = hasMore,
         Shows(thread, n) => Shows(t, n),
         \/ Promised(n) => \A i \in DOMAIN t : n < t[i].seq
         \/ log' = log /\ Follows(thread, t) /\ CutOff(t) \subseteq missed'
  PROVE  Held(n)'
  <1>1. Held(n)' <=> Shows(t, n) \/ (hasMore /\ \A i \in DOMAIN t : n < t[i].seq)
    <2>1. Held(n)' <=> Shown(n)' # {} \/ Promised(n)'
      BY DEF Held
    <2>2. Shown(n)' # {} <=> Shows(t, n)
      BY DEF Shown, Shows
    <2>3. Promised(n)' <=> hasMore /\ \A i \in DOMAIN t : t[i].seq > n
      BY DEF Promised
    <2>4. \A i \in DOMAIN t : t[i].seq > n <=> n < t[i].seq
      OBVIOUS
    <2> QED
      BY <2>1, <2>2, <2>3, <2>4
  <1>2. CASE Shown(n) # {}
    BY <1>1, <1>2 DEF Shown, Shows
  <1>3. CASE Promised(n) /\ \A i \in DOMAIN t : n < t[i].seq
    BY <1>1, <1>3 DEF Promised
  <1>4. CASE /\ Promised(n) /\ ~Shows(t, n)
             /\ log' = log /\ Follows(thread, t) /\ CutOff(t) \subseteq missed'
    <2>1. n \in Unshown(t)
      BY <1>4 DEF Unshown, Shows
    <2>2. \A i \in DOMAIN t : ~(t[i].seq < n)
      BY <1>4, <2>1 DEF CutOff
    <2>3. Entries(thread)'
      BY DEF ThreadInv
    <2>4. ASSUME NEW i \in DOMAIN t, t[i].seq = n PROVE FALSE
      <3>1. CASE t[i].id = 0
        <4>1. PICK j \in DOMAIN thread : thread[j].seq = n
          BY <1>4, <2>4, <3>1 DEF Follows
        <4>2. thread[j].seq > n /\ n \in Nat
          BY <1>4, Positions DEF Promised
        <4> QED
          BY <4>1, <4>2
      <3>2. CASE t[i].id # 0
        <4>1. t[i].seq = t[i].id
          BY <2>3, <2>4, <3>2 DEF Entries, Genuine, Optimistic
        <4> QED
          BY <1>4, <2>4, <4>1 DEF Shows
      <3> QED
        BY <3>1, <3>2
    <2>5. \A i \in DOMAIN t : n < t[i].seq
      <3> SUFFICES ASSUME NEW i \in DOMAIN t PROVE n < t[i].seq
        OBVIOUS
      <3>1. t[i] \in Message /\ n \in Nat
        BY Positions
      <3> QED
        BY <2>2, <2>4, <3>1, MessageFields
    <2> QED
      BY <1>1, <1>4, <2>5 DEF Promised
  <1> QED
    BY <1>1, <1>2, <1>3, <1>4 DEF Held

LEMMA ToldStays ==
  ASSUME ThreadInv, NEW n, Told(n), handlers \subseteq handlers',
         \/ \A i \in DOMAIN inbox : i \in DOMAIN inbox' /\ inbox'[i] = inbox[i]
         \/ /\ inbox # <<>> /\ inbox' = Tail(inbox)
            /\ Head(inbox).type = "new" => Head(inbox).msg.id # n
  PROVE  Told(n)'
  <1>1. inbox \in Seq(Event)
    BY DEF ThreadInv, TypeOK
  <1>2. CASE \E h \in handlers : h.seq = n
    BY <1>2 DEF Told
  <1>3. ASSUME NEW i \in DOMAIN inbox, inbox[i].type = "new", inbox[i].msg.id = n
        PROVE  Told(n)'
    <2>1. CASE \A j \in DOMAIN inbox : j \in DOMAIN inbox' /\ inbox'[j] = inbox[j]
      BY <1>3, <2>1 DEF Told
    <2>3. CASE /\ inbox # <<>> /\ inbox' = Tail(inbox)
               /\ Head(inbox).type = "new" => Head(inbox).msg.id # n
      <3>1. i # 1
        BY <1>3, <2>3
      <3>2. i - 1 \in DOMAIN inbox' /\ inbox'[i - 1] = inbox[i]
        BY <1>1, <2>3, <3>1
      <3> QED
        BY <1>3, <3>2 DEF Told
    <2> QED
      BY <2>1, <2>3
  <1> QED
    BY <1>2, <1>3 DEF Told

LEMMA AskedStays ==
  ASSUME ThreadInv, NEW n, Asked(n),
         \/ pages' = pages
         \/ \E p : pages' = Append(pages, p)
         \/ \E i \in DOMAIN pages : ~Brings(pages[i], n) /\ pages' = RemoveAt(pages, i)
  PROVE  Asked(n)'
  <1>1. pages \in Seq(Page)
    BY DEF ThreadInv, TypeOK
  <1>2. PICK i \in DOMAIN pages : Brings(pages[i], n)
    BY DEF Asked
  <1>3. \E j \in DOMAIN pages' : pages'[j] = pages[i]
    <2>1. CASE pages' = pages
      BY <2>1
    <2>2. ASSUME NEW p, pages' = Append(pages, p) PROVE \E j \in DOMAIN pages' : pages'[j] = pages[i]
      <3>1. i \in DOMAIN pages' /\ pages'[i] = pages[i]
        BY <1>1, <2>2
      <3> QED
        BY <3>1
    <2>3. ASSUME NEW k \in DOMAIN pages, ~Brings(pages[k], n), pages' = RemoveAt(pages, k)
          PROVE  \E j \in DOMAIN pages' : pages'[j] = pages[i]
      <3>1. i # k
        BY <1>2, <2>3
      <3>2. /\ DOMAIN pages' = 1..(Len(pages) - 1)
            /\ \A j \in 1..(Len(pages) - 1) :
                 pages'[j] = IF j < k THEN pages[j] ELSE pages[j + 1]
        BY <1>1, <2>3, Removed
      <3>3. i \in 1..Len(pages) /\ k \in 1..Len(pages) /\ Len(pages) \in Nat
        BY <1>1
      <3> DEFINE j == IF i < k THEN i ELSE i - 1
      <3>4. j \in DOMAIN pages' /\ pages'[j] = pages[i]
        BY <3>1, <3>2, <3>3
      <3> QED
        BY <3>4
    <2> QED
      BY <2>1, <2>2, <2>3
  <1>4. PICK j \in DOMAIN pages' : pages'[j] = pages[i]
    BY <1>3
  <1>5. PICK p : p = pages[i]
    OBVIOUS
  <1>6. Brings(pages[j], n)' <=> Brings(p, n)
    BY <1>4, <1>5 DEF Brings, Lists, Above
  <1> QED
    BY <1>2, <1>4, <1>5, <1>6 DEF Asked

\* A message stays traced in a step that gives up nothing but what is in missed.
LEMMA TracedStays ==
  ASSUME ThreadInv, ThreadInv', NEW n \in DOMAIN log, n \notin missed', Traced(n),
         NEW t \in Seq(Message), thread' = t, hasMore' = hasMore,
         Shows(thread, n) => Shows(t, n),
         \/ Promised(n) => \A i \in DOMAIN t : n < t[i].seq
         \/ log' = log /\ Follows(thread, t) /\ CutOff(t) \subseteq missed',
         ~link => ~link',
         Unopened => \/ Unopened'
                     \/ Unfetched(t) \subseteq missed',
         handlers \subseteq handlers',
         \/ \A i \in DOMAIN inbox : i \in DOMAIN inbox' /\ inbox'[i] = inbox[i]
         \/ /\ inbox # <<>> /\ inbox' = Tail(inbox)
            /\ Head(inbox).type = "new" => Head(inbox).msg.id # n,
         \/ pages' = pages
         \/ \E p : pages' = Append(pages, p)
         \/ \E i \in DOMAIN pages : ~Brings(pages[i], n) /\ pages' = RemoveAt(pages, i)
  PROVE  Traced(n)'
  <1>1. Held(n) => Held(n)'
    BY HeldStays
  <1>2. Told(n) => Told(n)'
    BY ToldStays
  <1>3. Asked(n) => Asked(n)'
    BY AskedStays
  <1>4. ASSUME Unopened, Unfetched(t) \subseteq missed' PROVE Held(n)'
    <2>1. n \notin Unshown(t)
      BY <1>4 DEF Unopened, Unfetched
    <2>2. PICK i \in DOMAIN t : t[i].id = n
      BY <2>1 DEF Unshown
    <2> QED
      BY <2>2 DEF Held, Shown
  <1> QED
    BY <1>1, <1>2, <1>3, <1>4 DEF Traced

LEMMA InboxDecided ==
  ASSUME ThreadInv, Decided,
         \/ inbox' = <<>>
         \/ inbox # <<>> /\ inbox' = Tail(inbox)
         \/ \A i \in DOMAIN inbox' :
              \/ i \in DOMAIN inbox /\ inbox'[i] = inbox[i]
              \/ inbox'[i].type \in {"new", "ack"} => inbox'[i].msg.status # "sending"
  PROVE  \A i \in DOMAIN inbox' :
           inbox'[i].type \in {"new", "ack"} => inbox'[i].msg.status # "sending"
  <1>1. inbox \in Seq(Event)
    BY DEF ThreadInv, TypeOK
  <1>2. CASE inbox' = <<>>
    BY <1>2
  <1>3. CASE inbox # <<>> /\ inbox' = Tail(inbox)
    <2>1. \A i \in DOMAIN inbox' : i + 1 \in DOMAIN inbox /\ inbox'[i] = inbox[i + 1]
      BY <1>1, <1>3
    <2> QED
      BY <2>1 DEF Decided
  <1>4. CASE \A i \in DOMAIN inbox' :
               \/ i \in DOMAIN inbox /\ inbox'[i] = inbox[i]
               \/ inbox'[i].type \in {"new", "ack"} => inbox'[i].msg.status # "sending"
    BY <1>4 DEF Decided
  <1> QED
    BY <1>2, <1>3, <1>4

\* Events that are put on the socket come after those that are on it.
LEMMA InboxGrown ==
  ASSUME NEW s \in Seq(Event), NEW events \in Seq(Event), NEW t, t = s \o events
  PROVE  /\ \A i \in DOMAIN s : i \in DOMAIN t /\ t[i] = s[i]
         /\ \A i \in DOMAIN t : \/ i \in DOMAIN s /\ t[i] = s[i]
                                \/ \E j \in DOMAIN events : t[i] = events[j]
  <1>1. /\ DOMAIN s = 1..Len(s) /\ DOMAIN events = 1..Len(events)
        /\ Len(s) \in Nat /\ Len(events) \in Nat
        /\ DOMAIN t = 1..(Len(s) + Len(events))
        /\ \A i \in 1..Len(s) : t[i] = s[i]
        /\ \A i \in (Len(s) + 1)..(Len(s) + Len(events)) : t[i] = events[i - Len(s)]
    OBVIOUS
  <1>2. \A i \in DOMAIN s : i \in DOMAIN t /\ t[i] = s[i]
    BY <1>1
  <1>3. ASSUME NEW i \in DOMAIN t
        PROVE  \/ i \in DOMAIN s /\ t[i] = s[i]
               \/ \E j \in DOMAIN events : t[i] = events[j]
    <2>1. CASE i <= Len(s)
      BY <1>1, <2>1
    <2>2. CASE ~(i <= Len(s))
      <3>1. i - Len(s) \in DOMAIN events /\ t[i] = events[i - Len(s)]
        BY <1>1, <2>2
      <3> QED
        BY <3>1
    <2> QED
      BY <2>1, <2>2
  <1> QED
    BY <1>2, <1>3

\* A page that is there after a step was there before, or is the new one.
LEMMA PagesCome ==
  ASSUME ThreadInv, NEW p,
         \/ pages' = pages \/ pages' = Append(pages, p)
         \/ \E i \in DOMAIN pages : pages' = RemoveAt(pages, i)
  PROVE  \A j \in DOMAIN pages' :
           \/ pages'[j] = p /\ pages' = Append(pages, p)
           \/ \E i \in DOMAIN pages : pages'[j] = pages[i]
  <1>1. pages \in Seq(Page)
    BY DEF ThreadInv, TypeOK
  <1>2. CASE pages' = Append(pages, p)
    BY <1>1, <1>2
  <1>3. CASE pages' = pages \/ \E i \in DOMAIN pages : pages' = RemoveAt(pages, i)
    BY <1>1, <1>3, Left
  <1> QED
    BY <1>2, <1>3

LEMMA PagesDecided ==
  ASSUME ThreadInv, Decided, NEW p,
         \/ pages' = pages \/ (pages' = Append(pages, p) /\ p.rows = <<>>)
         \/ \E i \in DOMAIN pages : pages' = RemoveAt(pages, i)
  PROVE  \A i \in DOMAIN pages' : \A j \in DOMAIN pages'[i].rows :
           pages'[i].rows[j].status # "sending"
  <1> SUFFICES ASSUME NEW i \in DOMAIN pages', NEW j \in DOMAIN pages'[i].rows
               PROVE  pages'[i].rows[j].status # "sending"
    OBVIOUS
  <1>1. \/ pages'[i].rows = <<>>
        \/ \E k \in DOMAIN pages : pages'[i] = pages[k]
    BY PagesCome
  <1> QED
    BY <1>1 DEF Decided

LEMMA ResumedStays ==
  ASSUME ThreadInv, Resumed, NEW p,
         \/ pages' = pages \/ pages' = Append(pages, p)
         \/ \E i \in DOMAIN pages : pages' = RemoveAt(pages, i),
         pages' = Append(pages, p) /\ p.kind = "older" => ~p.got
  PROVE  Resumed'
  <1> SUFFICES ASSUME NEW j \in DOMAIN pages', pages'[j].kind = "older"
               PROVE  Whole(pages[j])'
    BY DEF Resumed
  <1>1. PICK q : q = pages'[j]
    OBVIOUS
  <1>2. \/ pages' = Append(pages, p) /\ q = p
        \/ \E i \in DOMAIN pages : q = pages[i]
    BY <1>1, PagesCome
  <1>3. Whole(q)
    BY <1>1, <1>2 DEF Resumed, Whole
  <1> QED
    BY <1>1, <1>3 DEF Whole, Lists, Above

LEMMA PendingStays ==
  ASSUME Pending, NEW t, thread' = t, Follows(thread, t),
         \A k : SeqsOf(k) # {} => SeqsOf(k)' # {},
         \A k \in ToSet(outbox) \cup ToSet(queue) \cup lost :
           \/ k \in ToSet(outbox)' \cup ToSet(queue)' \cup lost'
           \/ SeqsOf(k)' # {}
  PROVE  Pending'
  <1>1. Settled(t)
    BY DEF Pending, Follows
  <1>2. Settled(thread)'
    BY <1>1 DEF Settled
  <1>3. Sent'
    <2> SUFFICES ASSUME NEW i \in DOMAIN t, t[i].id = 0
                 PROVE  \/ SeqsOf(t[i].key)' # {}
                        \/ t[i].key \in ToSet(outbox)' \cup ToSet(queue)' \cup lost'
      BY DEF Sent, SeqsOf
    <2>1. PICK j \in DOMAIN thread : thread[j].id = 0 /\ thread[j].key = t[i].key
      BY DEF Follows
    <2>2. \/ SeqsOf(t[i].key) # {}
          \/ t[i].key \in ToSet(outbox) \cup ToSet(queue) \cup lost
      BY <2>1 DEF Pending, Sent
    <2> QED
      BY <2>2
  <1> QED
    BY <1>2, <1>3 DEF Pending

-----------------------------------------------------------------------------
(***************************************************************************)
(* The steps of the user                                                   *)
(***************************************************************************)

Delivery == Decided /\ Pending /\ Resumed /\ AllTraced

\* What a step keeps traced that leaves the thread alone.
LEMMA TracedBeside ==
  ASSUME ThreadInv, ThreadInv', NEW n \in DOMAIN log, n \notin missed', Traced(n),
         thread' = thread, hasMore' = hasMore, ~link => ~link', Unopened => Unopened',
         handlers \subseteq handlers',
         \A i \in DOMAIN inbox : i \in DOMAIN inbox' /\ inbox'[i] = inbox[i],
         pages' = pages \/ \E p : pages' = Append(pages, p)
  PROVE  Traced(n)'
  <1>1. PICK t : t = thread
    OBVIOUS
  <1>2. /\ t \in Seq(Message) /\ thread' = t /\ (Shows(thread, n) => Shows(t, n))
        /\ Promised(n) => \A i \in DOMAIN t : n < t[i].seq
    BY <1>1 DEF ThreadInv, TypeOK, Promised
  <1> QED
    BY <1>2, TracedStays

LEMMA PendingBeside ==
  ASSUME Pending, thread' = thread,
         \A k : SeqsOf(k) # {} => SeqsOf(k)' # {},
         \A k \in ToSet(outbox) \cup ToSet(queue) \cup lost :
           \/ k \in ToSet(outbox)' \cup ToSet(queue)' \cup lost'
           \/ SeqsOf(k)' # {}
  PROVE  Pending'
  <1>1. PICK t : t = thread
    OBVIOUS
  <1>2. thread' = t /\ Follows(thread, t)
    BY <1>1, FollowsItself
  <1> QED
    BY <1>2, PendingStays

LEMMA DeliveryLeave ==
  ASSUME DeliveryInv, ThreadInv', Leave
  PROVE  Delivery'
  <1>1. /\ log' = log /\ handlers' = handlers /\ link' = link /\ inbox' = inbox
        /\ outbox' = outbox /\ queue' = queue /\ lost' = lost /\ answers' = answers
        /\ pages' = pages /\ loaded' = loaded /\ thread' = thread /\ hasMore' = hasMore
        /\ missed' = missed /\ active
    BY DEF Leave, server, wire, http
  <1>2. Decided'
    BY <1>1 DEF DeliveryInv, Decided
  <1>3. Pending'
    BY <1>1, PendingBeside DEF DeliveryInv, SeqsOf
  <1>4. Resumed'
    BY <1>1, ResumedStays DEF DeliveryInv
  <1>5. AllTraced'
    <2> SUFFICES ASSUME NEW n \in DOMAIN log, n \notin missed' PROVE Traced(n)'
      BY <1>1 DEF AllTraced
    <2>1. Traced(n) /\ ~Unopened
      BY <1>1 DEF DeliveryInv, AllTraced, Unopened
    <2> QED
      BY <1>1, <2>1, TracedBeside DEF DeliveryInv
  <1> QED
    BY <1>2, <1>3, <1>4, <1>5 DEF Delivery

\* Asking for the history of a conversation that is opened.
LEMMA DeliveryOpen ==
  ASSUME DeliveryInv, ThreadInv', Open
  PROVE  Delivery'
  <1> DEFINE p == [kind |-> "open", from |-> 0, got |-> FALSE, rows |-> <<>>, more |-> FALSE]
  <1>1. /\ log' = log /\ handlers' = handlers /\ link' = link /\ inbox' = inbox
        /\ outbox' = outbox /\ queue' = queue /\ lost' = lost /\ answers' = answers
        /\ loaded' = loaded /\ thread' = thread /\ hasMore' = hasMore
        /\ missed' = missed /\ pages' = IF loaded THEN pages ELSE Append(pages, p)
    BY DEF Open, server, wire
  <1>2. p.kind = "open" /\ ~p.got /\ p.rows = <<>>
    OBVIOUS
  <1> HIDE DEF p
  <1>3. Decided'
    <2>1. \A i \in DOMAIN pages' : \A j \in DOMAIN pages'[i].rows :
             pages'[i].rows[j].status # "sending"
      BY <1>1, <1>2, PagesDecided DEF DeliveryInv
    <2> QED
      BY <1>1, <2>1 DEF DeliveryInv, Decided
  <1>4. Pending'
    BY <1>1, PendingBeside DEF DeliveryInv, SeqsOf
  <1>5. Resumed'
    BY <1>1, <1>2, ResumedStays DEF DeliveryInv
  <1>6. AllTraced'
    <2> SUFFICES ASSUME NEW n \in DOMAIN log, n \notin missed' PROVE Traced(n)'
      BY <1>1 DEF AllTraced
    <2>1. Traced(n)
      BY <1>1 DEF DeliveryInv, AllTraced
    <2>2. CASE Unopened
      <3>1. pages' = Append(pages, p) /\ pages \in Seq(Page)
        BY <1>1, <2>2 DEF Unopened, DeliveryInv, ThreadInv, TypeOK
      <3>2. Len(pages) + 1 \in DOMAIN pages' /\ pages'[Len(pages) + 1] = p
        BY <3>1
      <3>3. \E i \in DOMAIN pages' : Brings(pages[i], n)'
        <4>1. PICK i : i = Len(pages) + 1
          OBVIOUS
        <4>2. i \in DOMAIN pages' /\ pages'[i] = p
          BY <3>2, <4>1
        <4>3. Brings(pages[i], n)'
          BY <1>2, <4>2 DEF Brings
        <4> QED
          BY <4>2, <4>3
      <3> QED
        BY <3>3 DEF Traced, Asked
    <2>3. CASE ~Unopened
      BY <1>1, <2>1, <2>3, TracedBeside DEF DeliveryInv
    <2> QED
      BY <2>2, <2>3
  <1> QED
    BY <1>3, <1>4, <1>5, <1>6 DEF Delivery

\* Asking for older messages, from the first one shown.
LEMMA DeliveryLoadOlder ==
  ASSUME DeliveryInv, ThreadInv', LoadOlder
  PROVE  Delivery'
  <1> DEFINE p == [kind |-> "older", from |-> thread[1].seq, got |-> FALSE,
                   rows |-> <<>>, more |-> FALSE]
  <1>1. /\ log' = log /\ handlers' = handlers /\ link' = link /\ inbox' = inbox
        /\ outbox' = outbox /\ queue' = queue /\ lost' = lost /\ answers' = answers
        /\ active' = active /\ thread' = thread /\ hasMore' = hasMore
        /\ missed' = missed /\ pages' = Append(pages, p) /\ active /\ hasMore
    BY DEF LoadOlder, server, wire, view
  <1>2. p.kind = "older" /\ ~p.got /\ p.rows = <<>> /\ p.from = thread[1].seq
    OBVIOUS
  <1> HIDE DEF p
  <1>3. Decided'
    <2>1. \A i \in DOMAIN pages' : \A j \in DOMAIN pages'[i].rows :
             pages'[i].rows[j].status # "sending"
      BY <1>1, <1>2, PagesDecided DEF DeliveryInv
    <2> QED
      BY <1>1, <2>1 DEF DeliveryInv, Decided
  <1>4. Pending'
    BY <1>1, PendingBeside DEF DeliveryInv, SeqsOf
  <1>6. Resumed'
    BY <1>1, <1>2, ResumedStays DEF DeliveryInv
  <1>7. AllTraced'
    <2> SUFFICES ASSUME NEW n \in DOMAIN log, n \notin missed' PROVE Traced(n)'
      BY <1>1 DEF AllTraced
    <2>1. Traced(n) /\ ~Unopened
      BY <1>1 DEF DeliveryInv, AllTraced, Unopened
    <2> QED
      BY <1>1, <2>1, TracedBeside DEF DeliveryInv
  <1> QED
    BY <1>3, <1>4, <1>6, <1>7 DEF Delivery

\* What is under way in a sequence.
LEMMA Queued ==
  ASSUME NEW s \in Seq(Key)
  PROVE  /\ \A k \in Key : ToSet(Append(s, k)) = ToSet(s) \cup {k}
         /\ s # <<>> => ToSet(s) = ToSet(Tail(s)) \cup {Head(s)}
  <1>1. ASSUME NEW k \in Key PROVE ToSet(Append(s, k)) = ToSet(s) \cup {k}
    <2>1. PICK t : t = Append(s, k)
      OBVIOUS
    <2>2. /\ DOMAIN s = 1..Len(s) /\ Len(s) \in Nat /\ DOMAIN t = 1..(Len(s) + 1)
          /\ t[Len(s) + 1] = k /\ \A i \in DOMAIN s : t[i] = s[i]
      BY <2>1
    <2>3. \A i \in DOMAIN s : i \in DOMAIN t
      BY <2>2
    <2>4. \A i \in DOMAIN t : i \in DOMAIN s \/ i = Len(s) + 1
      BY <2>2
    <2>5. Len(s) + 1 \in DOMAIN t
      BY <2>2
    <2>6. ToSet(t) = ToSet(s) \cup {k}
      BY <2>2, <2>3, <2>4, <2>5 DEF ToSet
    <2> QED
      BY <2>1, <2>6
  <1>2. ASSUME s # <<>> PROVE ToSet(s) = ToSet(Tail(s)) \cup {Head(s)}
    <2>1. PICK t : t = Tail(s)
      OBVIOUS
    <2>2. /\ DOMAIN s = 1..Len(s) /\ Len(s) \in Nat /\ 1 \in DOMAIN s /\ Head(s) = s[1]
          /\ DOMAIN t = 1..(Len(s) - 1) /\ \A i \in DOMAIN t : t[i] = s[i + 1]
      BY <1>2, <2>1
    <2>3. \A i \in DOMAIN t : i + 1 \in DOMAIN s /\ t[i] = s[i + 1]
      BY <2>2
    <2>4. \A i \in DOMAIN s : i = 1 \/ (i - 1 \in DOMAIN t /\ t[i - 1] = s[i])
      BY <2>2
    <2>5. ToSet(s) = ToSet(t) \cup {s[1]}
      <3>1. ToSet(t) \cup {s[1]} \subseteq ToSet(s)
        BY <2>2, <2>3 DEF ToSet
      <3>2. ASSUME NEW e \in ToSet(s) PROVE e \in ToSet(t) \cup {s[1]}
        <4>1. PICK i \in DOMAIN s : e = s[i]
          BY DEF ToSet
        <4>2. CASE i # 1
          BY <2>4, <4>1, <4>2 DEF ToSet
        <4> QED
          BY <4>1, <4>2
      <3> QED
        BY <3>1, <3>2
    <2> QED
      BY <2>1, <2>2, <2>5
  <1> QED
    BY <1>1, <1>2

\* A bubble is put below the last message, and its frame is under way.
LEMMA DeliverySendMessage ==
  ASSUME DeliveryInv, ThreadInv', NEW k \in Key, SendMessage(k)
  PROVE  Delivery'
  <1>1. PICK b : b = Bubble(k)
    OBVIOUS
  <1>2. PICK t : t = Append(thread, b)
    OBVIOUS
  <1>3. /\ log' = log /\ handlers' = handlers /\ link' = link /\ inbox' = inbox
        /\ lost' = lost /\ answers' = answers /\ pages' = pages /\ active /\ active' = active
        /\ thread' = t /\ hasMore' = hasMore /\ missed \subseteq missed'
    BY <1>1, <1>2 DEF SendMessage, server
  <1>4. thread \in Seq(Message) /\ outbox \in Seq(Key) /\ queue \in Seq(Key)
    BY DEF DeliveryInv, ThreadInv, TypeOK
  <1>5. b \in Message /\ b.id = 0 /\ b.key = k /\ b.seq = LastSeq(thread) + 1
    BY <1>1, <1>4, BubbleType DEF Bubble
  <1> DEFINE last == Len(thread) + 1
  <1>6. /\ t \in Seq(Message) /\ DOMAIN thread \subseteq DOMAIN t /\ last \in DOMAIN t
        /\ t[last] = b /\ \A i \in DOMAIN thread : t[i] = thread[i]
        /\ \A i \in DOMAIN t : i \in DOMAIN thread \/ i = last
    BY <1>2, <1>4, <1>5
  <1> HIDE DEF last
  <1>7. \A i \in DOMAIN thread : thread[i].key # k
    BY DEF SendMessage, Unused
  <1>8. \A n : Shows(thread, n) => Shows(t, n)
    BY <1>6 DEF Shows
  <1>9. Settled(thread) /\ Sent
    BY DEF DeliveryInv, Pending
  <1>10. Settled(t)
    BY <1>5, <1>6, <1>9 DEF Settled
  <1>12. /\ ToSet(outbox) \subseteq ToSet(outbox)' /\ ToSet(queue) \subseteq ToSet(queue)'
         /\ k \in ToSet(outbox)' \cup ToSet(queue)'
    <2>1. /\ ToSet(Append(outbox, k)) = ToSet(outbox) \cup {k}
          /\ ToSet(Append(queue, k)) = ToSet(queue) \cup {k}
      BY <1>4, Queued
    <2>2. Transmit(k)
      BY DEF SendMessage
    <2>3. CASE outbox' = Append(outbox, k) /\ queue' = queue
      BY <2>1, <2>3
    <2>4. CASE queue' = Append(queue, k) /\ outbox' = outbox
      BY <2>1, <2>4
    <2> QED
      BY <2>2, <2>3, <2>4 DEF Transmit
  <1>13. Sent'
    <2> SUFFICES ASSUME NEW i \in DOMAIN t, t[i].id = 0
                 PROVE  \/ SeqsOf(t[i].key) # {}
                        \/ t[i].key \in ToSet(outbox)' \cup ToSet(queue)' \cup lost
      BY <1>3 DEF Sent, SeqsOf
    <2>1. CASE i \in DOMAIN thread
      BY <1>6, <1>9, <1>12, <2>1 DEF Sent
    <2>2. CASE i = last
      BY <1>5, <1>6, <1>12, <2>2
    <2> QED
      BY <1>6, <2>1, <2>2
  <1>14. Pending'
    BY <1>3, <1>10, <1>13 DEF Pending, Settled
  <1>15. Resumed'
    BY <1>3, ResumedStays DEF DeliveryInv
  <1>16. Decided'
    BY <1>3 DEF DeliveryInv, Decided
  <1>17. AllTraced'
    <2> SUFFICES ASSUME NEW n \in DOMAIN log, n \notin missed' PROVE Traced(n)'
      BY <1>3 DEF AllTraced
    <2>1. Traced(n) /\ ~Unopened
      BY <1>3 DEF DeliveryInv, AllTraced, Unopened
    <2>2. ASSUME Promised(n) PROVE \A i \in DOMAIN t : n < t[i].seq
      <3>1. thread # <<>> /\ n \in Nat
        BY <2>2, Positions DEF DeliveryInv, ThreadInv, Anchored, Promised, Rooted
      <3>2. LastSeq(thread) \in Nat /\ LastSeq(thread) = thread[Len(thread)].seq
            /\ Len(thread) \in DOMAIN thread
        BY <1>4, <3>1, LastSeqType
      <3>3. \A i \in DOMAIN thread : n < thread[i].seq
        BY <2>2 DEF Promised
      <3>4. n < b.seq
        BY <1>5, <3>1, <3>2, <3>3
      <3> QED
        BY <1>6, <3>3, <3>4
    <2> QED
      BY <1>3, <1>6, <1>8, <2>1, <2>2, TracedStays DEF DeliveryInv
  <1> QED
    BY <1>14, <1>15, <1>16, <1>17 DEF Delivery

-----------------------------------------------------------------------------
(***************************************************************************)
(* The steps of the server                                                 *)
(***************************************************************************)

\* A message that is stored is told by its handler, and its frame has arrived.
LEMMA DeliveryStores ==
  ASSUME DeliveryInv, ThreadInv', NEW mine \in BOOLEAN, NEW k \in Key \cup {NoKey}, NEW via,
         Store(mine, k, via), inbox' = inbox, answers' = answers, pages' = pages,
         view' = view, link' = link,
         \A q \in ToSet(outbox) \cup ToSet(queue) \cup lost :
           q \in ToSet(outbox)' \cup ToSet(queue)' \cup lost' \/ q = k
  PROVE  Delivery'
  <1> DEFINE last == Len(log) + 1
             Record == [key : Key \cup {NoKey}, mine : BOOLEAN]
  <1>1. PICK e : e = [key |-> k, mine |-> mine]
    OBVIOUS
  <1>2. PICK h : h = [seq |-> last, via |-> via]
    OBVIOUS
  <1>3. e \in Record /\ e.key = k /\ h.seq = last
    BY <1>1, <1>2
  <1>4. log' = Append(log, e) /\ handlers' = handlers \cup {h}
    BY <1>1, <1>2 DEF Store
  <1>5. log \in Seq(Record)
    BY DEF DeliveryInv, ThreadInv, Logged
  <1> HIDE DEF Record
  <1>6. /\ last \in DOMAIN log' /\ log'[last] = e
        /\ \A n \in DOMAIN log : n \in DOMAIN log' /\ log'[n] = log[n]
        /\ \A n \in DOMAIN log' : n \in DOMAIN log \/ n = last
    BY <1>3, <1>4, <1>5
  <1> HIDE DEF last
  <1>7. /\ active' = active /\ loaded' = loaded /\ thread' = thread /\ hasMore' = hasMore
        /\ missed' = missed
    BY DEF view
  <1>8. \A q : SeqsOf(q) # {} => SeqsOf(q)' # {}
    BY <1>6 DEF SeqsOf
  <1>9. SeqsOf(k)' # {}
    BY <1>3, <1>6 DEF SeqsOf
  <1>10. Pending'
    BY <1>7, <1>8, <1>9, PendingBeside DEF DeliveryInv
  <1>11. Decided'
    BY DEF DeliveryInv, Decided
  <1>12. Resumed'
    BY <1>7, ResumedStays DEF DeliveryInv
  <1>13. AllTraced'
    <2> SUFFICES ASSUME NEW n \in DOMAIN log', n \notin missed' PROVE Traced(n)'
      BY DEF AllTraced
    <2>1. CASE n = last
      BY <1>3, <1>4, <2>1 DEF Traced, Told
    <2>2. CASE n \in DOMAIN log
      <3>1. Traced(n)
        BY <1>7, <2>2 DEF DeliveryInv, AllTraced
      <3>2. (~link => ~link') /\ (Unopened => Unopened') /\ handlers \subseteq handlers'
        BY <1>4, <1>7 DEF Unopened, Opening
      <3> QED
        BY <1>7, <2>2, <3>1, <3>2, TracedBeside DEF DeliveryInv
    <2> QED
      BY <1>6, <2>1, <2>2
  <1> QED
    BY <1>10, <1>11, <1>12, <1>13 DEF Delivery

LEMMA DeliveryStored ==
  ASSUME DeliveryInv, ThreadInv',
         PeerSends \/ FrameStored \/ \E k \in Key : PostStored(k)
  PROVE  Delivery'
  <1>1. CASE PeerSends
    <2>1. /\ Store(FALSE, NoKey, "peer") /\ inbox' = inbox /\ answers' = answers
          /\ pages' = pages /\ view' = view /\ link' = link
          /\ outbox' = outbox /\ queue' = queue /\ lost' = lost
      BY <1>1 DEF PeerSends, wire, http
    <2> QED
      BY <2>1, DeliveryStores
  <1>2. CASE FrameStored
    <2>1. PICK k : k = Head(outbox)
      OBVIOUS
    <2>2. /\ Store(TRUE, k, "socket") /\ inbox' = inbox /\ answers' = answers
          /\ pages' = pages /\ view' = view /\ link' = link
          /\ outbox # <<>> /\ outbox' = Tail(outbox) /\ queue' = queue /\ lost' = lost
      BY <1>2, <2>1 DEF FrameStored, http
    <2>3. outbox \in Seq(Key)
      BY DEF DeliveryInv, ThreadInv, TypeOK
    <2>4. k \in Key
      BY <2>1, <2>2, <2>3
    <2>5. ToSet(outbox) = ToSet(outbox') \cup {k}
      BY <2>1, <2>2, <2>3, Queued
    <2>6. \A q \in ToSet(outbox) \cup ToSet(queue) \cup lost :
            q \in ToSet(outbox)' \cup ToSet(queue)' \cup lost' \/ q = k
      BY <2>2, <2>5
    <2> QED
      BY <2>2, <2>4, <2>6, DeliveryStores
  <1>3. ASSUME NEW k \in Key, PostStored(k) PROVE Delivery'
    <2>1. /\ Store(TRUE, k, "rest") /\ inbox' = inbox /\ answers' = answers
          /\ pages' = pages /\ view' = view /\ link' = link
          /\ outbox' = outbox /\ queue' = queue /\ lost' = lost
      BY <1>3 DEF PostStored, wire
    <2> QED
      BY <2>1, DeliveryStores
  <1> QED
    BY <1>1, <1>2, <1>3

\* The server says of a message that it is sent or read.
LEMMA StoredDecided == \A n, read : Stored(n, read).status # "sending"
  BY DEF Stored

\* Events for the client, while the log and what it shows stay as they are.
LEMMA DeliveryEvents ==
  ASSUME DeliveryInv, ThreadInv', log' = log, handlers' = handlers, link' = link,
         pages' = pages, view' = view, queue' = queue, lost \subseteq lost',
         NEW events \in Seq(Event), inbox' = inbox \/ inbox' = inbox \o events,
         \A j \in DOMAIN events : events[j].type = "read" \/ events[j].msg.status # "sending",
         \A m \in answers' : m.status # "sending",
         \A k \in ToSet(outbox) : k \in ToSet(outbox)' \cup lost' \/ SeqsOf(k) # {}
  PROVE  Delivery'
  <1>1. /\ active' = active /\ loaded' = loaded /\ thread' = thread /\ hasMore' = hasMore
        /\ missed' = missed
    BY DEF view
  <1>2. inbox \in Seq(Event)
    BY DEF DeliveryInv, ThreadInv, TypeOK
  <1>3. /\ \A i \in DOMAIN inbox : i \in DOMAIN inbox' /\ inbox'[i] = inbox[i]
        /\ \A i \in DOMAIN inbox' : \/ i \in DOMAIN inbox /\ inbox'[i] = inbox[i]
                                    \/ \E j \in DOMAIN events : inbox'[i] = events[j]
    <2>1. CASE inbox' = inbox
      BY <2>1
    <2>2. CASE inbox' = inbox \o events
      BY <1>2, <2>2, InboxGrown
    <2> QED
      BY <2>1, <2>2
  <1>4. \A i \in DOMAIN inbox' :
          \/ i \in DOMAIN inbox /\ inbox'[i] = inbox[i]
          \/ inbox'[i].type \in {"new", "ack"} => inbox'[i].msg.status # "sending"
    BY <1>3
  <1>5. Decided'
    <2>1. \A i \in DOMAIN inbox' :
            inbox'[i].type \in {"new", "ack"} => inbox'[i].msg.status # "sending"
      BY <1>4, InboxDecided DEF DeliveryInv
    <2> QED
      BY <2>1 DEF DeliveryInv, Decided
  <1>6. Pending'
    <2>1. \A k : SeqsOf(k)' = SeqsOf(k)
      BY DEF SeqsOf
    <2> QED
      BY <1>1, <2>1, PendingBeside DEF DeliveryInv
  <1>7. Resumed'
    BY <1>1, ResumedStays DEF DeliveryInv
  <1>8. AllTraced'
    <2> SUFFICES ASSUME NEW n \in DOMAIN log, n \notin missed' PROVE Traced(n)'
      BY DEF AllTraced
    <2>1. Traced(n)
      BY <1>1 DEF DeliveryInv, AllTraced
    <2>2. (~link => ~link') /\ (Unopened => Unopened') /\ handlers \subseteq handlers'
      BY <1>1 DEF Unopened, Opening
    <2> QED
      BY <1>1, <1>3, <2>1, <2>2, TracedBeside DEF DeliveryInv
  <1> QED
    BY <1>5, <1>6, <1>7, <1>8 DEF Delivery

LEMMA DeliveryAnswered ==
  ASSUME DeliveryInv, ThreadInv',
         \/ \E n \in DOMAIN log : PeerReads(n)
         \/ FrameKnown \/ FrameRefused
         \/ \E k \in Key : PostKnown(k)
  PROVE  Delivery'
  <1>1. inbox \in Seq(Event) /\ outbox \in Seq(Key) /\ peerRead \in Nat
    BY DEF DeliveryInv, ThreadInv, TypeOK
  <1>2. \A m \in answers : m.status # "sending"
    BY DEF DeliveryInv, Decided
  <1>3. ASSUME NEW n \in DOMAIN log, PeerReads(n) PROVE Delivery'
    <2>1. PICK e : e = [type |-> "read", seq |-> n]
      OBVIOUS
    <2>2. n \in Nat
      BY Positions DEF DeliveryInv
    <2>3. e \in Event /\ e.type = "read"
      BY <2>1, <2>2, EventTypes
    <2>4. PICK events : events = <<e>>
      OBVIOUS
    <2>5. events \in Seq(Event) /\ \A j \in DOMAIN events : events[j].type = "read"
      BY <2>3, <2>4
    <2>6. inbox' = inbox \/ inbox' = inbox \o events
      BY <1>1, <1>3, <2>1, <2>3, <2>4 DEF PeerReads
    <2>7. /\ log' = log /\ handlers' = handlers /\ link' = link /\ pages' = pages
          /\ view' = view /\ queue' = queue /\ lost' = lost /\ answers' = answers
          /\ outbox' = outbox
      BY <1>3 DEF PeerReads, http
    <2> QED
      BY <1>2, <2>5, <2>6, <2>7, DeliveryEvents
  <1>4. CASE FrameKnown
    <2>1. PICK k : k = Head(outbox)
      OBVIOUS
    <2>2. /\ log' = log /\ handlers' = handlers /\ link' = link /\ pages' = pages
          /\ view' = view /\ queue' = queue /\ lost' = lost /\ answers' = answers
          /\ outbox # <<>> /\ outbox' = Tail(outbox)
      BY <1>4 DEF FrameKnown, server, http
    <2>3. PICK n \in SeqsOf(k) :
            inbox' = Append(inbox, [type |-> "ack", msg |-> Stored(n, peerRead)])
      BY <1>4, <2>1 DEF FrameKnown
    <2>4. PICK m : m = Stored(n, peerRead)
      OBVIOUS
    <2>5. k \in Key
      BY <1>1, <2>1, <2>2
    <2>6. m \in Message /\ m.status # "sending"
      BY <1>1, <2>4, <2>5, KnownMessage, StoredDecided DEF DeliveryInv
    <2>7. PICK e : e = [type |-> "ack", msg |-> m]
      OBVIOUS
    <2>8. e \in Event /\ e.msg = m /\ e.type = "ack"
      BY <2>6, <2>7, EventTypes
    <2>9. PICK events : events = <<e>>
      OBVIOUS
    <2>10. events \in Seq(Event) /\ \A j \in DOMAIN events : events[j].msg.status # "sending"
      BY <2>6, <2>8, <2>9
    <2>11. inbox' = inbox \o events
      BY <1>1, <2>3, <2>4, <2>7, <2>8, <2>9
    <2>12. \A q \in ToSet(outbox) : q \in ToSet(outbox)' \/ SeqsOf(q) # {}
      BY <1>1, <2>1, <2>2, <2>3, Queued
    <2> QED
      BY <1>2, <2>2, <2>10, <2>11, <2>12, DeliveryEvents
  <1>5. ASSUME NEW k \in Key, PostKnown(k) PROVE Delivery'
    <2>1. PICK n \in SeqsOf(k) : answers' = answers \cup {Stored(n, peerRead)}
      BY <1>5 DEF PostKnown
    <2>2. \A m \in answers' : m.status # "sending"
      BY <1>2, <2>1, StoredDecided
    <2>3. /\ log' = log /\ handlers' = handlers /\ link' = link /\ pages' = pages
          /\ view' = view /\ queue' = queue /\ lost' = lost /\ inbox' = inbox
          /\ outbox' = outbox
      BY <1>5 DEF PostKnown, server, wire
    <2>4. PICK none : none = <<>>
      OBVIOUS
    <2>5. none \in Seq(Event) /\ DOMAIN none = {}
      BY <2>4
    <2> QED
      BY <2>2, <2>3, <2>5, DeliveryEvents
  <1>6. CASE FrameRefused
    <2>1. PICK k : k = Head(outbox)
      OBVIOUS
    <2>2. /\ log' = log /\ handlers' = handlers /\ link' = link /\ pages' = pages
          /\ view' = view /\ queue' = queue /\ lost' = lost \cup {k} /\ answers' = answers
          /\ inbox' = inbox /\ outbox # <<>> /\ outbox' = Tail(outbox)
      BY <1>6, <2>1 DEF FrameRefused, server, http
    <2>3. \A q \in ToSet(outbox) : q \in ToSet(outbox)' \cup lost'
      BY <1>1, <2>1, <2>2, Queued
    <2>4. PICK none : none = <<>>
      OBVIOUS
    <2>5. none \in Seq(Event) /\ DOMAIN none = {} /\ lost \subseteq lost'
      BY <2>2, <2>4
    <2> QED
      BY <1>2, <2>2, <2>3, <2>5, DeliveryEvents
  <1> QED
    BY <1>3, <1>4, <1>5, <1>6

\* What a handler has told is on its way, or there is no connection.
LEMMA DeliveryFanOut ==
  ASSUME DeliveryInv, ThreadInv', NEW h \in handlers, FanOut(h)
  PROVE  Delivery'
  <1>1. PICK m : m = Stored(h.seq, 0)
    OBVIOUS
  <1>2. m \in Message /\ m.id = h.seq /\ m.status # "sending"
    <2>1. h.seq \in DOMAIN log
      BY DEF DeliveryInv, ThreadInv, UnderWay
    <2>2. m \in Message /\ m.id = h.seq
      BY <1>1, <2>1, StoredType DEF DeliveryInv, ThreadInv
    <2> QED
      BY <1>1, <2>2, StoredDecided
  <1>3. PICK new, ack : new = [type |-> "new", msg |-> m] /\ ack = [type |-> "ack", msg |-> m]
    OBVIOUS
  <1>4. /\ new \in Event /\ new.type = "new" /\ new.msg = m
        /\ ack \in Event /\ ack.msg = m
    BY <1>2, <1>3, EventTypes
  <1>5. PICK events : events = IF h.via = "socket" THEN <<new, ack>> ELSE <<new>>
    OBVIOUS
  <1>6. /\ events \in Seq(Event) /\ 1 \in DOMAIN events /\ events[1] = new
        /\ \A j \in DOMAIN events : events[j].msg = m
    <2>1. CASE h.via = "socket"
      <3>1. events = <<new, ack>>
        BY <1>5, <2>1
      <3> QED
        BY <1>4, <3>1
    <2>2. CASE h.via # "socket"
      <3>1. events = <<new>>
        BY <1>5, <2>2
      <3> QED
        BY <1>4, <3>1
    <2> QED
      BY <2>1, <2>2
  <1>7. inbox' = IF link THEN inbox \o events ELSE inbox
    BY <1>1, <1>3, <1>5 DEF FanOut, Frames
  <1>8. /\ log' = log /\ handlers' = handlers \ {h} /\ link' = link /\ pages' = pages
        /\ active' = active /\ loaded' = loaded /\ thread' = thread /\ hasMore' = hasMore
        /\ missed' = missed /\ outbox' = outbox /\ queue' = queue /\ lost' = lost
        /\ answers' = answers \/ answers' = answers \cup {m}
    BY <1>1 DEF FanOut, view
  <1>9. inbox \in Seq(Event)
    BY DEF DeliveryInv, ThreadInv, TypeOK
  <1>10. /\ \A i \in DOMAIN inbox : i \in DOMAIN inbox' /\ inbox'[i] = inbox[i]
         /\ \A i \in DOMAIN inbox' : \/ i \in DOMAIN inbox /\ inbox'[i] = inbox[i]
                                     \/ \E j \in DOMAIN events : inbox'[i] = events[j]
         /\ link => \E i \in DOMAIN inbox' : inbox'[i] = new
    <2>1. CASE ~link
      BY <1>7, <2>1
    <2>2. CASE link
      <3>1. inbox' = inbox \o events
        BY <1>7, <2>2
      <3>2. PICK t : t = inbox'
        OBVIOUS
      <3>3. /\ \A i \in DOMAIN inbox : i \in DOMAIN t /\ t[i] = inbox[i]
            /\ \A i \in DOMAIN t : \/ i \in DOMAIN inbox /\ t[i] = inbox[i]
                                   \/ \E j \in DOMAIN events : t[i] = events[j]
            /\ \E i \in DOMAIN t : t[i] = new
        <4>1. t = inbox \o events /\ inbox \in Seq(Event) /\ events \in Seq(Event)
          BY <1>6, <1>9, <3>1, <3>2
        <4>2. \A i \in DOMAIN inbox : i \in DOMAIN t /\ t[i] = inbox[i]
          BY <4>1, InboxGrown
        <4>3. \A i \in DOMAIN t : \/ i \in DOMAIN inbox /\ t[i] = inbox[i]
                                 \/ \E j \in DOMAIN events : t[i] = events[j]
          BY <4>1, InboxGrown
        <4>4. Len(inbox) + 1 \in DOMAIN t /\ t[Len(inbox) + 1] = events[1]
          BY <1>6, <4>1
        <4> QED
          BY <1>6, <4>2, <4>3, <4>4
      <3> QED
        BY <1>6, <3>2, <3>3
    <2> QED
      BY <2>1, <2>2
  <1>11. Decided'
    <2>1. \A i \in DOMAIN inbox' :
            \/ i \in DOMAIN inbox /\ inbox'[i] = inbox[i]
            \/ inbox'[i].type \in {"new", "ack"} => inbox'[i].msg.status # "sending"
      BY <1>2, <1>6, <1>10
    <2>2. \A i \in DOMAIN inbox' :
            inbox'[i].type \in {"new", "ack"} => inbox'[i].msg.status # "sending"
      BY <2>1, InboxDecided DEF DeliveryInv
    <2> QED
      BY <1>2, <1>8, <2>2 DEF DeliveryInv, Decided
  <1>12. Pending'
    BY <1>8, PendingBeside DEF DeliveryInv, SeqsOf
  <1>13. Resumed'
    BY <1>8, ResumedStays DEF DeliveryInv
  <1>14. AllTraced'
    <2> SUFFICES ASSUME NEW n \in DOMAIN log, n \notin missed' PROVE Traced(n)'
      BY <1>8 DEF AllTraced
    <2>1. Traced(n)
      BY <1>8 DEF DeliveryInv, AllTraced
    <2>2. Held(n) => Held(n)'
      BY <1>8 DEF Held, Shown, Promised
    <2>3. Unopened => Unopened'
      BY <1>8 DEF Unopened, Opening
    <2>4. Asked(n) => Asked(n)'
      BY <1>8, AskedStays DEF DeliveryInv
    <2>5. ASSUME Told(n) PROVE Told(n)' \/ ~link'
      <3>1. CASE n = h.seq
        <4>1. ASSUME link PROVE \E i \in DOMAIN inbox' : inbox'[i].type = "new" /\ inbox'[i].msg.id = n
          BY <1>2, <1>4, <1>10, <3>1, <4>1
        <4> QED
          BY <1>8, <4>1 DEF Told
      <3>2. CASE n # h.seq
        <4>1. CASE \E g \in handlers : g.seq = n
          BY <1>8, <3>2, <4>1 DEF Told
        <4>2. CASE \E i \in DOMAIN inbox : inbox[i].type = "new" /\ inbox[i].msg.id = n
          BY <1>10, <4>2 DEF Told
        <4> QED
          BY <2>5, <4>1, <4>2 DEF Told
      <3> QED
        BY <3>1, <3>2
    <2> QED
      BY <1>8, <2>1, <2>2, <2>3, <2>4, <2>5 DEF Traced
  <1> QED
    BY <1>11, <1>12, <1>13, <1>14 DEF Delivery

\* The page that answers a request is a stretch of the log.
LEMMA AnswerSpans ==
  ASSUME ThreadInv, NEW p \in Page, PageOK(p)
  PROVE  \E first, last \in Int :
           /\ first >= 1 /\ last <= Len(log)
           /\ p.kind = "open" => last = Len(log)
           /\ p.kind = "older" => last = p.from - 1
           /\ p.kind = "backfill" =>
                first = p.from + 1 /\ (last = Len(log) \/ last = p.from + BackfillSize)
           /\ Answer(p).kind = p.kind /\ Answer(p).from = p.from
           /\ Answer(p).rows = Rows(first, last) /\ (first > 1 => Answer(p).more)
  <1> DEFINE n == Len(log)
             first == CASE p.kind = "open"  -> n + 1 - Least(n, PageSize)
                        [] p.kind = "older" -> p.from - Least(p.from - 1, PageSize)
                        [] OTHER            -> p.from + 1
             last == CASE p.kind = "open"  -> n
                       [] p.kind = "older" -> p.from - 1
                       [] OTHER            -> Least(n, p.from + BackfillSize)
  <1>1. n \in Nat /\ DOMAIN log = 1..n /\ PageSize \in Nat /\ BackfillSize \in Nat
    BY BoundAssumption DEF ThreadInv, Logged
  <1>2. /\ p.kind \in {"open", "older", "backfill"} /\ p.from \in Nat
        /\ p.kind = "older" => p.from \in 1..n
    BY <1>1, PageTypes DEF PageOK
  <1>3. \A a, b \in Int : Least(a, b) \in Int /\ Least(a, b) <= a /\ Least(a, b) \in {a, b}
    BY DEF Least
  <1>4. /\ first \in Int /\ last \in Int /\ first >= 1 /\ last <= n
        /\ p.kind = "open" => last = n
        /\ p.kind = "older" => last = p.from - 1
        /\ p.kind = "backfill" => first = p.from + 1 /\ (last = n \/ last = p.from + BackfillSize)
    <2>1. CASE p.kind = "open"
      <3>1. PICK l \in Int : l = Least(n, PageSize) /\ l <= n
        BY <1>1, <1>3
      <3>2. first = n + 1 - l /\ last = n
        BY <2>1, <3>1
      <3> HIDE DEF first, last, n
      <3> QED
        BY <1>1, <2>1, <3>1, <3>2
    <2>2. CASE p.kind = "older"
      <3>0. p.from - 1 \in Int /\ PageSize \in Int
        BY <1>1, <1>2
      <3>1. PICK l \in Int : l = Least(p.from - 1, PageSize) /\ l <= p.from - 1
        BY <1>3, <3>0
      <3>2. first = p.from - l /\ last = p.from - 1
        BY <2>2, <3>1
      <3> HIDE DEF first, last, n
      <3> QED
        BY <1>1, <1>2, <2>2, <3>1, <3>2
    <2>3. CASE p.kind = "backfill"
      <3>0. n \in Int /\ p.from + BackfillSize \in Int
        BY <1>1, <1>2
      <3>1. PICK l \in Int : /\ l = Least(n, p.from + BackfillSize)
                             /\ l <= n /\ l \in {n, p.from + BackfillSize}
        BY <1>3, <3>0
      <3>2. first = p.from + 1 /\ last = l
        BY <2>3, <3>1
      <3> HIDE DEF first, last, n
      <3> QED
        BY <1>1, <1>2, <2>3, <3>1, <3>2
    <2> QED
      BY <1>2, <2>1, <2>2, <2>3
  <1> DEFINE above == (first > 1)
  <1>5. Answer(p) = [p EXCEPT !.got = TRUE, !.rows = Rows(first, last), !.more = above]
    BY DEF Answer
  <1> HIDE DEF first, last
  <1>6. /\ Answer(p).kind = p.kind /\ Answer(p).from = p.from
        /\ Answer(p).rows = Rows(first, last) /\ (first > 1 => Answer(p).more)
    <2>1. PICK r : r = Rows(first, last)
      OBVIOUS
    <2>2. first > 1 => above
      OBVIOUS
    <2> HIDE DEF above
    <2>3. PICK a : a = [p EXCEPT !.got = TRUE, !.rows = r, !.more = above]
      OBVIOUS
    <2>4. a.kind = p.kind /\ a.from = p.from /\ a.rows = r /\ (above => a.more)
      <3> DEFINE R == Seq(Message)
      <3> HIDE DEF R
      <3>1. Page = [kind : {"open", "older", "backfill"}, from : Nat, got : BOOLEAN,
                    rows : R, more : BOOLEAN]
        BY DEF Page, R
      <3> QED
        BY <2>3, <3>1
    <2> QED
      BY <1>5, <2>1, <2>2, <2>3, <2>4
  <1> QED
    BY <1>4, <1>6

\* It has what the request was made for.
LEMMA AnswerBrings ==
  ASSUME ThreadInv, NEW p \in Page, PageOK(p), ~p.got, NEW a, a = Answer(p)
  PROVE  /\ a.kind = p.kind /\ a.from = p.from
         /\ \A j \in DOMAIN a.rows : a.rows[j].status # "sending"
         /\ \A n \in DOMAIN log : Brings(p, n) => Brings(a, n)
         /\ p.kind = "older" => Whole(a)
  <1>1. PICK first \in Int, last \in Int :
           /\ first >= 1 /\ last <= Len(log)
           /\ p.kind = "open" => last = Len(log)
           /\ p.kind = "older" => last = p.from - 1
           /\ p.kind = "backfill" =>
                first = p.from + 1 /\ (last = Len(log) \/ last = p.from + BackfillSize)
           /\ a.kind = p.kind /\ a.from = p.from
           /\ a.rows = Rows(first, last) /\ (first > 1 => a.more)
    BY AnswerSpans
  <1>2. PICK rows : rows = a.rows
    OBVIOUS
  <1>3. /\ Len(log) \in Nat /\ DOMAIN log = 1..Len(log) /\ peerRead \in Nat
        /\ BackfillSize \in Nat /\ BackfillSize # 0
    BY BoundAssumption DEF ThreadInv, Logged, TypeOK
  <1>4. /\ rows \in Seq(Message) /\ DOMAIN rows = 1..(last + 1 - first)
        /\ \A j \in DOMAIN rows : rows[j].id = first + j - 1
        /\ \A j \in DOMAIN rows : Genuine(rows[j])
    BY <1>1, <1>2, <1>3, RowsType DEF ThreadInv
  <1>5. \A j \in DOMAIN rows : rows[j].status # "sending"
    <2>1. \A j \in DOMAIN rows : rows[j] = Stored(first + j - 1, peerRead)
      BY <1>1, <1>2 DEF Rows
    <2> QED
      BY <2>1, StoredDecided
  <1>6. ASSUME NEW n \in Nat, first <= n, n <= last PROVE Lists(a, n)
    <2> DEFINE j == n - first + 1
    <2>1. j \in 1..(last + 1 - first) /\ first + j - 1 = n
      BY <1>6
    <2> HIDE DEF j
    <2>2. j \in DOMAIN rows /\ rows[j].id = n
      BY <1>4, <2>1
    <2> QED
      BY <1>2, <2>2 DEF Lists
  <1>7. ASSUME NEW n \in Nat, n # 0, n < first PROVE Above(a, n)
    <2>1. \A j \in DOMAIN rows : n < rows[j].id
      BY <1>1, <1>4, <1>7
    <2>2. a.more
      BY <1>1, <1>7
    <2> QED
      BY <1>2, <2>1, <2>2 DEF Above
  <1>8. ASSUME NEW n \in DOMAIN log, Brings(p, n) PROVE Brings(a, n)
    <2>1. n \in Nat /\ n # 0 /\ n <= Len(log)
      BY <1>3
    <2>2. CASE p.kind = "open"
      <3>1. Lists(a, n) \/ Above(a, n)
        BY <1>1, <1>3, <1>6, <1>7, <2>1, <2>2
      <3> QED
        BY <1>1, <2>2, <3>1 DEF Brings
    <2>3. CASE p.kind = "backfill" /\ p.from < n
      <3>1. CASE n <= last
        <4>1. Lists(a, n)
          BY <1>1, <1>6, <2>1, <2>3, <3>1, PageTypes
        <4> QED
          BY <1>1, <2>3, <4>1 DEF Brings
      <3>2. CASE ~(n <= last)
        <4>1. PICK from \in Nat : from = p.from
          BY PageTypes
        <4>2. last < n /\ last = from + BackfillSize /\ first = from + 1
          BY <1>1, <2>1, <2>3, <3>2, <4>1
        <4>3. last + 1 - first = BackfillSize /\ first + BackfillSize - 1 = last
          BY <1>3, <4>2
        <4>4. DOMAIN rows = 1..BackfillSize /\ Len(rows) = BackfillSize
          BY <1>3, <1>4, <4>3
        <4>5. Len(rows) \in DOMAIN rows /\ Last(rows) = rows[Len(rows)]
          BY <1>3, <4>4 DEF Last
        <4>6. rows[Len(rows)].id = last
          BY <1>4, <4>3, <4>4, <4>5
        <4>7. rows[Len(rows)].seq = last
          BY <1>4, <4>5, <4>6 DEF Genuine
        <4>8. Len(a.rows) = BackfillSize /\ Last(a.rows).seq < n
          BY <1>2, <4>2, <4>4, <4>5, <4>7
        <4> QED
          BY <1>1, <2>3, <4>8 DEF Brings
      <3> QED
        BY <3>1, <3>2
    <2> QED
      BY <1>8, <2>2, <2>3 DEF Brings
  <1>9. ASSUME p.kind = "older" PROVE Whole(a)
    <2> SUFFICES ASSUME NEW n \in 1..(p.from - 1) PROVE Lists(a, n) \/ Above(a, n)
      BY <1>1 DEF Whole
    <2>1. p.from \in Nat /\ last = p.from - 1
      BY <1>1, <1>9, PageTypes
    <2>2. n \in Nat /\ n # 0 /\ n <= last
      BY <2>1
    <2> QED
      BY <1>1, <1>6, <1>7, <2>2
  <1> QED
    BY <1>1, <1>2, <1>5, <1>8, <1>9

LEMMA DeliveryServePage ==
  ASSUME DeliveryInv, ThreadInv', NEW i \in DOMAIN pages, ServePage(i)
  PROVE  Delivery'
  <1>1. PICK p : p = pages[i]
    OBVIOUS
  <1>2. PICK a : a = Answer(p)
    OBVIOUS
  <1>3. pages \in Seq(Page) /\ p \in Page /\ PageOK(p)
    BY <1>1 DEF DeliveryInv, ThreadInv, TypeOK, Paged
  <1>4. ~p.got
    BY <1>1 DEF ServePage
  <1>5. /\ a.kind = p.kind /\ a.from = p.from
        /\ \A j \in DOMAIN a.rows : a.rows[j].status # "sending"
        /\ \A n \in DOMAIN log : Brings(p, n) => Brings(a, n)
        /\ p.kind = "older" => Whole(a)
    BY <1>2, <1>3, <1>4, AnswerBrings DEF DeliveryInv
  <1>6. /\ DOMAIN pages' = DOMAIN pages /\ pages'[i] = a
        /\ \A j \in DOMAIN pages : j # i => pages'[j] = pages[j]
    BY <1>1, <1>2, <1>3 DEF ServePage
  <1>7. /\ log' = log /\ handlers' = handlers /\ link' = link /\ inbox' = inbox
        /\ outbox' = outbox /\ queue' = queue /\ lost' = lost /\ answers' = answers
        /\ active' = active /\ loaded' = loaded /\ thread' = thread /\ hasMore' = hasMore
        /\ missed' = missed
    BY DEF ServePage, server, wire, view
  <1>8. Decided'
    <2>1. \A j \in DOMAIN pages' : \A k \in DOMAIN pages'[j].rows :
             pages'[j].rows[k].status # "sending"
      BY <1>5, <1>6 DEF DeliveryInv, Decided
    <2> QED
      BY <1>7, <2>1 DEF DeliveryInv, Decided
  <1>9. Pending'
    BY <1>7, PendingBeside DEF DeliveryInv, SeqsOf
  <1>10. Resumed'
    <2> SUFFICES ASSUME NEW j \in DOMAIN pages', pages'[j].kind = "older"
                 PROVE  Whole(pages[j])'
      BY DEF Resumed
    <2>1. PICK q : q = pages'[j]
      OBVIOUS
    <2>2. pages[j].kind = "older" /\ pages[j].from = q.from /\ j \in DOMAIN pages
      BY <1>1, <1>5, <1>6, <2>1
    <2>3. Whole(q)
      BY <1>1, <1>5, <1>6, <2>1, <2>2 DEF DeliveryInv, Resumed
    <2>4. Whole(q) => Whole(pages[j])'
      BY <2>1 DEF Whole, Lists, Above
    <2> QED
      BY <2>1, <2>3, <2>4
  <1>11. AllTraced'
    <2> SUFFICES ASSUME NEW n \in DOMAIN log, n \notin missed' PROVE Traced(n)'
      BY <1>7 DEF AllTraced
    <2>1. Traced(n)
      BY <1>7 DEF DeliveryInv, AllTraced
    <2>2. Held(n) => Held(n)'
      BY <1>7 DEF Held, Shown, Promised
    <2>3. Told(n) => Told(n)'
      BY <1>7 DEF Told
    <2>4. Unopened => Unopened'
      <3>1. \A j \in DOMAIN pages : pages'[j].kind = pages[j].kind
        BY <1>1, <1>5, <1>6
      <3> QED
        BY <1>6, <1>7, <3>1 DEF Unopened, Opening
    <2>5. ASSUME Asked(n) PROVE Asked(n)'
      <3>1. PICK j \in DOMAIN pages : Brings(pages[j], n)
        BY <2>5 DEF Asked
      <3>2. PICK q : q = pages'[j]
        OBVIOUS
      <3>3. Brings(q, n)
        BY <1>1, <1>5, <1>6, <3>1, <3>2
      <3>4. Brings(pages[j], n)' <=> Brings(q, n)
        BY <3>2 DEF Brings, Lists, Above
      <3> QED
        BY <1>6, <3>1, <3>3, <3>4 DEF Asked
    <2> QED
      BY <1>7, <2>1, <2>2, <2>3, <2>4, <2>5 DEF Traced
  <1> QED
    BY <1>8, <1>9, <1>10, <1>11 DEF Delivery

-----------------------------------------------------------------------------
(***************************************************************************)
(* The steps by which a message comes to the thread                        *)
(***************************************************************************)

\* A step that changes the thread and gives up nothing but what is in missed.
LEMMA DeliveryThread ==
  ASSUME DeliveryInv, ThreadInv', NEW t \in Seq(Message), thread' = t, Follows(thread, t),
         log' = log, handlers' = handlers, link' = link, pages' = pages, hasMore' = hasMore,
         outbox' = outbox, queue' = queue, lost' = lost, missed \subseteq missed',
         answers' \subseteq answers,
         inbox' = inbox \/ (inbox # <<>> /\ inbox' = Tail(inbox)),
         \/ CutOff(t) \subseteq missed'
         \/ \A n \in Nat : Rooted(thread) /\ (\A i \in DOMAIN thread : n < thread[i].seq)
              => \A i \in DOMAIN t : n < t[i].seq,
         Unopened => Unopened' \/ Unfetched(t) \subseteq missed',
         \A n \in DOMAIN log \ missed' :
           inbox' # inbox /\ Head(inbox).type = "new" /\ Head(inbox).msg.id = n => Traced(n)'
  PROVE  Delivery'
  <1>1. inbox \in Seq(Event) /\ thread \in Seq(Message)
    BY DEF DeliveryInv, ThreadInv, TypeOK
  <1>2. Decided'
    <2>1. \A i \in DOMAIN inbox' :
            inbox'[i].type \in {"new", "ack"} => inbox'[i].msg.status # "sending"
      <3>1. CASE inbox' = inbox
        BY <3>1 DEF DeliveryInv, Decided
      <3>2. CASE inbox # <<>> /\ inbox' = Tail(inbox)
        BY <3>2, InboxDecided DEF DeliveryInv
      <3> QED
        BY <3>1, <3>2
    <2> QED
      BY <2>1 DEF DeliveryInv, Decided
  <1>3. Pending'
    <2>1. \A k : SeqsOf(k)' = SeqsOf(k)
      BY DEF SeqsOf
    <2> QED
      BY <2>1, PendingStays DEF DeliveryInv
  <1>4. \A n \in DOMAIN log : Shows(thread, n) => Shows(t, n)
    <2>1. 0 \notin DOMAIN log
      BY Positions DEF DeliveryInv
    <2> QED
      BY <2>1 DEF Follows, Shows
  <1>5. Resumed'
    BY ResumedStays DEF DeliveryInv
  <1>6. AllTraced'
    <2> SUFFICES ASSUME NEW n \in DOMAIN log, n \notin missed' PROVE Traced(n)'
      BY DEF AllTraced
    <2>1. Traced(n)
      BY DEF DeliveryInv, AllTraced
    <2>2. CASE inbox' # inbox /\ Head(inbox).type = "new" /\ Head(inbox).msg.id = n
      BY <2>2
    <2>3. CASE ~(inbox' # inbox /\ Head(inbox).type = "new" /\ Head(inbox).msg.id = n)
      <3>1. \/ \A i \in DOMAIN inbox : i \in DOMAIN inbox' /\ inbox'[i] = inbox[i]
            \/ /\ inbox # <<>> /\ inbox' = Tail(inbox)
               /\ Head(inbox).type = "new" => Head(inbox).msg.id # n
        <4>1. CASE inbox' = inbox
          BY <4>1
        <4>2. CASE inbox' # inbox
          BY <2>3, <4>2
        <4> QED
          BY <4>1, <4>2
      <3>2. \/ Promised(n) => \A i \in DOMAIN t : n < t[i].seq
            \/ log' = log /\ Follows(thread, t) /\ CutOff(t) \subseteq missed'
        <4>1. CASE CutOff(t) \subseteq missed'
          BY <4>1
        <4>2. ASSUME \A q \in Nat : Rooted(thread) /\ (\A i \in DOMAIN thread : q < thread[i].seq)
                       => \A i \in DOMAIN t : q < t[i].seq,
                     Promised(n)
              PROVE  \A i \in DOMAIN t : n < t[i].seq
          <5>1. n \in Nat /\ Rooted(thread)
            BY <4>2, Positions DEF DeliveryInv, ThreadInv, Anchored, Promised
          <5>2. \A i \in DOMAIN thread : n < thread[i].seq
            BY <4>2 DEF Promised
          <5> QED
            BY <4>2, <5>1, <5>2
        <4> QED
          BY <4>1, <4>2
      <3>3. Shows(thread, n) => Shows(t, n)
        BY <1>4
      <3> QED
        BY <2>1, <3>1, <3>2, <3>3, TracedStays DEF DeliveryInv
    <2> QED
      BY <2>2, <2>3
  <1> QED
    BY <1>2, <1>3, <1>5, <1>6 DEF Delivery

\* What is received was decided on by the server.
LEMMA FirstDecided ==
  ASSUME DeliveryInv, NEW type \in {"new", "ack"}, Receive(type)
  PROVE  Head(inbox).msg.status # "sending"
  <1>1. inbox \in Seq(Event) /\ inbox # <<>>
    BY DEF DeliveryInv, ThreadInv, TypeOK, Receive
  <1>2. 1 \in DOMAIN inbox /\ Head(inbox) = inbox[1]
    BY <1>1
  <1> QED
    BY <1>2 DEF DeliveryInv, Decided, Receive

LEMMA DeliveryHandleNew ==
  ASSUME DeliveryInv, ThreadInv', HandleNew
  PROVE  Delivery'
  <1> USE DEF http, server
  <1>1. PICK m : m = Head(inbox).msg
    OBVIOUS
  <1>2. /\ m \in Message /\ Genuine(m) /\ m.status # "sending"
        /\ inbox # <<>> /\ inbox' = Tail(inbox)
    BY <1>1, FirstEvent, FirstDecided DEF HandleNew, DeliveryInv
  <1>3. /\ Logged /\ thread \in Seq(Message) /\ Entries(thread) /\ Distinct(thread)
    BY DEF DeliveryInv, ThreadInv, TypeOK
  <1>4. PICK t : t = IF loaded THEN mergeMessage(thread, m) ELSE thread
    OBVIOUS
  <1>5. t \in Seq(Message) /\ Follows(thread, t) /\ (loaded => Shows(t, m.id))
    <2>1. CASE loaded
      <3>1. t = mergeMessage(thread, m)
        BY <1>4, <2>1
      <3> QED
        BY <1>2, <1>3, <3>1, MergeKeeps, MergeFollows
    <2>2. CASE ~loaded
      BY <1>3, <1>4, <2>2, FollowsItself
    <2> QED
      BY <2>1, <2>2
  <1>6. /\ thread' = t /\ log' = log /\ handlers' = handlers /\ link' = link
        /\ outbox' = outbox /\ queue' = queue /\ lost' = lost
        /\ answers' = answers /\ pages' = pages /\ hasMore' = hasMore /\ loaded' = loaded
        /\ active' = active
    BY <1>1, <1>4 DEF HandleNew
  <1>7. missed' = missed \cup TooEarly(m.seq) \cup CutOff(t)
    BY <1>1, <1>6 DEF HandleNew
  <1>8. Unopened => Unopened'
    BY <1>6 DEF Unopened, Opening
  <1>9. m.id \notin missed' => Traced(m.id)'
    <2> SUFFICES ASSUME m.id \notin missed' PROVE Traced(m.id)'
      OBVIOUS
    <2>1. CASE loaded
      <3>1. Shows(t, m.id)
        BY <1>5, <2>1
      <3> QED
        BY <1>6, <3>1 DEF Traced, Held, Shown, Shows
    <2>2. CASE ~loaded
      <3>1. m.id \notin TooEarly(m.id)
        BY <1>2, <1>7 DEF Genuine
      <3>2. \/ ~active /\ ~Opening
            \/ \E i \in DOMAIN pages :
                 /\ pages[i].kind = "open"
                 /\ ~pages[i].got \/ m.id \in Holds(pages[i].rows, pages[i].more)
        BY <2>2, <3>1 DEF TooEarly
      <3>3. CASE ~active /\ ~Opening
        BY <1>8, <2>2, <3>3 DEF Unopened, Traced
      <3>4. ASSUME NEW i \in DOMAIN pages, pages[i].kind = "open",
                   ~pages[i].got \/ m.id \in Holds(pages[i].rows, pages[i].more)
            PROVE  Traced(m.id)'
        <4>1. ~pages[i].got \/ Lists(pages[i], m.id) \/ Above(pages[i], m.id)
          <5>1. PICK p : p = pages[i]
            OBVIOUS
          <5>2. \A j \in DOMAIN p.rows : p.rows[j].seq = p.rows[j].id
            BY <5>1 DEF DeliveryInv, ThreadInv, Paged, PageOK, Genuine
          <5>3. m.id \in Holds(p.rows, p.more) => Lists(p, m.id) \/ Above(p, m.id)
            BY <5>2 DEF Holds, Unshown, Lists, Above
          <5> QED
            BY <3>4, <5>1, <5>3
        <4>2. Brings(pages[i], m.id)
          BY <3>4, <4>1 DEF Brings
        <4>3. Asked(m.id)'
          BY <1>6, <4>2, AskedStays DEF DeliveryInv, Asked
        <4> QED
          BY <4>3 DEF Traced
      <3> QED
        BY <3>2, <3>3, <3>4
    <2> QED
      BY <2>1, <2>2
  <1>10. missed \subseteq missed' /\ CutOff(t) \subseteq missed' /\ answers' \subseteq answers
    BY <1>6, <1>7
  <1>11. \A n \in DOMAIN log \ missed' : Head(inbox).msg.id = n => Traced(n)'
    BY <1>1, <1>9
  <1> QED
    BY <1>2, <1>5, <1>6, <1>8, <1>10, <1>11, DeliveryThread

LEMMA DeliveryHandleAck ==
  ASSUME DeliveryInv, ThreadInv', HandleAck
  PROVE  Delivery'
  <1> USE DEF http, server
  <1>1. PICK m : m = Head(inbox).msg
    OBVIOUS
  <1>2. /\ m \in Message /\ Genuine(m) /\ m.key # NoKey /\ m.status # "sending"
        /\ inbox # <<>> /\ inbox' = Tail(inbox) /\ Head(inbox).type = "ack"
    BY <1>1, FirstEvent, FirstDecided DEF HandleAck, DeliveryInv, Receive
  <1>3. Logged /\ thread \in Seq(Message) /\ Entries(thread) /\ Distinct(thread)
    BY DEF DeliveryInv, ThreadInv, TypeOK
  <1>4. PICK t : t = Acked(thread, m)
    OBVIOUS
  <1>5. /\ t \in Seq(Message) /\ Follows(thread, t)
        /\ \A n \in Nat : Rooted(thread) /\ (\A i \in DOMAIN thread : n < thread[i].seq)
             => \A i \in DOMAIN t : n < t[i].seq
    BY <1>2, <1>3, <1>4, AckedKeeps, AckedFollows
  <1>6. /\ thread' = t /\ log' = log /\ handlers' = handlers /\ link' = link
        /\ outbox' = outbox /\ queue' = queue /\ lost' = lost
        /\ answers' = answers /\ pages' = pages /\ hasMore' = hasMore
        /\ missed' = missed \cup Unfetched(t)
    BY <1>1, <1>4 DEF HandleAck
  <1>7. /\ missed \subseteq missed' /\ Unfetched(t) \subseteq missed' /\ answers' \subseteq answers
        /\ Head(inbox).type # "new"
    BY <1>2, <1>6
  <1> QED
    BY <1>2, <1>5, <1>6, <1>7, DeliveryThread

LEMMA DeliveryHandleRead ==
  ASSUME DeliveryInv, ThreadInv', HandleRead
  PROVE  Delivery'
  <1> USE DEF http, server
  <1>1. PICK seq : seq = Head(inbox).seq
    OBVIOUS
  <1>2. /\ seq \in Nat /\ inbox # <<>> /\ inbox' = Tail(inbox) /\ Head(inbox).type = "read"
    BY <1>1, FirstEvent DEF HandleRead, DeliveryInv, Receive
  <1>3. Logged /\ thread \in Seq(Message) /\ Entries(thread) /\ Distinct(thread)
    BY DEF DeliveryInv, ThreadInv, TypeOK
  <1>4. PICK t : t = Receipted(thread, seq)
    OBVIOUS
  <1>5. /\ t \in Seq(Message) /\ Follows(thread, t) /\ DOMAIN t = DOMAIN thread
        /\ \A i \in DOMAIN thread : t[i].seq = thread[i].seq
    BY <1>2, <1>3, <1>4, ReceiptedKeeps, ReceiptedFollows
  <1>6. \A n \in Nat : Rooted(thread) /\ (\A i \in DOMAIN thread : n < thread[i].seq)
          => \A i \in DOMAIN t : n < t[i].seq
    BY <1>5
  <1>7. /\ thread' = t /\ log' = log /\ handlers' = handlers /\ link' = link
        /\ outbox' = outbox /\ queue' = queue /\ lost' = lost
        /\ answers' = answers /\ pages' = pages /\ hasMore' = hasMore
        /\ missed' = missed \cup Unfetched(t)
    BY <1>1, <1>4 DEF HandleRead
  <1>8. /\ missed \subseteq missed' /\ Unfetched(t) \subseteq missed' /\ answers' \subseteq answers
        /\ Head(inbox).type # "new"
    BY <1>2, <1>7
  <1> QED
    BY <1>2, <1>5, <1>6, <1>7, <1>8, DeliveryThread

LEMMA DeliveryPostAnswered ==
  ASSUME DeliveryInv, ThreadInv', NEW m \in answers, PostAnswered(m)
  PROVE  Delivery'
  <1> USE DEF wire, server
  <1>1. m \in Message /\ Genuine(m) /\ m.status # "sending"
    BY DEF DeliveryInv, ThreadInv, UnderWay, TypeOK, Decided
  <1>2. Logged /\ thread \in Seq(Message) /\ Entries(thread) /\ Distinct(thread)
    BY DEF DeliveryInv, ThreadInv, TypeOK
  <1>3. PICK t : t = mergeMessage(thread, m)
    OBVIOUS
  <1>4. t \in Seq(Message) /\ Follows(thread, t)
    BY <1>1, <1>2, <1>3, MergeKeeps, MergeFollows
  <1>5. /\ thread' = t /\ log' = log /\ handlers' = handlers /\ link' = link /\ inbox' = inbox
        /\ outbox' = outbox /\ queue' = queue /\ lost' = lost
        /\ answers' \subseteq answers /\ pages' = pages /\ hasMore' = hasMore
        /\ missed' = missed \cup Unfetched(t) \cup CutOff(t)
    BY <1>3 DEF PostAnswered
  <1>6. missed \subseteq missed' /\ Unfetched(t) \subseteq missed' /\ CutOff(t) \subseteq missed'
    BY <1>5
  <1> QED
    BY <1>4, <1>5, <1>6, DeliveryThread

LEMMA DeliveryPostFails ==
  ASSUME DeliveryInv, ThreadInv', NEW k \in Key, PostFails(k)
  PROVE  Delivery'
  <1> USE DEF wire, server
  <1>1. Logged /\ thread \in Seq(Message) /\ Entries(thread) /\ Distinct(thread)
    BY DEF DeliveryInv, ThreadInv, TypeOK
  <1>2. PICK t : t = Failed(thread, k)
    OBVIOUS
  <1>3. /\ t \in Seq(Message) /\ Follows(thread, t) /\ DOMAIN t = DOMAIN thread
        /\ \A i \in DOMAIN thread : t[i].seq = thread[i].seq
    BY <1>1, <1>2, FailedKeeps, FailedFollows
  <1>4. \A n \in Nat : Rooted(thread) /\ (\A i \in DOMAIN thread : n < thread[i].seq)
          => \A i \in DOMAIN t : n < t[i].seq
    BY <1>3
  <1>5. /\ thread' = t /\ log' = log /\ handlers' = handlers /\ link' = link /\ inbox' = inbox
        /\ outbox' = outbox /\ queue' = queue /\ lost' = lost
        /\ answers' \subseteq answers /\ pages' = pages /\ hasMore' = hasMore
        /\ missed' = missed \cup Unfetched(t)
    BY <1>2 DEF PostFails
  <1>6. missed \subseteq missed' /\ Unfetched(t) \subseteq missed'
    BY <1>5
  <1> QED
    BY <1>3, <1>4, <1>5, <1>6, DeliveryThread

\* openConversation shows its page, and what that says is above it will be asked for.
LEMMA DeliveryOpened ==
  ASSUME DeliveryInv, ThreadInv', NEW i \in DOMAIN pages, ApplyPage(i), pages[i].kind = "open"
  PROVE  Delivery'
  <1> USE DEF server, wire
  <1>1. PICK p : p = pages[i]
    OBVIOUS
  <1>2. PICK t : t = p.rows
    OBVIOUS
  <1>3. /\ pages \in Seq(Page) /\ p \in Page /\ PageOK(p) /\ p.kind = "open" /\ p.got
        /\ Opening
    BY <1>1 DEF DeliveryInv, ThreadInv, TypeOK, Paged, ApplyPage, Opening
  <1>4. /\ log' = log /\ handlers' = handlers /\ link' = link /\ inbox' = inbox
        /\ outbox' = outbox /\ queue' = queue /\ lost' = lost /\ answers' = answers
        /\ pages' = RemoveAt(pages, i) /\ thread' = t /\ hasMore' = p.more
        /\ missed' = missed \cup Replaced(p)
    BY <1>1, <1>2, <1>3 DEF ApplyPage
  <1>5. \A j \in DOMAIN t : /\ t[j].id # 0 /\ t[j].seq = t[j].id
                            /\ t[j].status # "sending"
    <2>1. \A j \in DOMAIN t : t[j].id \in DOMAIN log /\ t[j].seq = t[j].id
      BY <1>2, <1>3 DEF PageOK, Genuine
    <2>2. 0 \notin DOMAIN log
      BY Positions DEF DeliveryInv
    <2>3. \A j \in DOMAIN t : t[j].status # "sending"
      BY <1>1, <1>2 DEF DeliveryInv, Decided
    <2> QED
      BY <2>1, <2>2, <2>3
  <1>6. Pending'
    <2>1. Settled(t)
      BY <1>5 DEF Settled
    <2> QED
      BY <1>4, <1>5, <2>1 DEF Pending, Settled, Sent
  <1>7. Decided'
    <2>1. \A j \in DOMAIN pages' : \A k \in DOMAIN pages'[j].rows :
             pages'[j].rows[k].status # "sending"
      BY <1>4, PagesDecided DEF DeliveryInv
    <2> QED
      BY <1>4, <2>1 DEF DeliveryInv, Decided
  <1>8. Resumed'
    <2>1. PICK q : q = [kind |-> "open"]
      OBVIOUS
    <2>2. q.kind # "older"
      BY <2>1
    <2> QED
      BY <1>4, <2>2, ResumedStays DEF DeliveryInv
  <1>9. AllTraced'
    <2> SUFFICES ASSUME NEW n \in DOMAIN log, n \notin missed' PROVE Traced(n)'
      BY <1>4 DEF AllTraced
    <2>1. Traced(n) /\ n \notin Replaced(p)
      BY <1>4 DEF DeliveryInv, AllTraced
    <2>2. Shows(t, n) \/ (p.more /\ \A j \in DOMAIN t : t[j].seq > n) => Held(n)'
      BY <1>4 DEF Held, Shown, Shows, Promised
    <2>3. CASE Held(n)
      <3>1. n \in Holds(thread, hasMore)
        BY <2>3 DEF Held, Promised, Shown, Holds, Unshown
      <3>2. n \in Holds(t, p.more)
        BY <1>2, <2>1, <3>1 DEF Replaced
      <3>3. Shows(t, n) \/ (p.more /\ \A j \in DOMAIN t : t[j].seq > n)
        BY <3>2 DEF Holds, Unshown, Shows
      <3> QED
        BY <2>2, <3>3 DEF Traced
    <2>4. CASE Brings(p, n)
      <3>1. Lists(p, n) \/ Above(p, n)
        BY <1>3, <2>4 DEF Brings
      <3>2. CASE Lists(p, n)
        BY <1>2, <2>2, <3>2 DEF Lists, Shows, Traced
      <3>3. CASE Above(p, n)
        <4>1. p.more /\ \A j \in DOMAIN t : n < t[j].seq
          BY <1>2, <1>5, <3>3 DEF Above
        <4>2. \A j \in DOMAIN t : t[j].seq > n
          BY <4>1
        <4> QED
          BY <2>2, <4>1, <4>2 DEF Traced
      <3> QED
        BY <3>1, <3>2, <3>3
    <2>5. CASE Asked(n) /\ ~Brings(p, n)
      <3>1. Asked(n)'
        BY <1>1, <1>4, <2>5, AskedStays DEF DeliveryInv
      <3> QED
        BY <3>1 DEF Traced
    <2>6. CASE ~link \/ Told(n)
      BY <1>4, <2>6 DEF Traced, Told
    <2>7. ~Unopened
      BY <1>3 DEF Unopened
    <2> QED
      BY <2>1, <2>3, <2>4, <2>5, <2>6, <2>7 DEF Traced
  <1> QED
    BY <1>6, <1>7, <1>8, <1>9 DEF Delivery

\* loadOlder joins its page to the thread, and gives up what a thread that was replaced
\* meanwhile has between them.
LEMMA DeliveryOlder ==
  ASSUME DeliveryInv, ThreadInv', NEW i \in DOMAIN pages, ApplyPage(i), pages[i].kind = "older"
  PROVE  Delivery'
  <1> USE DEF server, wire
  <1>1. PICK p : p = pages[i]
    OBVIOUS
  <1>2. PICK rows : rows = p.rows
    OBVIOUS
  <1>3. PICK t : t = rows \o thread
    OBVIOUS
  <1>4. PICK from : from = p.from
    OBVIOUS
  <1>5. /\ pages \in Seq(Page) /\ p \in Page /\ PageOK(p) /\ p.kind = "older" /\ p.got
        /\ thread \in Seq(Message) /\ Entries(thread)
    BY <1>1 DEF DeliveryInv, ThreadInv, TypeOK, Paged, ApplyPage
  <1>6. rows \in Seq(Message)
    BY <1>2, <1>5, PageTypes
  <1>7. /\ log' = log /\ handlers' = handlers /\ link' = link /\ inbox' = inbox
        /\ outbox' = outbox /\ queue' = queue /\ lost' = lost /\ answers' = answers
        /\ pages' = RemoveAt(pages, i) /\ thread' = t /\ hasMore' = p.more
        /\ missed' = missed \cup Skipped(p)
    BY <1>1, <1>2, <1>3, <1>5 DEF ApplyPage
  <1>8. \A j \in DOMAIN rows : /\ rows[j].id # 0 /\ rows[j].seq = rows[j].id
                               /\ rows[j].status # "sending"
    <2>1. \A j \in DOMAIN rows : rows[j].id \in DOMAIN log /\ rows[j].seq = rows[j].id
      BY <1>2, <1>5 DEF PageOK, Genuine
    <2>2. 0 \notin DOMAIN log
      BY Positions DEF DeliveryInv
    <2>3. \A j \in DOMAIN rows : rows[j].status # "sending"
      BY <1>1, <1>2 DEF DeliveryInv, Decided
    <2> QED
      BY <2>1, <2>2, <2>3
  <1>9. from \in DOMAIN log /\ from \in Nat
    BY <1>4, <1>5, Positions DEF PageOK, DeliveryInv
  <1>10. Whole(p)
    BY <1>1, <1>4, <1>5 DEF DeliveryInv, Resumed
  <1> DEFINE L == Len(rows)
  <1>11. /\ L \in Nat /\ DOMAIN rows = 1..L
         /\ \A j \in DOMAIN rows : j \in DOMAIN t /\ t[j] = rows[j]
         /\ \A j \in DOMAIN thread : j + L \in DOMAIN t /\ t[j + L] = thread[j]
         /\ \A j \in DOMAIN t : \/ j \in DOMAIN rows
                                \/ j - L \in DOMAIN thread /\ t[j] = thread[j - L]
         /\ DOMAIN t \subseteq Nat
    BY <1>3, <1>5, <1>6
  <1> HIDE DEF L
  <1>12. \A n : Shows(thread, n) \/ Lists(p, n) => Shows(t, n)
    BY <1>2, <1>11 DEF Shows, Lists
  <1>13. Follows(thread, t)
    <2>1. \A j \in DOMAIN thread : Shows(t, thread[j].id)
      BY <1>12 DEF Shows
    <2>2. \A j \in DOMAIN t : t[j].id = 0 => j \notin DOMAIN rows
      BY <1>8, <1>11
    <2>3. \A j \in DOMAIN t : t[j].id = 0 => j - L \in DOMAIN thread /\ t[j] = thread[j - L]
      BY <1>11, <2>2
    <2>4. Settled(thread) => Settled(t)
      BY <1>8, <1>11 DEF Settled
    <2> QED
      BY <2>1, <2>3, <2>4 DEF Follows
  <1>14. Pending'
    BY <1>7, <1>13, PendingStays DEF DeliveryInv, SeqsOf
  <1>15. Decided'
    <2>1. \A j \in DOMAIN pages' : \A k \in DOMAIN pages'[j].rows :
             pages'[j].rows[k].status # "sending"
      BY <1>7, PagesDecided DEF DeliveryInv
    <2> QED
      BY <1>7, <2>1 DEF DeliveryInv, Decided
  <1>16. Resumed'
    <2>1. PICK q : q = [kind |-> "open"]
      OBVIOUS
    <2>2. q.kind # "older"
      BY <2>1
    <2> QED
      BY <1>7, <2>2, ResumedStays DEF DeliveryInv
  <1>17. AllTraced'
    <2> SUFFICES ASSUME NEW n \in DOMAIN log, n \notin missed' PROVE Traced(n)'
      BY <1>7 DEF AllTraced
    <2>1. Traced(n) /\ n \in Nat /\ n # 0 /\ n \notin Skipped(p)
      BY <1>7, Positions DEF DeliveryInv, AllTraced
    <2>2. ASSUME Shows(t, n) PROVE Held(n)'
      BY <1>7, <2>2 DEF Held, Shown, Shows
    <2>3. CASE Shown(n) # {}
      BY <1>12, <2>2, <2>3 DEF Shown, Shows, Traced
    <2>4. CASE Promised(n)
      <3>1. CASE n \notin Unshown(thread)
        BY <1>12, <2>2, <3>1 DEF Unshown, Shows, Traced
      <3>2. CASE n \in Unshown(thread)
        <4>1. ~(n >= from)
          BY <1>4, <2>1, <2>4, <3>2 DEF Skipped
        <4>2. n \in 1..(from - 1)
          BY <1>9, <2>1, <4>1
        <4>3. Lists(p, n) \/ Above(p, n)
          BY <1>4, <1>5, <1>10, <4>2 DEF Whole
        <4>4. CASE Lists(p, n)
          BY <1>12, <2>2, <4>4 DEF Traced
        <4>5. CASE Above(p, n)
          <5>1. hasMore' /\ \A j \in DOMAIN rows : n < rows[j].seq
            BY <1>2, <1>7, <1>8, <4>5 DEF Above
          <5>2. /\ \A j \in DOMAIN rows : rows[j].seq > n
                /\ \A j \in DOMAIN thread : thread[j].seq > n
            BY <2>4, <5>1 DEF Promised
          <5>3. \A j \in DOMAIN t : t[j].seq > n
            BY <1>11, <5>2
          <5> QED
            BY <1>7, <5>1, <5>3 DEF Traced, Held, Promised
        <4> QED
          BY <4>3, <4>4, <4>5
      <3> QED
        BY <3>1, <3>2
    <2>5. CASE Asked(n)
      <3>1. ~Brings(p, n)
        BY <1>5 DEF Brings
      <3>2. Asked(n)'
        BY <1>1, <1>7, <2>5, <3>1, AskedStays DEF DeliveryInv
      <3> QED
        BY <3>2 DEF Traced
    <2>6. CASE ~link \/ Told(n)
      BY <1>7, <2>6 DEF Traced, Told
    <2>7. ~Unopened
      BY <1>1, <1>5 DEF Unopened, DeliveryInv, ThreadInv, Anchored
    <2> QED
      BY <2>1, <2>3, <2>4, <2>5, <2>6, <2>7 DEF Traced, Held
  <1> QED
    BY <1>14, <1>15, <1>16, <1>17 DEF Delivery

\* The backfill merges its page, and gives up what it has no room for.
LEMMA DeliveryBackfill ==
  ASSUME DeliveryInv, ThreadInv', NEW i \in DOMAIN pages, ApplyPage(i),
         pages[i].kind = "backfill"
  PROVE  Delivery'
  <1> USE DEF server, wire
  <1>1. PICK p : p = pages[i]
    OBVIOUS
  <1>2. PICK rows : rows = p.rows
    OBVIOUS
  <1>3. PICK t : t = Merged(thread, rows)
    OBVIOUS
  <1>4. /\ pages \in Seq(Page) /\ p \in Page /\ PageOK(p) /\ p.kind = "backfill" /\ p.got
        /\ Logged /\ thread \in Seq(Message) /\ Entries(thread) /\ Distinct(thread)
    BY <1>1 DEF DeliveryInv, ThreadInv, TypeOK, Paged, ApplyPage
  <1>5. /\ rows \in Seq(Message) /\ \A j \in DOMAIN rows : Genuine(rows[j])
        /\ \A j \in DOMAIN rows : rows[j].status # "sending"
    BY <1>1, <1>2, <1>4, PageTypes DEF PageOK, DeliveryInv, Decided
  <1>6. /\ t \in Seq(Message) /\ Follows(thread, t)
        /\ \A j \in DOMAIN rows : Shows(t, rows[j].id)
    BY <1>3, <1>4, <1>5, MergedKeeps, MergedFollows
  <1>7. /\ log' = log /\ handlers' = handlers /\ link' = link /\ inbox' = inbox
        /\ outbox' = outbox /\ queue' = queue /\ lost' = lost /\ answers' = answers
        /\ pages' = RemoveAt(pages, i) /\ thread' = t /\ hasMore' = hasMore
        /\ missed' = missed \cup (Beyond(p) \cup Unfetched(t) \cup CutOff(t))
    BY <1>1, <1>2, <1>3, <1>4 DEF ApplyPage
  <1>8. Pending'
    BY <1>6, <1>7, PendingStays DEF DeliveryInv, SeqsOf
  <1>9. Decided'
    <2>1. \A j \in DOMAIN pages' : \A k \in DOMAIN pages'[j].rows :
             pages'[j].rows[k].status # "sending"
      BY <1>7, PagesDecided DEF DeliveryInv
    <2> QED
      BY <1>7, <2>1 DEF DeliveryInv, Decided
  <1>10. \A n \in DOMAIN log : Shows(thread, n) => Shows(t, n)
    <2>1. 0 \notin DOMAIN log
      BY Positions DEF DeliveryInv
    <2> QED
      BY <1>6, <2>1 DEF Follows, Shows
  <1>11. Resumed'
    <2>1. PICK q : q = [kind |-> "open"]
      OBVIOUS
    <2>2. q.kind # "older"
      BY <2>1
    <2> QED
      BY <1>7, <2>2, ResumedStays DEF DeliveryInv
  <1>12. AllTraced'
    <2> SUFFICES ASSUME NEW n \in DOMAIN log, n \notin missed' PROVE Traced(n)'
      BY <1>7 DEF AllTraced
    <2>1. Traced(n) /\ n \notin Beyond(p) /\ n \in Nat
      BY <1>7, Positions DEF DeliveryInv, AllTraced
    <2>2. ASSUME Shows(t, n) PROVE Traced(n)'
      BY <1>7, <2>2 DEF Traced, Held, Shown, Shows
    <2>3. CASE Brings(p, n)
      <3>1. Lists(p, n) \/ (Len(rows) = BackfillSize /\ Last(rows).seq < n)
        BY <1>2, <1>4, <2>3 DEF Brings
      <3>2. CASE Lists(p, n)
        BY <1>2, <1>6, <2>2, <3>2 DEF Lists
      <3>3. CASE Len(rows) = BackfillSize /\ Last(rows).seq < n
        <4>1. n > Last(rows).seq
          BY <3>3
        <4>2. n \notin Unshown(thread)
          BY <1>2, <2>1, <3>3, <4>1 DEF Beyond
        <4>3. Shows(thread, n)
          BY <4>2 DEF Unshown, Shows
        <4> QED
          BY <1>10, <2>2, <4>3
      <3> QED
        BY <3>1, <3>2, <3>3
    <2>4. CASE ~Brings(p, n)
      <3>1. CutOff(t) \subseteq missed' /\ Unfetched(t) \subseteq missed'
        BY <1>7
      <3>2. \E j \in DOMAIN pages : ~Brings(pages[j], n) /\ pages' = RemoveAt(pages, j)
        BY <1>1, <1>7, <2>4
      <3>3. /\ Shows(thread, n) => Shows(t, n)
            /\ ~link => ~link'
            /\ handlers \subseteq handlers'
            /\ \A j \in DOMAIN inbox : j \in DOMAIN inbox' /\ inbox'[j] = inbox[j]
        BY <1>7, <1>10
      <3> QED
        BY <1>6, <1>7, <2>1, <3>1, <3>2, <3>3, TracedStays DEF DeliveryInv
    <2> QED
      BY <2>3, <2>4
  <1> QED
    BY <1>8, <1>9, <1>11, <1>12 DEF Delivery

-----------------------------------------------------------------------------
(***************************************************************************)
(* Requests that fail, and the connection                                  *)
(***************************************************************************)

\* A request that fails for good gives up what it would have brought.
LEMMA DeliveryPageFails ==
  ASSUME DeliveryInv, ThreadInv', NEW i \in DOMAIN pages, PageFails(i)
  PROVE  Delivery'
  <1> USE DEF server, wire
  <1>1. PICK p : p = pages[i]
    OBVIOUS
  <1>2. /\ log' = log /\ handlers' = handlers /\ link' = link /\ inbox' = inbox
        /\ outbox' = outbox /\ queue' = queue /\ lost' = lost /\ answers' = answers
        /\ active' = active /\ loaded' = loaded
        /\ pages' = RemoveAt(pages, i) /\ thread' = thread /\ hasMore' = hasMore
        /\ missed' = missed \cup Unanswered(p)
    BY <1>1 DEF PageFails
  <1>3. Pending'
    BY <1>2, PendingBeside DEF DeliveryInv, SeqsOf
  <1>4. Decided'
    <2>1. \A j \in DOMAIN pages' : \A k \in DOMAIN pages'[j].rows :
             pages'[j].rows[k].status # "sending"
      BY <1>2, PagesDecided DEF DeliveryInv
    <2> QED
      BY <1>2, <2>1 DEF DeliveryInv, Decided
  <1>5. Resumed'
    <2>1. PICK q : q = [kind |-> "open"]
      OBVIOUS
    <2>2. q.kind # "older"
      BY <2>1
    <2> QED
      BY <1>2, <2>2, ResumedStays DEF DeliveryInv
  <1>6. Unopened => Unopened'
    <2>1. PICK now : now = pages'
      OBVIOUS
    <2>2. \A l \in DOMAIN now : \E k \in DOMAIN pages : now[l] = pages[k]
      <3>1. pages \in Seq(Page) /\ \E k \in DOMAIN pages : now = RemoveAt(pages, k)
        BY <1>2, <2>1 DEF DeliveryInv, ThreadInv, TypeOK
      <3> QED
        BY <3>1, Left
    <2>3. Opening' => Opening
      BY <2>1, <2>2 DEF Opening
    <2> QED
      BY <1>2, <2>3 DEF Unopened
  <1>7. AllTraced'
    <2> SUFFICES ASSUME NEW n \in DOMAIN log, n \notin missed' PROVE Traced(n)'
      BY <1>2 DEF AllTraced
    <2>1. Traced(n) /\ n \notin Unanswered(p)
      BY <1>2 DEF DeliveryInv, AllTraced
    <2>2. CASE p.kind = "older"
      <3>1. ~Brings(p, n)
        BY <2>2 DEF Brings
      <3>2. Asked(n) => Asked(n)'
        BY <1>1, <1>2, <3>1, AskedStays DEF DeliveryInv
      <3>3. (Held(n) => Held(n)') /\ (Told(n) => Told(n)')
        BY <1>2 DEF Held, Shown, Promised, Told
      <3> QED
        BY <1>2, <1>6, <2>1, <3>2, <3>3 DEF Traced
    <2>3. CASE p.kind # "older"
      <3>1. n \in Holds(thread, hasMore)
        BY <2>1, <2>3 DEF Unanswered
      <3> QED
        BY <1>2, <3>1 DEF Holds, Unshown, Traced, Held, Shown, Promised
    <2> QED
      BY <2>2, <2>3
  <1> QED
    BY <1>3, <1>4, <1>5, <1>7 DEF Delivery

\* What goes down with the connection is lost, or asked for when it is resumed.
LEMMA DeliveryDrop ==
  ASSUME DeliveryInv, ThreadInv', Drop
  PROVE  Delivery'
  <1>1. /\ log' = log /\ ~link' /\ inbox' = <<>> /\ queue' = queue
        /\ lost' = lost \cup ToSet(outbox) /\ answers' = answers
        /\ pages' = pages /\ thread' = thread /\ missed' = missed
    BY DEF Drop, server, http, view
  <1>2. Pending'
    <2>1. \A k \in ToSet(outbox) \cup ToSet(queue) \cup lost :
            k \in ToSet(outbox)' \cup ToSet(queue)' \cup lost'
      BY <1>1
    <2> QED
      BY <1>1, <2>1, PendingBeside DEF DeliveryInv, SeqsOf
  <1>3. Decided'
    BY <1>1 DEF DeliveryInv, Decided
  <1>4. Resumed'
    BY <1>1, ResumedStays DEF DeliveryInv
  <1>5. AllTraced'
    BY <1>1 DEF AllTraced, Traced
  <1> QED
    BY <1>2, <1>3, <1>4, <1>5 DEF Delivery

\* Resuming a connection asks for what is behind the last message of the open thread,
\* and gives up the rest.
LEMMA DeliveryReconnect ==
  ASSUME DeliveryInv, ThreadInv', Reconnect
  PROVE  Delivery'
  <1> DEFINE q == [kind |-> "backfill", from |-> LastSeq(thread), got |-> FALSE,
                   rows |-> <<>>, more |-> FALSE]
  <1>1. PICK p : p = q
    OBVIOUS
  <1>2. p.kind = "backfill" /\ p.from = LastSeq(thread) /\ ~p.got /\ p.rows = <<>>
    BY <1>1
  <1>3. /\ log' = log /\ handlers' = handlers /\ inbox' = inbox /\ ~link
        /\ outbox' = queue /\ lost' = lost /\ answers' = answers
        /\ active' = active /\ loaded' = loaded
        /\ pages' = (IF ~active THEN pages ELSE Append(pages, p))
        /\ thread' = thread /\ hasMore' = hasMore
        /\ missed' = missed \cup NotBackfilled
    BY <1>1 DEF Reconnect, server
  <1>4. Pending'
    <2>1. ToSet(outbox) = {}
      BY <1>3 DEF DeliveryInv, Closed, ToSet
    <2>2. ToSet(outbox)' = ToSet(queue)
      BY <1>3
    <2> QED
      BY <1>3, <2>1, <2>2, PendingBeside DEF DeliveryInv, SeqsOf
  <1>5. pages' = pages \/ pages' = Append(pages, p)
    BY <1>3
  <1>6. Decided'
    <2>1. \A j \in DOMAIN pages' : \A k \in DOMAIN pages'[j].rows :
             pages'[j].rows[k].status # "sending"
      BY <1>2, <1>5, PagesDecided DEF DeliveryInv
    <2> QED
      BY <1>3, <2>1 DEF DeliveryInv, Decided
  <1>7. Resumed'
    BY <1>2, <1>3, <1>5, ResumedStays DEF DeliveryInv
  <1>8. AllTraced'
    <2> SUFFICES ASSUME NEW n \in DOMAIN log, n \notin missed' PROVE Traced(n)'
      BY <1>3 DEF AllTraced
    <2>1. n \notin NotBackfilled /\ n \in Nat
      BY <1>3, Positions DEF DeliveryInv
    <2>2. CASE n \notin Unshown(thread)
      BY <1>3, <2>2 DEF Unshown, Traced, Held, Shown
    <2>3. CASE active /\ n \in Unshown(thread)
      <3>1. LastSeq(thread) \in Nat /\ pages \in Seq(Page)
        BY LastSeqType DEF DeliveryInv, ThreadInv, TypeOK
      <3>2. ~(n <= LastSeq(thread))
        BY <2>1, <2>3 DEF NotBackfilled
      <3>3. p.from < n
        BY <1>2, <2>1, <3>1, <3>2
      <3>4. PICK i : i = Len(pages) + 1
        OBVIOUS
      <3>5. i \in DOMAIN pages' /\ pages'[i] = p
        BY <1>3, <2>3, <3>1, <3>4
      <3>6. Brings(pages[i], n)'
        BY <1>2, <3>3, <3>5 DEF Brings
      <3> QED
        BY <3>5, <3>6 DEF Traced, Asked
    <2>4. CASE ~active /\ n \in Unshown(thread)
      <3>1. ~(loaded \/ Opening)
        BY <2>1, <2>4 DEF NotBackfilled
      <3>2. Unopened'
        BY <1>3, <2>4, <3>1 DEF Unopened, Opening
      <3> QED
        BY <3>2 DEF Traced
    <2> QED
      BY <2>2, <2>3, <2>4
  <1> QED
    BY <1>4, <1>6, <1>7, <1>8 DEF Delivery

-----------------------------------------------------------------------------
(***************************************************************************)
(* Nothing is lost                                                         *)
(***************************************************************************)

\* A thread that is open at the start has its first page, and more above it.
LEMMA DeliveryInit ==
  ASSUME Init
  PROVE  DeliveryInv
  <1> DEFINE first == Earlier + 1 - Least(Earlier, PageSize)
             e == [key |-> NoKey, mine |-> TRUE]
  <1>1. ThreadInv
    BY ThreadInit
  <1>2. /\ Earlier \in Nat /\ PageSize \in Nat /\ PageSize # 0 /\ StartOpen \in BOOLEAN
    BY BoundAssumption, FlagAssumption
  <1>3. log = [i \in 1..Earlier |-> e]
    BY DEF Init
  <1>4. DOMAIN log = 1..Earlier /\ Len(log) = Earlier
    <2> HIDE DEF e
    <2> QED
      BY <1>2, <1>3
  <1>5. first \in Int /\ first >= 1 /\ (first > 1 => Earlier > PageSize)
    BY <1>2 DEF Least
  <1>6. PICK t : t = thread
    OBVIOUS
  <1>7. IF StartOpen THEN t = Rows(first, Earlier) ELSE t = <<>>
    BY <1>2, <1>6 DEF Init
  <1> HIDE DEF first
  <1>8. ASSUME StartOpen
        PROVE  /\ t \in Seq(Message) /\ DOMAIN t = 1..(Earlier + 1 - first)
               /\ \A j \in DOMAIN t : /\ Genuine(t[j]) /\ t[j].id = first + j - 1
                                      /\ t[j].status # "sending"
    <2>1. /\ Logged /\ peerRead \in Nat /\ Earlier \in Int /\ Earlier <= Len(log)
          /\ t = Rows(first, Earlier)
      BY <1>1, <1>2, <1>4, <1>7, <1>8 DEF ThreadInv, TypeOK
    <2>2. /\ t \in Seq(Message) /\ DOMAIN t = 1..(Earlier + 1 - first)
          /\ \A j \in DOMAIN t : Genuine(t[j]) /\ t[j].id = first + j - 1
      BY <1>5, <2>1, RowsType
    <2>3. \A j \in DOMAIN t : t[j] = Stored(first + j - 1, peerRead)
      BY <2>1 DEF Rows
    <2> QED
      BY <2>2, <2>3, StoredDecided
  <1>9. Settled(t) /\ \A j \in DOMAIN t : t[j].id # 0
    <2>1. CASE StartOpen
      <3>1. 0 \notin DOMAIN log
        BY <1>4
      <3> QED
        BY <1>8, <2>1, <3>1 DEF Settled, Genuine
    <2>2. CASE ~StartOpen
      BY <1>7, <2>2 DEF Settled
    <2> QED
      BY <2>1, <2>2
  <1>10. Pending
    BY <1>6, <1>9 DEF Pending, Sent
  <1>11. Closed /\ Decided /\ Resumed
    BY DEF Init, Closed, Decided, Resumed
  <1>12. AllTraced
    <2> SUFFICES ASSUME NEW n \in DOMAIN log PROVE Traced(n)
      BY DEF AllTraced
    <2>1. n \in 1..Earlier
      BY <1>4
    <2>2. CASE StartOpen /\ first <= n
      <3>1. PICK j : j = n - first + 1
        OBVIOUS
      <3>2. j \in 1..(Earlier + 1 - first) /\ first + j - 1 = n
        BY <1>2, <1>5, <2>1, <2>2, <3>1
      <3>3. j \in DOMAIN thread /\ thread[j].id = n
        BY <1>6, <1>8, <2>2, <3>2
      <3> QED
        BY <3>3 DEF Traced, Held, Shown
    <2>3. CASE StartOpen /\ n < first
      <3>1. hasMore
        <4>1. 1 <= n /\ n \in Int /\ first > 1
          BY <1>5, <2>1, <2>3
        <4>2. StartOpen /\ Earlier > PageSize
          BY <1>5, <2>3, <4>1
        <4> QED
          BY <4>2 DEF Init
      <3>2. ASSUME NEW j \in DOMAIN t PROVE t[j].seq > n
        <4>1. t[j].seq = t[j].id /\ t[j].id = first + j - 1 /\ j \in 1..(Earlier + 1 - first)
          BY <1>8, <2>3 DEF Genuine
        <4>2. first + j - 1 > n
          BY <1>2, <1>5, <2>1, <2>3, <4>1
        <4> QED
          BY <4>1, <4>2
      <3> QED
        BY <1>6, <3>1, <3>2 DEF Traced, Held, Promised
    <2>4. CASE ~StartOpen
      BY <2>4 DEF Init, Traced, Unopened, Opening
    <2> QED
      BY <1>2, <1>5, <2>1, <2>2, <2>3, <2>4
  <1> QED
    BY <1>1, <1>10, <1>11, <1>12 DEF DeliveryInv

\* Nothing is put on a connection that is down.
LEMMA ClosedKept ==
  ASSUME Closed, [Next]_vars
  PROVE  Closed'
  <1>1. CASE UNCHANGED vars
    BY <1>1 DEF Closed, vars
  <1>2. CASE Next
    <2> USE DEF Closed, server, wire, http, view
    <2>1. CASE Open \/ Leave \/ LoadOlder
      BY <2>1 DEF Open, Leave, LoadOlder
    <2>2. ASSUME NEW k \in Key, SendMessage(k) \/ PostStored(k) \/ PostKnown(k) \/ PostFails(k)
          PROVE  Closed'
      <3>1. CASE SendMessage(k)
        BY <3>1 DEF SendMessage, Transmit
      <3>2. CASE PostStored(k)
        BY <3>2 DEF PostStored
      <3>3. CASE PostKnown(k)
        BY <3>3 DEF PostKnown
      <3>4. CASE PostFails(k)
        BY <3>4 DEF PostFails
      <3> QED
        BY <2>2, <3>1, <3>2, <3>3, <3>4
    <2>3. CASE PeerSends \/ \E n \in DOMAIN log : PeerReads(n)
      BY <2>3 DEF PeerSends, PeerReads
    <2>4. CASE FrameStored \/ FrameKnown \/ FrameRefused
      BY <2>4 DEF FrameStored, FrameKnown, FrameRefused
    <2>5. CASE \E h \in handlers : FanOut(h)
      BY <2>5 DEF FanOut
    <2>6. ASSUME NEW i \in DOMAIN pages, ServePage(i) \/ ApplyPage(i) \/ PageFails(i)
          PROVE  Closed'
      BY <2>6 DEF ServePage, ApplyPage, PageFails
    <2>7. CASE HandleNew \/ HandleAck \/ HandleRead
      BY <2>7 DEF HandleNew, HandleAck, HandleRead
    <2>8. CASE \E m \in answers : PostAnswered(m)
      BY <2>8 DEF PostAnswered
    <2>9. CASE Drop \/ Reconnect
      BY <2>9 DEF Drop, Reconnect
    <2> QED
      BY <1>2, <2>1, <2>2, <2>3, <2>4, <2>5, <2>6, <2>7, <2>8, <2>9 DEF Next
  <1> QED
    BY <1>1, <1>2

LEMMA DeliveryNext ==
  ASSUME DeliveryInv, [Next]_vars
  PROVE  DeliveryInv'
  <1>1. ThreadInv'
    BY ThreadNext DEF DeliveryInv
  <1>2. Closed'
    BY ClosedKept DEF DeliveryInv
  <1>3. CASE UNCHANGED vars
    <2>1. /\ log' = log /\ handlers' = handlers /\ link' = link /\ pages' = pages
          /\ view' = view /\ queue' = queue /\ lost' = lost /\ inbox' = inbox
          /\ answers' = answers /\ outbox' = outbox
      BY <1>3 DEF vars, view
    <2>2. PICK none : none = <<>>
      OBVIOUS
    <2>3. none \in Seq(Event) /\ DOMAIN none = {}
      BY <2>2
    <2>4. \A m \in answers' : m.status # "sending"
      BY <2>1 DEF DeliveryInv, Decided
    <2>5. Delivery'
      BY <1>1, <2>1, <2>3, <2>4, DeliveryEvents
    <2> QED
      BY <1>1, <1>2, <2>5 DEF DeliveryInv, Delivery
  <1>4. CASE Next
    <2>1. Open \/ Leave \/ LoadOlder => Delivery'
      <3>1. Open => Delivery'
        BY <1>1, DeliveryOpen
      <3>2. Leave => Delivery'
        BY <1>1, DeliveryLeave
      <3>3. LoadOlder => Delivery'
        BY <1>1, DeliveryLoadOlder
      <3> QED
        BY <3>1, <3>2, <3>3
    <2>2. ASSUME NEW k \in Key, SendMessage(k) \/ PostStored(k) \/ PostKnown(k) \/ PostFails(k)
          PROVE  Delivery'
      <3>1. SendMessage(k) => Delivery'
        BY <1>1, DeliverySendMessage
      <3>2. PostStored(k) => Delivery'
        BY <1>1, DeliveryStored
      <3>3. PostKnown(k) => Delivery'
        BY <1>1, DeliveryAnswered
      <3>4. PostFails(k) => Delivery'
        BY <1>1, DeliveryPostFails
      <3> QED
        BY <2>2, <3>1, <3>2, <3>3, <3>4
    <2>3. PeerSends \/ FrameStored => Delivery'
      <3>1. PeerSends => Delivery'
        BY <1>1, DeliveryStored
      <3>2. FrameStored => Delivery'
        BY <1>1, DeliveryStored
      <3> QED
        BY <3>1, <3>2
    <2>4. FrameKnown \/ FrameRefused \/ (\E n \in DOMAIN log : PeerReads(n)) => Delivery'
      <3>1. FrameKnown => Delivery'
        BY <1>1, DeliveryAnswered
      <3>2. (\E n \in DOMAIN log : PeerReads(n)) => Delivery'
        BY <1>1, DeliveryAnswered
      <3>3. FrameRefused => Delivery'
        BY <1>1, DeliveryAnswered
      <3> QED
        BY <3>1, <3>2, <3>3
    <2>5. ASSUME NEW h \in handlers, FanOut(h) PROVE Delivery'
      BY <1>1, <2>5, DeliveryFanOut
    <2>6. ASSUME NEW i \in DOMAIN pages, ServePage(i) \/ PageFails(i) PROVE Delivery'
      BY <1>1, <2>6, DeliveryServePage, DeliveryPageFails
    <2>7. ASSUME NEW i \in DOMAIN pages, ApplyPage(i) PROVE Delivery'
      <3>1. pages[i].kind \in {"open", "older", "backfill"}
        <4>1. pages[i] \in Page
          BY DEF DeliveryInv, ThreadInv, TypeOK
        <4> QED
          BY <4>1, PageTypes
      <3> QED
        BY <1>1, <2>7, <3>1, DeliveryOpened, DeliveryOlder, DeliveryBackfill
    <2>8. HandleNew \/ HandleAck \/ HandleRead => Delivery'
      <3>1. HandleNew => Delivery'
        BY <1>1, DeliveryHandleNew
      <3>2. HandleAck => Delivery'
        BY <1>1, DeliveryHandleAck
      <3>3. HandleRead => Delivery'
        BY <1>1, DeliveryHandleRead
      <3> QED
        BY <3>1, <3>2, <3>3
    <2>9. ASSUME NEW m \in answers, PostAnswered(m) PROVE Delivery'
      BY <1>1, <2>9, DeliveryPostAnswered
    <2>10. Drop \/ Reconnect => Delivery'
      <3>1. Drop => Delivery'
        BY <1>1, DeliveryDrop
      <3>2. Reconnect => Delivery'
        BY <1>1, DeliveryReconnect
      <3> QED
        BY <3>1, <3>2
    <2>11. Delivery'
      BY <1>4, <2>1, <2>2, <2>3, <2>4, <2>5, <2>6, <2>7, <2>8, <2>9, <2>10 DEF Next
    <2> QED
      BY <1>1, <1>2, <2>11 DEF DeliveryInv, Delivery
  <1> QED
    BY <1>3, <1>4

LEMMA DeliveryInvariant == Spec => []DeliveryInv
  <1>1. Init => DeliveryInv
    BY DeliveryInit
  <1>2. DeliveryInv /\ [Next]_vars => DeliveryInv'
    BY DeliveryNext
  <1> QED
    BY <1>1, <1>2, PTL DEF Spec

\* With nothing under way, a message is in the thread or asked for with older ones.
LEMMA QuietHolds ==
  ASSUME DeliveryInv
  PROVE  LosesNothing
  <1> SUFFICES ASSUME Quiet, NEW n \in DOMAIN log \ missed PROVE Held(n)
    BY DEF LosesNothing
  <1>1. Traced(n)
    BY DEF DeliveryInv, AllTraced
  <1>2. link /\ ~Unopened
    BY DEF Quiet, Unopened
  <1>3. ~Told(n) /\ ~Asked(n)
    BY DEF Quiet, Told, Asked
  <1> QED
    BY <1>1, <1>2, <1>3 DEF Traced

\* When all is quiet, every stored message is in the thread or will be fetched with the
\* older ones, but for those that the steps listed under Gaps leave out: the order in
\* which events, answers and pages of lib/store.ts come loses no other.
THEOREM NoneLost == Spec => []LosesNothing
  <1>1. DeliveryInv => LosesNothing
    BY QuietHolds
  <1> QED
    BY <1>1, DeliveryInvariant, PTL

\* A bubble that waits for its answer when all is quiet is of a frame that went down with
\* the connection or was refused, or of a message that was left out of the thread or
\* that loadOlder has shown beside it.
THEOREM NoBubbleStuck == Spec => []NothingStuck
  <1>1. ASSUME DeliveryInv PROVE NothingStuck
    <2> SUFFICES ASSUME Quiet, NEW i \in DOMAIN thread, thread[i].status = "sending",
                        thread[i].key \notin lost, NEW n \in SeqsOf(thread[i].key),
                        SeqsOf(thread[i].key) \cap (missed \cup doubled) = {}
                 PROVE  FALSE
      <3>1. ASSUME Quiet, NEW i \in DOMAIN thread, thread[i].status = "sending",
                   thread[i].key \notin lost
            PROVE  SeqsOf(thread[i].key) # {}
        <4>1. thread[i].id = 0
          BY <1>1, <3>1 DEF DeliveryInv, Pending, Settled
        <4>2. ToSet(outbox) = {} /\ ToSet(queue) = {}
          BY <3>1 DEF Quiet, ToSet
        <4> QED
          BY <1>1, <3>1, <4>1, <4>2 DEF DeliveryInv, Pending, Sent
      <3> QED
        BY <3>1 DEF NothingStuck
    <2>1. Distinct(thread) /\ Entries(thread)
      BY <1>1 DEF DeliveryInv, ThreadInv
    <2>2. thread[i].id = 0
      BY <1>1 DEF DeliveryInv, Pending, Settled
    <2>3. n \in DOMAIN log /\ log[n].key = thread[i].key
      BY DEF SeqsOf
    <2>4. n \in Nat /\ n # 0
      BY <1>1, <2>3, Positions DEF DeliveryInv
    <2>5. Held(n)
      BY <1>1, <2>3, QuietHolds DEF LosesNothing
    <2>6. ASSUME NEW j \in DOMAIN thread, thread[j].id = n PROVE FALSE
      <3>1. thread[j].key = thread[i].key
        BY <1>1, <2>3, <2>4, <2>6 DEF DeliveryInv, ThreadInv, Entries, Genuine, Optimistic
      <3>2. i # j /\ thread[i].key # NoKey
        BY <1>1, <2>1, <2>2, <2>4, <2>6, Positions
           DEF DeliveryInv, Entries, Genuine, Optimistic
      <3> QED
        BY <2>1, <3>1, <3>2 DEF Distinct
    <2>7. ~Promised(n)
      <3> SUFFICES ASSUME Promised(n) PROVE FALSE
        OBVIOUS
      <3>1. Rooted(thread) /\ thread \in Seq(Message)
        BY <1>1 DEF DeliveryInv, ThreadInv, TypeOK, Anchored, Promised
      <3>2. PICK j \in DOMAIN thread : thread[j].seq < n
        BY <2>2, <3>1 DEF Rooted, Under
      <3>3. thread[j] \in Message /\ thread[j].seq > n
        BY <3>1 DEF Promised
      <3>4. thread[j].seq \in Nat
        BY <3>3, MessageFields
      <3> QED
        BY <2>4, <3>2, <3>3, <3>4
    <2> QED
      BY <2>5, <2>6, <2>7 DEF Held, Shown
  <1> QED
    BY <1>1, DeliveryInvariant, PTL
=============================================================================
