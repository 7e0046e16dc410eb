------------------------ MODULE MessageStoreProofs ------------------------
(***************************************************************************)
(* Proofs about MessageStore, for any number of people, sessions and       *)
(* client ids and without the bound on the model mattering: its invariants *)
(* and the refinement of MessageLog.                                       *)
(***************************************************************************)
EXTENDS MessageStore, Sequences, SequenceTheorems, TLAPS

-----------------------------------------------------------------------------
\* Type correctness.

\* The record of an idle handler, of a fresh one and of a found one are Work.
LEMMA WorkTypes ==
  ASSUME TypeOK, NEW s \in Session
  PROVE  /\ NoWork \in Work
         /\ \A k \in Key \cup {NoKey}, n \in Nat : Loaded(s, k, n) \in Work
         /\ \A n \in Nat : Holding(s, n) \in [Session -> Work]
         /\ \A n \in Nat : Row(s, n) \in Message
  BY OwnerAssumption DEF TypeOK, NoWork, Work, Loaded, Holding, Row, Message

\* Holding changes one field of one session's record.
LEMMA HoldingFacts ==
  ASSUME TypeOK, NEW s \in Session, NEW n \in Nat
  PROVE  /\ Holding(s, n)[s].seq = n
         /\ Holding(s, n)[s].key = work[s].key
         /\ Holding(s, n)[s].read = work[s].read
         /\ Holding(s, n)[s].delivered = work[s].delivered
  BY DEF TypeOK, Work, Holding

\* A step of the send path preserves the types.
LEMMA SendTypes ==
  ASSUME TypeOK, NEW s \in Session,
         \/ \E k \in Key \cup {NoKey} : SendLoad(s, k)
         \/ SendFound(s) \/ SendNew(s) \/ AllocateSeq(s) \/ SendCommit(s)
         \/ SendConflict(s) \/ SendWinner(s) \/ Reply(s)
  PROVE  TypeOK'
  <1> USE OwnerAssumption, WorkTypes DEF Goto, Load, store
  <1>1. CASE \E k \in Key \cup {NoKey} : SendLoad(s, k)
    <2>1. PICK k \in Key \cup {NoKey} : SendLoad(s, k)
      BY <1>1
    <2>2. Loaded(s, k, 0) \in Work
      OBVIOUS
    <2> QED
      BY <2>1, <2>2 DEF SendLoad, TypeOK, Sending
  <1>2. CASE SendFound(s)
    <2>1. PICK m \in Existing(s) : work' = Holding(s, m.seq)
      BY <1>2 DEF SendFound
    <2>2. m.seq \in Nat
      BY <2>1 DEF Existing, TypeOK, Message
    <2> QED
      BY <1>2, <2>1, <2>2 DEF SendFound, TypeOK, Sending
  <1>3. CASE SendNew(s)
    BY <1>3 DEF SendNew, TypeOK, Sending
  <1>4. CASE AllocateSeq(s)
    <2>1. lastSeq + 1 \in Nat
      BY DEF TypeOK
    <2>2. work' \in [Session -> Work]
      BY <1>4, <2>1 DEF AllocateSeq
    <2> QED
      BY <1>4, <2>2 DEF AllocateSeq, TypeOK, Sending
  <1>5. CASE SendCommit(s)
    <2>1. work[s].seq \in Nat
      BY DEF TypeOK, Work
    <2> QED
      BY <1>5, <2>1 DEF SendCommit, TypeOK, Sending
  <1>6. CASE SendConflict(s)
    BY <1>6 DEF SendConflict, TypeOK, Sending
  <1>7. CASE SendWinner(s)
    <2>1. PICK m \in Existing(s) : work' = Holding(s, m.seq)
      BY <1>7 DEF SendWinner
    <2>2. m.seq \in Nat
      BY <2>1 DEF Existing, TypeOK, Message
    <2> QED
      BY <1>7, <2>1, <2>2 DEF SendWinner, TypeOK, Sending
  <1>8. CASE Reply(s)
    <2>1. work[s].seq \in Nat
      BY DEF TypeOK, Work
    <2> QED
      BY <1>8, <2>1 DEF Reply, Finish, TypeOK, Sending
  <1> QED
    BY <1>1, <1>2, <1>3, <1>4, <1>5, <1>6, <1>7, <1>8

\* A step of mark_read or mark_delivered, or a failure, preserves the types.
LEMMA MarkTypes ==
  ASSUME TypeOK, NEW s \in Session,
         \/ \E n \in Named : MarkReadLoad(s, n)
         \/ \E n \in Named : MarkDeliveredLoad(s, n)
         \/ MarkReadSkip(s) \/ MarkReadTarget(s) \/ MarkReadCommit(s)
         \/ MarkDeliveredSkip(s) \/ MarkDeliveredTarget(s) \/ MarkDeliveredCommit(s)
         \/ Abort(s)
  PROVE  TypeOK'
  <1> USE OwnerAssumption, WorkTypes DEF Goto, Finish, Load, store
  <1>0. work[s].seq \in Nat /\ ReadTarget(s) \in Nat /\ DeliveredTarget(s) \in Nat
    BY DEF TypeOK, Work, ReadTarget, DeliveredTarget
  <1>1. CASE \E n \in Named : MarkReadLoad(s, n)
    <2>1. PICK n \in Named : MarkReadLoad(s, n)
      BY <1>1
    <2>2. n \in Nat
      BY NamedAssumption
    <2>3. Loaded(s, NoKey, n) \in Work
      BY <2>2
    <2> QED
      BY <2>1, <2>3 DEF MarkReadLoad, TypeOK, Marking
  <1>2. CASE \E n \in Named : MarkDeliveredLoad(s, n)
    <2>1. PICK n \in Named : MarkDeliveredLoad(s, n)
      BY <1>2
    <2>2. n \in Nat
      BY NamedAssumption
    <2>3. Loaded(s, NoKey, n) \in Work
      BY <2>2
    <2> QED
      BY <2>1, <2>3 DEF MarkDeliveredLoad, TypeOK, Marking
  <1>3. CASE MarkReadSkip(s)
    BY <1>3 DEF MarkReadSkip, TypeOK
  <1>4. CASE MarkReadTarget(s)
    BY <1>0, <1>4 DEF MarkReadTarget, TypeOK, Marking
  <1>5. CASE MarkReadCommit(s)
    BY <1>0, <1>5 DEF MarkReadCommit, TypeOK
  <1>6. CASE MarkDeliveredSkip(s)
    BY <1>6 DEF MarkDeliveredSkip, TypeOK
  <1>7. CASE MarkDeliveredTarget(s)
    BY <1>0, <1>7 DEF MarkDeliveredTarget, TypeOK, Marking
  <1>8. CASE MarkDeliveredCommit(s)
    BY <1>0, <1>8 DEF MarkDeliveredCommit, TypeOK
  <1>9. CASE Abort(s)
    BY <1>9 DEF Abort, TypeOK
  <1> QED
    BY <1>1, <1>2, <1>3, <1>4, <1>5, <1>6, <1>7, <1>8, <1>9

\* Every reachable state is well typed.
THEOREM TypeCorrect == Spec => []TypeOK
  <1>1. Init => TypeOK
    BY OwnerAssumption DEF Init, TypeOK, NoWork, Work
  <1>2. TypeOK /\ [Next]_vars => TypeOK'
    <2> SUFFICES ASSUME TypeOK, [Next]_vars PROVE TypeOK'
      OBVIOUS
    <2>1. CASE Next
      <3>1. PICK s \in Session : Start(s) \/ Continue(s) \/ Abort(s)
        BY <2>1 DEF Next
      <3> QED
        BY <3>1, SendTypes, MarkTypes DEF Start, Continue
    <2>2. CASE UNCHANGED vars
      BY <2>2 DEF vars, TypeOK
    <2> QED
      BY <2>1, <2>2
  <1> QED
    BY <1>1, <1>2, PTL DEF Spec

-----------------------------------------------------------------------------
\* The log invariants.

Step(s) == Start(s) \/ Continue(s) \/ Abort(s)

\* Only three actions write committed data.
LEMMA Writers ==
  ASSUME NEW s \in Session, Step(s)
  PROVE  \/ UNCHANGED store
         \/ SendCommit(s) \/ MarkReadCommit(s) \/ MarkDeliveredCommit(s)
  BY DEF Step, Start, Continue, Load, SendLoad, SendFound, SendNew, AllocateSeq,
         SendConflict, SendWinner, Reply, MarkReadLoad, MarkReadSkip,
         MarkReadTarget, MarkDeliveredLoad, MarkDeliveredSkip,
         MarkDeliveredTarget, Abort

\* A step moves the program counter of its own session only.
LEMMA OwnStep ==
  ASSUME TypeOK, NEW s \in Session, Step(s), NEW t \in Session, t # s
  PROVE  pc'[t] = pc[t] /\ work'[t] = work[t]
  BY DEF Step, Start, Continue, Load, SendLoad, SendFound, SendNew, AllocateSeq,
         SendCommit, SendConflict, SendWinner, Reply, MarkReadLoad, MarkReadSkip,
         MarkReadTarget, MarkReadCommit, MarkDeliveredLoad, MarkDeliveredSkip,
         MarkDeliveredTarget, MarkDeliveredCommit, Abort, Goto, Finish, Holding, TypeOK

\* The row is taken by allocate_seq and given back when its transaction ends.
LEMMA LockStep ==
  ASSUME TypeOK, LockHeld, NEW s \in Session, Step(s)
  PROVE  LockHeld'
  <1> USE NobodyAssumption DEF LockHeld
  <1>1. CASE AllocateSeq(s)
    BY <1>1, OwnStep DEF AllocateSeq, Goto, TypeOK
  <1>2. CASE SendCommit(s) \/ SendConflict(s)
    BY <1>2, OwnStep DEF SendCommit, SendConflict, Goto, TypeOK
  <1>3. CASE Abort(s)
    BY <1>3, OwnStep DEF Abort, Finish, Goto, TypeOK
  <1>4. CASE ~(AllocateSeq(s) \/ SendCommit(s) \/ SendConflict(s) \/ Abort(s))
    <2>1. rowLock' = rowLock /\ pc[s] # "commit" /\ pc'[s] # "commit"
      BY <1>4 DEF Step, Start, Continue, Load, SendLoad, SendFound, SendNew, SendWinner,
         Reply, MarkReadLoad, MarkReadSkip, MarkReadTarget, MarkReadCommit,
         MarkDeliveredLoad, MarkDeliveredSkip, MarkDeliveredTarget,
         MarkDeliveredCommit, Goto, Finish, TypeOK
    <2> QED
      BY <2>1, OwnStep
  <1> QED
    BY <1>1, <1>2, <1>3, <1>4

\* A handler's number stays right: those of other sessions because nothing it
\* speaks of can change under them, its own because it was just computed.
LEMMA WorkStep ==
  ASSUME TypeOK, LockHeld, WorkInLog, NEW s \in Session, Step(s)
  PROVE  WorkInLog'
  <1>1. lastSeq <= lastSeq' /\ messages \subseteq messages'
    BY Writers DEF store, SendCommit, MarkReadCommit, MarkDeliveredCommit,
       WorkInLog, Goto, TypeOK
  <1>2. ASSUME NEW t \in Session, t # s
        PROVE  /\ pc'[t] = "commit" => work'[t].seq = lastSeq' + 1
               /\ pc'[t] = "reply" => Row(t, work[t].seq)' \in messages'
               /\ pc'[t] = "readCommit" =>
                    work'[t].seq <= lastSeq' /\ work'[t].seq > work'[t].read
               /\ pc'[t] = "deliveredCommit" => work'[t].seq > work'[t].delivered
    <2>1. pc'[t] = pc[t] /\ work'[t] = work[t]
      BY <1>2, OwnStep
    <2>2. pc[t] = "commit" => lastSeq' = lastSeq
      BY <1>2, Writers DEF store, SendCommit, MarkReadCommit, MarkDeliveredCommit,
         LockHeld, Goto
    <2>3. Row(t, work[t].seq)' = Row(t, work[t].seq)
      BY <2>1 DEF Row
    <2>4. work[t].seq \in Nat /\ lastSeq \in Nat /\ lastSeq' \in Nat
      BY SendTypes, MarkTypes DEF Step, Start, Continue, TypeOK, Work
    <2> QED
      BY <1>1, <2>1, <2>2, <2>3, <2>4 DEF WorkInLog
  <1>3. /\ pc'[s] = "commit" => work'[s].seq = lastSeq' + 1
        /\ pc'[s] = "reply" => Row(s, work[s].seq)' \in messages'
        /\ pc'[s] = "readCommit" =>
             work'[s].seq <= lastSeq' /\ work'[s].seq > work'[s].read
        /\ pc'[s] = "deliveredCommit" => work'[s].seq > work'[s].delivered
    <2>1. CASE AllocateSeq(s)
      <3>1. work'[s].seq = lastSeq + 1 /\ pc'[s] = "commit" /\ lastSeq' = lastSeq
        BY <2>1, HoldingFacts DEF AllocateSeq, Goto, store, TypeOK
      <3> QED
        BY <3>1
    <2>2. CASE SendFound(s) \/ SendWinner(s)
      <3>1. PICK m \in Existing(s) : work' = Holding(s, m.seq)
        BY <2>2 DEF SendFound, SendWinner
      <3>2. m \in messages /\ m \in Message /\ m.sender = Owner[s] /\ m.key = work[s].key
        BY <3>1 DEF Existing, TypeOK
      <3>3. m.seq \in Nat /\ m = [sender |-> m.sender, key |-> m.key, seq |-> m.seq]
        BY <3>2 DEF Message
      <3>4. work'[s].seq = m.seq /\ work'[s].key = work[s].key
        BY <3>1, <3>3, HoldingFacts
      <3>5. Row(s, work[s].seq)' = m
        BY <3>2, <3>3, <3>4 DEF Row
      <3>6. pc'[s] = "reply" /\ messages' = messages
        BY <2>2 DEF SendFound, SendWinner, Goto, store, TypeOK
      <3> QED
        BY <3>2, <3>5, <3>6
    <2>3. CASE SendCommit(s)
      <3>1. pc'[s] = "reply" /\ work' = work
        BY <2>3 DEF SendCommit, Goto, TypeOK
      <3>2. Row(s, work[s].seq) \in messages'
        BY <2>3 DEF SendCommit
      <3>3. Row(s, work[s].seq)' = Row(s, work[s].seq)
        BY <3>1 DEF Row
      <3> QED
        BY <3>1, <3>2, <3>3
    <2>4. CASE MarkReadTarget(s)
      <3>1. work[s].seq \in Nat /\ lastSeq \in Nat
        BY DEF TypeOK, Work
      <3>2. ReadTarget(s) \in Nat /\ ReadTarget(s) <= lastSeq
        BY <3>1 DEF ReadTarget
      <3>3. work'[s].seq = ReadTarget(s) /\ work'[s].read = work[s].read
        BY <2>4, <3>2, HoldingFacts DEF MarkReadTarget
      <3>4. pc'[s] = "readCommit" /\ lastSeq' = lastSeq /\ ReadTarget(s) > work[s].read
        BY <2>4 DEF MarkReadTarget, Goto, store, TypeOK
      <3> QED
        BY <3>2, <3>3, <3>4
    <2>5. CASE MarkDeliveredTarget(s)
      <3>1. work[s].seq \in Nat /\ lastSeq \in Nat
        BY DEF TypeOK, Work
      <3>2. DeliveredTarget(s) \in Nat
        BY <3>1 DEF DeliveredTarget
      <3>3. work'[s].seq = DeliveredTarget(s) /\ work'[s].delivered = work[s].delivered
        BY <2>5, <3>2, HoldingFacts DEF MarkDeliveredTarget
      <3>4. pc'[s] = "deliveredCommit" /\ DeliveredTarget(s) > work[s].delivered
        BY <2>5 DEF MarkDeliveredTarget, Goto, TypeOK
      <3> QED
        BY <3>3, <3>4
    <2>6. CASE ~ \/ AllocateSeq(s) \/ SendFound(s) \/ SendWinner(s) \/ SendCommit(s)
                 \/ MarkReadTarget(s) \/ MarkDeliveredTarget(s)
      <3>1. pc'[s] \in {"idle", "check", "allocate", "reread", "readTarget",
                        "deliveredTarget"}
        BY <2>6 DEF Step, Start, Continue, Load, SendLoad, SendNew, SendConflict, Reply,
           MarkReadLoad, MarkDeliveredLoad, MarkReadSkip, MarkReadCommit, MarkDeliveredSkip, MarkDeliveredCommit,
           Abort, Goto, Finish, TypeOK
      <3> QED
        BY <3>1
    <2> QED
      BY <2>1, <2>2, <2>3, <2>4, <2>5, <2>6
  <1> QED
    BY <1>2, <1>3 DEF WorkInLog

\* Committed numbers stay distinct and without holes: only SendCommit adds a
\* row, the row lock makes its number the next one.
LEMMA GapFreeStep ==
  ASSUME TypeOK, GapFree, LockHeld, WorkInLog, NEW s \in Session, Step(s)
  PROVE  GapFree'
  <1>1. CASE SendCommit(s)
    <2>1. work[s].seq = lastSeq + 1
      BY <1>1 DEF SendCommit, Goto, WorkInLog
    <2>2. lastSeq' = lastSeq + 1 /\ messages' = messages \cup {Row(s, lastSeq + 1)}
      BY <1>1, <2>1 DEF SendCommit
    <2>3. Row(s, lastSeq + 1).seq = lastSeq + 1
      BY DEF Row
    <2>4. \A m \in messages : m.seq \in 1..lastSeq
      BY DEF GapFree
    <2>5. \A i \in 1..lastSeq' : \E m \in messages' : m.seq = i
      <3>1. \A i \in 1..lastSeq' : i \in 1..lastSeq \/ i = lastSeq + 1
        BY <2>2 DEF TypeOK
      <3> QED
        BY <2>2, <2>3, <3>1 DEF GapFree
    <2>6. \A m \in messages' : m.seq \in 1..lastSeq'
      BY <2>2, <2>3, <2>4 DEF TypeOK
    <2>7. \A m, n \in messages' : m.seq = n.seq => m = n
      <3>1. \A m \in messages : m.seq # lastSeq + 1
        BY <2>4 DEF TypeOK
      <3> QED
        BY <2>2, <2>3, <3>1 DEF GapFree
    <2> QED
      BY <2>5, <2>6, <2>7 DEF GapFree
  <1>2. CASE ~SendCommit(s)
    BY <1>2, Writers DEF store, MarkReadCommit, MarkDeliveredCommit, GapFree
  <1> QED
    BY <1>1, <1>2

\* The unique index refuses the second row of a client id.
LEMMA OncePerKeyStep ==
  ASSUME TypeOK, OncePerKey, NEW s \in Session, Step(s)
  PROVE  OncePerKey'
  <1>1. CASE SendCommit(s)
    <2>1. /\ messages' = messages \cup {Row(s, work[s].seq)}
          /\ Row(s, work[s].seq).sender = Owner[s]
          /\ Row(s, work[s].seq).key = work[s].key
      BY <1>1 DEF SendCommit, Row
    <2>2. \A m \in messages : ~(m.sender = Owner[s] /\ m.key = work[s].key /\ m.key # NoKey)
      BY <1>1 DEF SendCommit, Existing
    <2> QED
      BY <2>1, <2>2 DEF OncePerKey
  <1>2. CASE ~SendCommit(s)
    BY <1>2, Writers DEF store, MarkReadCommit, MarkDeliveredCommit, OncePerKey
  <1> QED
    BY <1>1, <1>2

\* Only Reply acknowledges, and what it holds is stored.
LEMMA AckedStep ==
  ASSUME TypeOK, AckedIsStored, WorkInLog, NEW s \in Session, Step(s)
  PROVE  AckedIsStored'
  <1>1. messages \subseteq messages'
    BY Writers DEF store, SendCommit, MarkReadCommit, MarkDeliveredCommit
  <1>2. CASE Reply(s)
    BY <1>1, <1>2 DEF Reply, Finish, Goto, WorkInLog, AckedIsStored
  <1>3. CASE ~Reply(s)
    <2>1. acked' = acked
      BY <1>3 DEF Step, Start, Continue, Load, SendLoad, SendFound, SendNew, AllocateSeq,
         SendCommit, SendConflict, SendWinner, MarkReadLoad, MarkReadSkip,
         MarkReadTarget, MarkReadCommit, MarkDeliveredLoad, MarkDeliveredSkip,
         MarkDeliveredTarget, MarkDeliveredCommit, Abort
    <2> QED
      BY <1>1, <2>1 DEF AckedIsStored
  <1> QED
    BY <1>2, <1>3

\* Read marks move to numbers that exist, and last_seq never goes back.
LEMMA ReadMarksStep ==
  ASSUME TypeOK, ReadWithinLog, WorkInLog, NEW s \in Session, Step(s)
  PROVE  ReadWithinLog'
  <1>0. /\ Owner[s] \in User /\ work[s].seq \in Nat /\ lastSeq \in Nat
        /\ lastRead \in [User -> Nat]
    BY OwnerAssumption DEF TypeOK, Work
  <1>1. CASE SendCommit(s)
    <2>1. lastSeq' = lastSeq + 1 /\ work[s].seq = lastSeq + 1
      BY <1>1 DEF SendCommit, Goto, WorkInLog
    <2> QED
      BY <1>0, <1>1, <2>1 DEF SendCommit, ReadWithinLog
  <1>2. CASE MarkReadCommit(s)
    <2>1. work[s].seq <= lastSeq /\ lastSeq' = lastSeq
      BY <1>2 DEF MarkReadCommit, Finish, Goto, WorkInLog
    <2> QED
      BY <1>0, <1>2, <2>1 DEF MarkReadCommit, ReadWithinLog
  <1>3. CASE UNCHANGED store \/ MarkDeliveredCommit(s)
    BY <1>3 DEF store, MarkDeliveredCommit, ReadWithinLog
  <1> QED
    BY <1>1, <1>2, <1>3, Writers

\* The inductive invariant holds in every reachable state.
THEOREM Invariance == Spec => []IInv
  <1>1. Init => IInv
    <2> SUFFICES ASSUME Init PROVE IInv
      OBVIOUS
    <2>1. TypeOK
      BY OwnerAssumption DEF Init, TypeOK, NoWork, Work
    <2>2. GapFree /\ OncePerKey /\ AckedIsStored /\ ReadWithinLog
      BY DEF Init, GapFree, OncePerKey, AckedIsStored, ReadWithinLog
    <2>3. LockHeld /\ WorkInLog
      BY NobodyAssumption DEF Init, LockHeld, WorkInLog
    <2> QED
      BY <2>1, <2>2, <2>3 DEF IInv
  <1>2. IInv /\ [Next]_vars => IInv'
    <2> SUFFICES ASSUME IInv, [Next]_vars PROVE IInv'
      OBVIOUS
    <2>1. CASE Next
      <3>1. PICK s \in Session : Step(s)
        BY <2>1 DEF Next, Step
      <3>2. TypeOK'
        BY <3>1, SendTypes, MarkTypes DEF IInv, Step, Start, Continue
      <3> QED
        BY <3>1, <3>2, LockStep, WorkStep, GapFreeStep, OncePerKeyStep, AckedStep,
           ReadMarksStep DEF IInv
    <2>2. CASE UNCHANGED vars
      BY <2>2 DEF vars, IInv, TypeOK, GapFree, OncePerKey, AckedIsStored,
         ReadWithinLog, LockHeld, WorkInLog, Row
    <2> QED
      BY <2>1, <2>2
  <1> QED
    BY <1>1, <1>2, PTL DEF Spec

\* Sequence numbers are unique and gap-free.
THEOREM SeqIsGapFree == Spec => []GapFree
  BY Invariance, PTL DEF IInv

\* A retried send never stores a second message.
THEOREM SendIsIdempotent == Spec => []OncePerKey
  BY Invariance, PTL DEF IInv

\* Nothing is acknowledged that is not stored.
THEOREM AcksAreStored == Spec => []AckedIsStored
  BY Invariance, PTL DEF IInv

\* The unread count is never negative, even when marks race.
THEOREM ReadMarksStayWithinLog == Spec => []ReadWithinLog
  BY Invariance, PTL DEF IInv

-----------------------------------------------------------------------------
\* People whose own requests do not overlap: their marks are monotone.

\* A step leaves the marks of everyone but its own user alone.
LEMMA OwnMarks ==
  ASSUME TypeOK, NEW s \in Session, Step(s), NEW u \in User, u # Owner[s]
  PROVE  lastRead'[u] = lastRead[u] /\ lastDelivered'[u] = lastDelivered[u]
  BY Writers, OwnerAssumption
     DEF store, SendCommit, MarkReadCommit, MarkDeliveredCommit, TypeOK

\* What a step does to the marks of its own user.
LEMMA OwnMarksStep ==
  ASSUME IInv, SerialInv, NEW s \in Session, Step(s), NEW u \in User, u = Owner[s],
         u \notin overlapped
  PROVE  /\ lastRead'[u] >= lastRead[u] /\ lastDelivered'[u] >= lastDelivered[u]
         /\ lastRead'[u] <= lastDelivered'[u]
         /\ SendCommit(s) => lastRead'[u] = work[s].seq
  <1>0. /\ work[s].seq \in Nat /\ work[s].read \in Nat /\ work[s].delivered \in Nat
        /\ lastRead \in [User -> Nat] /\ lastDelivered \in [User -> Nat]
        /\ lastSeq \in Nat
    BY DEF IInv, TypeOK, Work
  <1>1. lastRead[u] <= lastDelivered[u] /\ lastRead[u] <= lastSeq
    BY DEF SerialInv, ReadIsDelivered, IInv, ReadWithinLog
  <1>2. CASE SendCommit(s)
    <2>1. /\ work[s].seq = lastSeq + 1
          /\ work[s].read = lastRead[u] /\ work[s].delivered = lastDelivered[u]
      BY <1>2 DEF SendCommit, Goto, IInv, WorkInLog, SerialInv, LoadedIsCurrent, Busy
    <2>2. /\ lastRead'[u] = work[s].seq
          /\ lastDelivered'[u] = IF work[s].seq > work[s].delivered
                                   THEN work[s].seq ELSE lastDelivered[u]
      BY <1>0, <1>1, <1>2, <2>1 DEF SendCommit
    <2> QED
      BY <1>0, <1>1, <2>1, <2>2
  <1>3. CASE MarkReadCommit(s) /\ ~SendCommit(s)
    <2>1. /\ work[s].seq > work[s].read
          /\ work[s].read = lastRead[u] /\ work[s].delivered = lastDelivered[u]
      BY <1>3 DEF MarkReadCommit, Finish, Goto, IInv, WorkInLog, SerialInv, LoadedIsCurrent, Busy
    <2>2. /\ lastRead'[u] = work[s].seq
          /\ lastDelivered'[u] = IF work[s].seq > work[s].delivered
                                   THEN work[s].seq ELSE lastDelivered[u]
      BY <1>0, <1>3 DEF MarkReadCommit
    <2> QED
      BY <1>0, <1>3, <2>1, <2>2
  <1>4. CASE MarkDeliveredCommit(s) /\ ~SendCommit(s)
    <2>1. work[s].seq > work[s].delivered /\ work[s].delivered = lastDelivered[u]
      BY <1>4 DEF MarkDeliveredCommit, Finish, Goto, IInv, WorkInLog, SerialInv,
         LoadedIsCurrent, Busy
    <2>2. lastRead' = lastRead /\ lastDelivered'[u] = work[s].seq
      BY <1>0, <1>4 DEF MarkDeliveredCommit
    <2> QED
      BY <1>0, <1>1, <1>4, <2>1, <2>2
  <1>5. CASE UNCHANGED store /\ ~SendCommit(s)
    BY <1>0, <1>1, <1>5 DEF store
  <1> QED
    BY <1>2, <1>3, <1>4, <1>5, Writers

\* Who has overlapped stays noted; only the loads note anyone.
LEMMA OverlapStep ==
  ASSUME NEW s \in Session, Step(s)
  PROVE  overlapped \subseteq overlapped'
  BY DEF Step, Start, Continue, Load, SendLoad, SendFound, SendNew, AllocateSeq,
         SendCommit, SendConflict, SendWinner, Reply, MarkReadLoad, MarkReadSkip,
         MarkReadTarget, MarkReadCommit, MarkDeliveredLoad, MarkDeliveredSkip,
         MarkDeliveredTarget, MarkDeliveredCommit, Abort

\* A handler that is busy after its step was busy before, or has just loaded; and
\* what it holds of its caller's row is what it held, or the row.
LEMMA BusyStep ==
  ASSUME TypeOK, NEW s \in Session, Step(s), Busy(s)'
  PROVE  /\ UNCHANGED store
         /\ \/ /\ Busy(s)
               /\ work'[s].read = work[s].read /\ work'[s].delivered = work[s].delivered
            \/ /\ (\E t \in Session : Busy(t) /\ Owner[t] = Owner[s])
                    => Owner[s] \in overlapped'
               /\ work'[s].read = lastRead[Owner[s]]
               /\ work'[s].delivered = lastDelivered[Owner[s]]
  <1>0. pc'[s] \notin {"idle", "reply"}
    BY DEF Busy
  <1>1. UNCHANGED store
    BY <1>0, Writers DEF SendCommit, MarkReadCommit, MarkDeliveredCommit, Finish,
       Goto, TypeOK
  <1>2. CASE \/ \E k \in Key \cup {NoKey} : SendLoad(s, k)
             \/ \E n \in Named : MarkReadLoad(s, n) \/ MarkDeliveredLoad(s, n)
    <2>1. PICK to \in {"check", "readTarget", "deliveredTarget"},
               k \in Key \cup {NoKey}, n \in Nat : Load(s, to, k, n)
      BY <1>2, NamedAssumption DEF SendLoad, MarkReadLoad, MarkDeliveredLoad
    <2>2. work'[s] = Loaded(s, k, n)
      BY <2>1 DEF Load, TypeOK
    <2>3. work'[s].read = lastRead[Owner[s]] /\ work'[s].delivered = lastDelivered[Owner[s]]
      BY <2>2 DEF Loaded
    <2>4. (\E t \in Session : Busy(t) /\ Owner[t] = Owner[s]) => Owner[s] \in overlapped'
      BY <2>1 DEF Load
    <2> QED
      BY <1>1, <2>3, <2>4
  <1>3. CASE SendNew(s) \/ SendConflict(s)
    BY <1>1, <1>3 DEF SendNew, SendConflict, Goto, Busy
  <1>4. CASE AllocateSeq(s)
    <2>1. lastSeq + 1 \in Nat
      BY DEF TypeOK
    <2> QED
      BY <1>1, <1>4, <2>1, HoldingFacts DEF AllocateSeq, Goto, Busy
  <1>5. CASE MarkReadTarget(s) \/ MarkDeliveredTarget(s)
    <2>1. ReadTarget(s) \in Nat /\ DeliveredTarget(s) \in Nat
      BY DEF ReadTarget, DeliveredTarget, TypeOK, Work
    <2> QED
      BY <1>1, <1>5, <2>1, HoldingFacts DEF MarkReadTarget, MarkDeliveredTarget, Goto, Busy
  <1>6. CASE ~ \/ \E k \in Key \cup {NoKey} : SendLoad(s, k)
               \/ \E n \in Named : MarkReadLoad(s, n) \/ MarkDeliveredLoad(s, n)
               \/ SendNew(s) \/ SendConflict(s) \/ AllocateSeq(s)
               \/ MarkReadTarget(s) \/ MarkDeliveredTarget(s)
    <2>1. pc'[s] \in {"idle", "reply"}
      BY <1>6 DEF Step, Start, Continue, SendFound, SendCommit, SendWinner, Reply,
         MarkReadSkip, MarkReadCommit, MarkDeliveredSkip, MarkDeliveredCommit, Abort,
         Goto, Finish, TypeOK
    <2> QED
      BY <1>0, <2>1
  <1> QED
    BY <1>2, <1>3, <1>4, <1>5, <1>6

\* Requests of one person that come to overlap are noted.
LEMMA NotedStep ==
  ASSUME TypeOK, OverlapsNoted, NEW s \in Session, Step(s)
  PROVE  OverlapsNoted'
  <1> SUFFICES ASSUME NEW t \in Session, NEW v \in Session,
                      t # v, Owner[t] = Owner[v], Busy(t)', Busy(v)'
               PROVE  Owner[t] \in overlapped'
    BY DEF OverlapsNoted
  <1>1. \A x \in Session \ {s} : Busy(x)' => Busy(x)
    BY OwnStep DEF Busy
  <1>2. CASE Busy(t) /\ Busy(v)
    BY <1>2, OverlapStep DEF OverlapsNoted
  <1>3. CASE ~Busy(t)
    BY <1>1, <1>3, BusyStep
  <1>4. CASE ~Busy(v)
    BY <1>1, <1>4, BusyStep
  <1> QED
    BY <1>2, <1>3, <1>4

\* What a handler holds about its own user stays current.
LEMMA LoadedStep ==
  ASSUME IInv, OverlapsNoted, LoadedIsCurrent, NEW s \in Session, Step(s)
  PROVE  LoadedIsCurrent'
  <1>0. TypeOK /\ Owner \in [Session -> User]
    BY OwnerAssumption DEF IInv
  <1> SUFFICES ASSUME NEW t \in Session, Busy(t)', Owner[t] \notin overlapped'
               PROVE  /\ work'[t].read = lastRead'[Owner[t]]
                      /\ work'[t].delivered = lastDelivered'[Owner[t]]
    BY DEF LoadedIsCurrent
  <1>1. Owner[t] \notin overlapped
    BY OverlapStep
  <1>2. CASE t = s
    BY <1>0, <1>1, <1>2, BusyStep DEF LoadedIsCurrent, store
  <1>3. CASE t # s
    <2>1. Busy(t) /\ work'[t] = work[t]
      BY <1>0, <1>3, OwnStep DEF Busy
    <2>2. CASE Owner[t] # Owner[s]
      <3>1. Owner[t] \in User
        BY <1>0
      <3> QED
        BY <1>0, <1>1, <2>1, <2>2, <3>1, OwnMarks DEF LoadedIsCurrent
    <2>3. CASE Owner[t] = Owner[s]
      <3>1. ~Busy(s)
        BY <1>1, <1>3, <2>1, <2>3 DEF OverlapsNoted
      <3>2. UNCHANGED store
        BY <3>1, Writers DEF SendCommit, MarkReadCommit, MarkDeliveredCommit, Finish,
           Goto, Busy
      <3> QED
        BY <1>1, <2>1, <3>2 DEF LoadedIsCurrent, store
    <2> QED
      BY <2>2, <2>3
  <1> QED
    BY <1>2, <1>3

\* A person whose requests do not overlap reads only what was delivered and has
\* read what they sent.
LEMMA SerialStep ==
  ASSUME IInv, SerialInv, NEW s \in Session, Step(s)
  PROVE  SerialInv'
  <1>0. TypeOK /\ GapFree /\ Owner[s] \in User
    BY OwnerAssumption DEF IInv
  <1>1. OverlapsNoted' /\ LoadedIsCurrent' /\ overlapped \subseteq overlapped'
    BY <1>0, NotedStep, LoadedStep, OverlapStep DEF SerialInv
  <1>2. ReadIsDelivered'
    BY <1>0, <1>1, OwnMarks, OwnMarksStep DEF SerialInv, ReadIsDelivered
  <1>3. OwnMessagesRead'
    <2> SUFFICES ASSUME NEW m \in messages', m.sender \notin overlapped'
                 PROVE  m.seq <= lastRead'[m.sender]
      BY DEF OwnMessagesRead
    <2>1. CASE m \in messages
      <3>1. m.seq \in Nat /\ m.sender \in User /\ m.seq <= lastRead[m.sender]
        BY <1>0, <1>1, <2>1 DEF TypeOK, Message, SerialInv, OwnMessagesRead
      <3>2. lastRead[m.sender] \in Nat /\ lastRead'[m.sender] \in Nat
        BY <1>0, <3>1, SendTypes, MarkTypes DEF Step, Start, Continue, TypeOK
      <3>3. lastRead'[m.sender] >= lastRead[m.sender]
        BY <1>0, <1>1, <3>1, <3>2, OwnMarks, OwnMarksStep
      <3> QED
        BY <3>1, <3>2, <3>3
    <2>2. CASE m \notin messages
      <3>1. SendCommit(s) /\ m = Row(s, work[s].seq)
        BY <2>2, Writers DEF store, SendCommit, MarkReadCommit, MarkDeliveredCommit
      <3>2. m.seq = work[s].seq /\ m.sender = Owner[s] /\ work[s].seq \in Nat
        BY <1>0, <3>1 DEF Row, TypeOK, Work
      <3> QED
        BY <1>0, <1>1, <3>1, <3>2, OwnMarksStep
    <2> QED
      BY <2>1, <2>2
  <1> QED
    BY <1>1, <1>2, <1>3 DEF SerialInv

\* The invariant about requests that do not overlap holds throughout.
THEOREM SerialInvariance == Spec => []SerialInv
  <1>1. Init => SerialInv
    BY OwnerAssumption DEF Init, SerialInv, OverlapsNoted, LoadedIsCurrent, Busy,
       ReadIsDelivered, OwnMessagesRead
  <1>2. IInv /\ SerialInv /\ [Next]_vars => SerialInv'
    <2> SUFFICES ASSUME IInv, SerialInv, [Next]_vars PROVE SerialInv'
      OBVIOUS
    <2>1. CASE Next
      <3>1. PICK s \in Session : Step(s)
        BY <2>1 DEF Next, Step
      <3> QED
        BY <3>1, SerialStep
    <2>2. CASE UNCHANGED vars
      BY <2>2 DEF vars, SerialInv, OverlapsNoted, LoadedIsCurrent, Busy,
         ReadIsDelivered, OwnMessagesRead
    <2> QED
      BY <2>1, <2>2
  <1> QED
    BY <1>1, <1>2, Invariance, PTL DEF Spec

\* "Reading implies delivery" holds for everyone whose requests never overlapped; two
\* tabs of one person that overlap refute it (mark_read overwrites a stale comparison).
THEOREM ReadWasDelivered == Spec => []ReadIsDelivered
  BY SerialInvariance, PTL DEF SerialInv

\* And such a sender has always read their own messages.
THEOREM SendersHaveRead == Spec => []OwnMessagesRead
  BY SerialInvariance, PTL DEF SerialInv

\* The marks of such a person only advance; with two tabs that overlap the later
\* commit may write the lower mark.
THEOREM MarksOnlyAdvance == Spec => MarksAdvance
  <1>1. IInv /\ SerialInv /\ [Next]_vars => [MarksForward]_vars
    <2> SUFFICES ASSUME IInv, SerialInv, Next PROVE MarksForward
      OBVIOUS
    <2>1. PICK s \in Session : Step(s)
      BY DEF Next, Step
    <2>2. TypeOK /\ lastRead \in [User -> Nat] /\ lastDelivered \in [User -> Nat]
      BY DEF IInv, TypeOK
    <2> QED
      BY <2>1, <2>2, OwnMarks, OwnMarksStep DEF MarksForward
  <1> QED
    BY <1>1, SerialInvariance, Invariance, PTL DEF Spec, MarksAdvance

-----------------------------------------------------------------------------
\* MessageStore implements MessageLog: through the mapping Logged, every step of a
\* handler appends one message to the log, acknowledges a logged one, or changes
\* nothing.

\* Logged shows each stored row at its sequence number.
LEMMA LoggedRow ==
  IInv => \A m \in messages :
            /\ m.seq \in 1..lastSeq
            /\ Logged[m.seq] = [sender |-> m.sender, key |-> m.key]
  <1> SUFFICES ASSUME IInv, NEW m \in messages
               PROVE  /\ m.seq \in 1..lastSeq
                      /\ Logged[m.seq] = [sender |-> m.sender, key |-> m.key]
    OBVIOUS
  <1>1. m.seq \in 1..lastSeq
    BY DEF IInv, GapFree
  <1>2. (CHOOSE x \in messages : x.seq = m.seq) = m
    BY DEF IInv, GapFree
  <1> QED
    BY <1>1, <1>2 DEF Logged

\* Logged is a sequence of entries, as long as the counter says.
LEMMA LoggedIsSeq ==
  IInv => Logged \in Seq(Log!Entry) /\ Len(Logged) = lastSeq
  <1> SUFFICES ASSUME IInv
               PROVE  Logged \in Seq(Log!Entry) /\ Len(Logged) = lastSeq
    OBVIOUS
  <1>1. lastSeq \in Nat /\ messages \subseteq Message
    BY DEF IInv, TypeOK
  <1>2. ASSUME NEW i \in 1..lastSeq
        PROVE  Logged[i] \in Log!Entry
    <2>1. PICK m \in messages : m.seq = i
      BY DEF IInv, GapFree
    <2>2. m.sender \in User /\ m.key \in Key \cup {NoKey}
      BY <1>1, <2>1 DEF Message
    <2>3. Logged[i] = [sender |-> m.sender, key |-> m.key]
      BY <2>1, LoggedRow
    <2> QED
      BY <2>2, <2>3 DEF Log!Entry
  <1>3. Logged \in [1..lastSeq -> Log!Entry]
    BY <1>2 DEF Logged
  <1>4. Logged \in Seq(Log!Entry)
    BY <1>1, <1>3, SeqDef
  <1> QED
    BY <1>1, <1>3, <1>4, LenProperties

\* The same two facts about the state a step leads to.
LEMMA LoggedNext ==
  IInv' => /\ Logged' \in Seq(Log!Entry) /\ Len(Logged') = lastSeq'
           /\ \A m \in messages' :
                 Logged'[m.seq] = [sender |-> m.sender, key |-> m.key]
  <1>1. IInv' => (Logged \in Seq(Log!Entry) /\ Len(Logged) = lastSeq)'
    BY LoggedIsSeq, PTL
  <1>2. IInv' => (\A m \in messages :
            /\ m.seq \in 1..lastSeq
            /\ Logged[m.seq] = [sender |-> m.sender, key |-> m.key])'
    BY LoggedRow, PTL
  <1> QED
    BY <1>1, <1>2 DEF Log!Entry

\* The initial log is empty.
LEMMA InitRefines == Init => Log!Init
  BY DEF Init, Log!Init, Logged

\* A commit is a Post of the message it stores.
LEMMA CommitPosts ==
  ASSUME IInv, IInv', NEW s \in Session, SendCommit(s)
  PROVE  Log!Post(Owner[s], work[s].key)
  <1> DEFINE e == [sender |-> Owner[s], key |-> work[s].key]
  <1>1. /\ lastSeq \in Nat /\ work[s].seq = lastSeq + 1 /\ lastSeq' = lastSeq + 1
        /\ messages' = messages \cup {Row(s, lastSeq + 1)}
    BY DEF SendCommit, Goto, IInv, WorkInLog, TypeOK
  <1>2. ASSUME work[s].key # NoKey
        PROVE  \A i \in DOMAIN Logged : Logged[i] # e
    <2> SUFFICES ASSUME NEW i \in DOMAIN Logged, Logged[i] = e
                 PROVE  FALSE
      OBVIOUS
    <2>1. PICK m \in messages : m.seq = i
      BY DEF IInv, GapFree, Logged
    <2>2. [sender |-> m.sender, key |-> m.key] = [sender |-> Owner[s], key |-> work[s].key]
      BY <2>1, LoggedRow
    <2>3. m.sender = Owner[s] /\ m.key = work[s].key
      BY <2>2
    <2> QED
      BY <1>2, <2>1, <2>3 DEF SendCommit, Existing
  <1>3. e \in Log!Entry
    BY OwnerAssumption DEF IInv, TypeOK, Work, Log!Entry
  <1>4. Logged' = Append(Logged, e)
    <2>1. /\ Logged \in Seq(Log!Entry) /\ Len(Logged) = lastSeq
          /\ Logged' \in Seq(Log!Entry) /\ Len(Logged') = lastSeq + 1
      BY <1>1, LoggedIsSeq, LoggedNext
    <2>2. /\ Append(Logged, e) \in Seq(Log!Entry) /\ Len(Append(Logged, e)) = lastSeq + 1
          /\ \A i \in 1..lastSeq : Append(Logged, e)[i] = Logged[i]
          /\ Append(Logged, e)[lastSeq + 1] = e
      BY <1>3, <2>1, AppendProperties
    <2>3. ASSUME NEW i \in 1..lastSeq
          PROVE  Logged'[i] = Logged[i]
      <3>1. PICK m \in messages : m.seq = i
        BY DEF IInv, GapFree
      <3> QED
        BY <1>1, <3>1, LoggedRow, LoggedNext
    <2>4. Logged'[lastSeq + 1] = e
      <3> DEFINE m == Row(s, lastSeq + 1)
      <3>1. m \in messages'
        BY <1>1
      <3>2. m.seq = lastSeq + 1 /\ m.sender = Owner[s] /\ m.key = work[s].key
        BY DEF Row
      <3>3. Logged'[m.seq] = [sender |-> m.sender, key |-> m.key]
        BY <3>1, LoggedNext
      <3> QED
        BY <3>2, <3>3
    <2>5. \A i \in 1..Len(Logged') : Logged'[i] = Append(Logged, e)[i]
      BY <1>1, <2>1, <2>2, <2>3, <2>4
    <2> QED
      BY <2>1, <2>2, <2>5, SeqEqual
  <1> QED
    BY <1>2, <1>4 DEF Log!Post, SendCommit

\* A reply is an Acknowledge of the row the handler holds.
LEMMA ReplyAcknowledges ==
  ASSUME IInv, NEW s \in Session, Reply(s)
  PROVE  Log!Acknowledge(work[s].seq)
  <1>1. /\ Row(s, work[s].seq) \in messages
        /\ acked' = acked \cup {Row(s, work[s].seq)} /\ UNCHANGED store
    BY DEF Reply, Finish, Goto, IInv, WorkInLog
  <1>2. work[s].seq \in 1..lastSeq
    BY <1>1, LoggedRow DEF Row
  <1>3. Logged[work[s].seq] = [sender |-> Owner[s], key |-> work[s].key]
    BY <1>1, LoggedRow DEF Row
  <1>4. Logged' = Logged /\ DOMAIN Logged = 1..lastSeq
    BY <1>1 DEF Logged, store
  <1> QED
    BY <1>1, <1>2, <1>3, <1>4 DEF Log!Acknowledge, Row

\* Every handler step is a step of the abstract log, or none.
LEMMA StepRefines ==
  ASSUME IInv, IInv', NEW s \in Session, Step(s)
  PROVE  [Log!Next]_(Log!vars)
  <1>0. Owner[s] \in User /\ work[s].key \in Key \cup {NoKey}
    BY OwnerAssumption DEF IInv, TypeOK, Work
  <1>1. CASE SendCommit(s)
    BY <1>0, <1>1, CommitPosts DEF Log!Next
  <1>2. CASE Reply(s)
    BY <1>2, ReplyAcknowledges DEF Log!Next, Log!Acknowledge
  <1>3. CASE ~SendCommit(s) /\ ~Reply(s)
    <2>1. messages' = messages /\ lastSeq' = lastSeq
      BY <1>3, Writers DEF store, MarkReadCommit, MarkDeliveredCommit
    <2>2. acked' = acked
      BY <1>3 DEF Step, Start, Continue, Load, SendLoad, SendFound, SendNew, AllocateSeq,
         SendConflict, SendWinner, MarkReadLoad, MarkReadSkip,
         MarkReadTarget, MarkReadCommit, MarkDeliveredLoad, MarkDeliveredSkip,
         MarkDeliveredTarget, MarkDeliveredCommit, Abort
    <2> QED
      BY <2>1, <2>2 DEF Logged, Log!vars
  <1> QED
    BY <1>1, <1>2, <1>3

\* The server implements the append-only log of MessageLog: what clients are
\* told and what is stored can be explained without handlers or transactions.
THEOREM StoreImplementsLog == Spec => ImplementsLog
  <1>1. IInv /\ IInv' /\ [Next]_vars => [Log!Next]_(Log!vars)
    <2> SUFFICES ASSUME IInv, IInv', [Next]_vars PROVE [Log!Next]_(Log!vars)
      OBVIOUS
    <2>1. CASE Next
      <3>1. PICK s \in Session : Step(s)
        BY <2>1 DEF Next, Step
      <3> QED
        BY <3>1, StepRefines
    <2>2. CASE UNCHANGED vars
      BY <2>2 DEF vars, Logged, Log!vars
    <2> QED
      BY <2>1, <2>2
  <1> QED
    BY <1>1, InitRefines, Invariance, PTL DEF Spec, ImplementsLog, Log!Spec
=============================================================================
