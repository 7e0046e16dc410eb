------------------------ MODULE GroupMembershipProofs ------------------------
(***************************************************************************)
(* Proofs about GroupMembership, for any number of users and requests:     *)
(* one row for each member, texts of members only, and what a request      *)
(* that meets no other one can rely on.                                    *)
(***************************************************************************)
EXTENDS GroupMembership, TLAPS

-----------------------------------------------------------------------------
\* Type correctness.

LEMMA NoWorkType == NoWork \in Work
  BY CreatorAssumption DEF NoWork, Work

\* The records that requests begin with, and go on to announce with.
LEMMA BeginTypes ==
  ASSUME NEW a \in User, NEW T \in SUBSET User, NEW R \in SUBSET MemberRow
  PROVE  /\ [NoWork EXCEPT !.actor = a] \in Work
         /\ [NoWork EXCEPT !.actor = a, !.targets = T] \in Work
         /\ [NoWork EXCEPT !.actor = a, !.targets = T, !.seen = R] \in Work
         /\ [NoWork EXCEPT !.actor = a, !.me = R, !.audience = T] \in Work
  BY CreatorAssumption DEF NoWork, Work

\* A promotion changes the role only.
LEMMA PromotedFacts ==
  ASSUME NEW q \in MemberRow
  PROVE  /\ Promoted(q) \in MemberRow
         /\ Promoted(q).user = q.user /\ Promoted(q).role = "admin"
  BY DEF Promoted, MemberRow, Role

\* What a removal notes of its target, and of those it leaves behind.
LEMMA TargetingFacts ==
  ASSUME NEW w \in Work, NEW v \in MemberRow
  PROVE  /\ Targeting(w, v) \in Work
         /\ Targeting(w, v).seen = w.seen \cup {v} /\ Targeting(w, v).victim = {v}
         /\ Targeting(w, v).targets = w.targets /\ Targeting(w, v).heir = w.heir
  BY DEF Targeting, Work

LEMMA LeavingFacts ==
  ASSUME NEW w \in Work, NEW T \in SUBSET User, NEW H \in SUBSET MemberRow
  PROVE  /\ Leaving(w, T, H) \in Work
         /\ Leaving(w, T, H).seen = w.seen /\ Leaving(w, T, H).victim = w.victim
         /\ Leaving(w, T, H).targets = w.targets /\ Leaving(w, T, H).heir = H
  BY DEF Leaving, Work

LEMMA AsSeenType ==
  ASSUME NEW R \in SUBSET MemberRow, NEW Q \in SUBSET MemberRow
  PROVE  AsSeen(R, Q) \subseteq MemberRow
  BY DEF AsSeen

\* The fields of a request are what they are meant to be.
LEMMA WorkFields ==
  ASSUME TypeOK, NEW s \in Session
  PROVE  /\ work[s] \in Work
         /\ work[s].actor \in User /\ work[s].targets \subseteq User
         /\ work[s].seen \subseteq MemberRow /\ work[s].me \subseteq MemberRow
         /\ work[s].victim \subseteq MemberRow /\ work[s].heir \subseteq MemberRow
         /\ work[s].seq \in Nat /\ work[s].audience \subseteq User
  BY DEF TypeOK, Work

LEMMA GotoTypes ==
  ASSUME TypeOK, NEW s \in Session, NEW from, NEW to \in Step, Goto(s, from, to)
  PROVE  pc' \in [Session -> Step] /\ alone' \in [Session -> BOOLEAN]
  BY DEF TypeOK, Goto

LEMMA QuietType == Quiet \in Event
  BY DEF Quiet, Event

\* A step of a removal keeps the types.
LEMMA RemoveTypes ==
  ASSUME TypeOK, NEW s \in Session,
         \/ \E a, t \in User : RemoveLoad(s, a, t)
         \/ RemoveAuth(s) \/ RemoveTarget(s) \/ RemoveRest(s) \/ RemoveCommit(s)
  PROVE  TypeOK'
  <1> USE NoWorkType, WorkFields, QuietType DEF TypeOK
  <1>1. ASSUME NEW a \in User, NEW t \in User, RemoveLoad(s, a, t) PROVE TypeOK'
    <2>1. [NoWork EXCEPT !.actor = a, !.targets = {t}, !.seen = rows] \in Work
      BY BeginTypes
    <2>2. pc' \in [Session -> Step] /\ alone' \in [Session -> BOOLEAN]
      BY <1>1, GotoTypes DEF RemoveLoad, Step
    <2> QED
      BY <1>1, <2>1, <2>2 DEF RemoveLoad
  <1>2. CASE RemoveAuth(s)
    <2>1. PICK me \in AsSeen(work[s].seen, RowOf(work[s].actor)) :
            work' = [work EXCEPT ![s].seen = @ \cup {me}]
      BY <1>2 DEF RemoveAuth
    <2>2. me \in MemberRow
      BY <2>1, AsSeenType DEF RowOf
    <2>3. work' \in [Session -> Work]
      BY <2>1, <2>2 DEF Work
    <2>4. pc' \in [Session -> Step] /\ alone' \in [Session -> BOOLEAN]
      BY <1>2, GotoTypes DEF RemoveAuth, Step
    <2> QED
      BY <1>2, <2>3, <2>4 DEF RemoveAuth
  <1>3. CASE RemoveTarget(s)
    <2>1. PICK t \in work[s].targets : \E v \in AsSeen(work[s].seen, RowOf(t)) :
            work' = [work EXCEPT ![s] = Targeting(@, v)]
      BY <1>3 DEF RemoveTarget
    <2>0. PICK v \in AsSeen(work[s].seen, RowOf(t)) :
            work' = [work EXCEPT ![s] = Targeting(@, v)]
      BY <2>1
    <2>2. v \in MemberRow
      BY <2>0, AsSeenType DEF RowOf
    <2>3. work' \in [Session -> Work]
      <3>1. Targeting(work[s], v) \in Work
        BY <2>2, TargetingFacts
      <3> QED
        BY <2>0, <3>1
    <2>4. pc' \in [Session -> Step] /\ alone' \in [Session -> BOOLEAN]
      BY <1>3, GotoTypes DEF RemoveTarget, Step
    <2> QED
      BY <1>3, <2>3, <2>4 DEF RemoveTarget
  <1>4. CASE RemoveRest(s)
    <2>0. Rest(s) \subseteq MemberRow
      BY AsSeenType DEF Rest
    <2>1. {r.user : r \in Rest(s)} \subseteq User /\ Heirs(s) \subseteq MemberRow
      BY <2>0 DEF Heirs, MemberRow
    <2>2. work' \in [Session -> Work]
      <3>1. PICK H \in IF Heirs(s) = {} THEN {{}} ELSE {{h} : h \in Heirs(s)} :
              work' = [work EXCEPT ![s] = Leaving(@, {r.user : r \in Rest(s)}, H)]
        BY <1>4 DEF RemoveRest
      <3>2. H \in SUBSET MemberRow
        BY <2>1
      <3>3. Leaving(work[s], {r.user : r \in Rest(s)}, H) \in Work
        BY <2>1, <3>2, LeavingFacts
      <3> QED
        BY <3>1, <3>3
    <2>3. pc' \in [Session -> Step] /\ alone' \in [Session -> BOOLEAN]
      BY <1>4, GotoTypes DEF RemoveRest, Step
    <2> QED
      BY <1>4, <2>2, <2>3 DEF RemoveRest
  <1>5. CASE RemoveCommit(s)
    <2>1. pc' \in [Session -> Step] /\ alone' \in [Session -> BOOLEAN]
      BY <1>5, GotoTypes DEF RemoveCommit, Finish, Step
    <2>2. work' \in [Session -> Work]
      <3>1. [NoWork EXCEPT !.actor = work[s].actor] \in Work
        BY BeginTypes
      <3> QED
        BY <1>5, <3>1 DEF RemoveCommit, Finish
    <2>3. rows' \subseteq MemberRow
      BY <1>5, PromotedFacts DEF RemoveCommit
    <2>4. event' \in Event
      <3>1. {v.user : v \in work[s].victim} \subseteq User
        BY DEF MemberRow
      <3> QED
        BY <1>5, <3>1 DEF RemoveCommit, Event
    <2> QED
      BY <1>5, <2>1, <2>2, <2>3, <2>4 DEF RemoveCommit
  <1> QED
    BY <1>1, <1>2, <1>3, <1>4, <1>5

\* A step of an addition or an announcement.
LEMMA AddTypes ==
  ASSUME TypeOK, NEW s \in Session,
         \/ \E a \in User, T \in SUBSET User \ {{}} : AddAuth(s, a, T)
         \/ AddLoad(s) \/ AddCheck(s) \/ AddCommit(s)
         \/ Announce(s) \/ AnnounceCommit(s) \/ AnnounceFanOut(s)
  PROVE  TypeOK'
  <1> USE NoWorkType, WorkFields, QuietType DEF TypeOK
  <1>0. pc' \in [Session -> Step] /\ alone' \in [Session -> BOOLEAN]
    BY GotoTypes DEF AddAuth, AddLoad, AddCheck, AddCommit, AddRows, Announce, AnnounceCommit,
                     AnnounceFanOut, Finish, Step
  <1>m. MembersNow \subseteq User
    BY DEF MembersNow, MemberRow
  <1>1. ASSUME NEW a \in User, NEW T \in SUBSET User \ {{}}, AddAuth(s, a, T) PROVE TypeOK'
    <2>1. [NoWork EXCEPT !.actor = a, !.targets = T] \in Work
      BY BeginTypes
    <2> QED
      BY <1>0, <1>1, <2>1 DEF AddAuth
  <1>2. CASE AddLoad(s)
    <2>1. work' \in [Session -> Work]
      BY <1>2 DEF AddLoad, Work
    <2> QED
      BY <1>0, <1>2, <2>1 DEF AddLoad
  <1>3. CASE AddCheck(s)
    <2>1. work' \in [Session -> Work]
      BY <1>3 DEF AddCheck, Work
    <2> QED
      BY <1>0, <1>3, <2>1 DEF AddCheck
  <1>4. CASE AddCommit(s)
    <2>1. [NoWork EXCEPT !.actor = work[s].actor] \in Work
      BY BeginTypes
    <2>2. \A u \in User : NewRow(u) \in MemberRow
      BY DEF NewRow, MemberRow, Role
    <2>3. event' \in Event
      BY <1>4 DEF AddCommit, AddRows, Event
    <2> QED
      BY <1>0, <1>4, <2>1, <2>2, <2>3 DEF AddCommit, AddRows
  <1>5. CASE Announce(s)
    <2>1. RowOf(work[s].actor) \subseteq MemberRow
      BY DEF RowOf
    <2>2. work' \in [Session -> Work]
      BY <1>5, <2>1 DEF Announce, Work
    <2> QED
      BY <1>0, <1>5, <2>2 DEF Announce
  <1>6. CASE AnnounceCommit(s)
    BY <1>0, <1>6 DEF AnnounceCommit
  <1>7. CASE AnnounceFanOut(s)
    <2>1. event' \in Event
      BY <1>7, <1>m DEF AnnounceFanOut, Event
    <2> QED
      BY <1>0, <1>7, <2>1 DEF AnnounceFanOut, Finish
  <1> QED
    BY <1>1, <1>2, <1>3, <1>4, <1>5, <1>6, <1>7

\* A step of a send, or a failure.
LEMMA SendTypes ==
  ASSUME TypeOK, NEW s \in Session,
         \/ \E a \in User : SendLoad(s, a)
         \/ SendCommit(s) \/ SendFanOut(s) \/ Abort(s)
  PROVE  TypeOK'
  <1> USE NoWorkType, WorkFields, QuietType DEF TypeOK
  <1>0. pc' \in [Session -> Step] /\ alone' \in [Session -> BOOLEAN]
    BY GotoTypes DEF SendLoad, SendCommit, StoreText, SendFanOut, PushText, Abort, Finish, Step
  <1>1. ASSUME NEW a \in User, SendLoad(s, a) PROVE TypeOK'
    <2>1. MembersNow \subseteq User /\ RowOf(a) \subseteq MemberRow
      BY DEF MembersNow, MemberRow, RowOf
    <2>2. [NoWork EXCEPT !.actor = a, !.me = RowOf(a), !.audience = MembersNow] \in Work
      BY <2>1, BeginTypes
    <2> QED
      BY <1>0, <1>1, <2>2 DEF SendLoad
  <1>2. CASE SendCommit(s)
    <2>1. work' \in [Session -> Work] /\ event' \in Event
      BY <1>2 DEF SendCommit, StoreText, Work, Event
    <2> QED
      BY <1>0, <1>2, <2>1 DEF SendCommit, StoreText
  <1>3. CASE SendFanOut(s)
    <2>1. event' \in Event
      BY <1>3 DEF SendFanOut, PushText, Event
    <2> QED
      BY <1>0, <1>3, <2>1 DEF SendFanOut, PushText, Finish
  <1>4. CASE Abort(s)
    BY <1>0, <1>4 DEF Abort, Finish
  <1> QED
    BY <1>1, <1>2, <1>3, <1>4

LEMMA TypesBegin == Init => TypeOK
  <1> SUFFICES ASSUME Init PROVE TypeOK
    OBVIOUS
  <1>1. rows \subseteq MemberRow /\ joins \in [User -> Nat] /\ lastSeq \in Nat
    BY CreatorAssumption DEF Init, MemberRow, Role
  <1> QED
    BY <1>1, NoWorkType, QuietType DEF Init, TypeOK, Step

LEMMA TypesKept == TypeOK /\ [Next]_vars => TypeOK'
  <1>1. TypeOK /\ UNCHANGED vars => TypeOK'
    BY DEF vars, TypeOK
  <1> QED
    BY <1>1, RemoveTypes, AddTypes, SendTypes DEF Next

THEOREM TypeCorrect == Spec => []TypeOK
  BY TypesBegin, TypesKept, PTL DEF Spec

-----------------------------------------------------------------------------
\* One row for each member.

\* A removal keeps rows of the users it does not remove, and adds none.
LEMMA RemoveCommitRows ==
  ASSUME TypeOK, NEW s \in Session, RemoveCommit(s)
  PROVE  /\ \A q \in rows' : \E r \in rows :
              /\ \A v \in work[s].victim : ~Same(r, v)
              /\ q = IF \E h \in work[s].heir : Same(r, h) THEN Promoted(r) ELSE r
              /\ q.user = r.user
         /\ \A r \in rows : (\A v \in work[s].victim : ~Same(r, v)) =>
              (IF \E h \in work[s].heir : Same(r, h) THEN Promoted(r) ELSE r) \in rows'
  BY PromotedFacts DEF RemoveCommit, TypeOK

LEMMA OneRowKept ==
  ASSUME TypeOK, OneRowEach, [Next]_vars
  PROVE  OneRowEach'
  <1>1. CASE rows' = rows
    BY <1>1 DEF OneRowEach
  <1>2. ASSUME NEW s \in Session, RemoveCommit(s) PROVE OneRowEach'
    <2> SUFFICES ASSUME NEW p \in rows', NEW q \in rows', p.user = q.user PROVE p = q
      BY DEF OneRowEach
    <2>1. PICK a \in rows : /\ p.user = a.user
                            /\ p = IF \E h \in work[s].heir : Same(a, h) THEN Promoted(a) ELSE a
      BY <1>2, RemoveCommitRows
    <2>2. PICK b \in rows : /\ q.user = b.user
                            /\ q = IF \E h \in work[s].heir : Same(b, h) THEN Promoted(b) ELSE b
      BY <1>2, RemoveCommitRows
    <2>3. a = b
      BY <2>1, <2>2 DEF OneRowEach
    <2> QED
      BY <2>1, <2>2, <2>3
  <1>3. ASSUME NEW s \in Session, AddCommit(s) PROVE OneRowEach'
    <2>1. \A u \in User : NewRow(u).user = u
      BY DEF NewRow
    <2>2. \A p, q \in User : NewRow(p).user = NewRow(q).user => NewRow(p) = NewRow(q)
      BY <2>1
    <2>3. \A u \in work[s].targets : u \in User /\ \A r \in rows : r.user # u
      BY <1>3, WorkFields DEF AddCommit, MembersNow
    <2>4. rows' = rows \cup {NewRow(u) : u \in work[s].targets}
      BY <1>3 DEF AddCommit, AddRows
    <2> QED
      BY <2>1, <2>2, <2>3, <2>4 DEF OneRowEach
  <1> QED
    BY <1>1, <1>2, <1>3 DEF Next, vars, RemoveLoad, RemoveAuth, RemoveTarget, RemoveRest,
       AddAuth, AddLoad, AddCheck, Announce, AnnounceCommit, AnnounceFanOut,
       SendLoad, SendCommit, StoreText, SendFanOut, PushText, Abort

\* Nobody is in the group twice, however often two admins add the same person.
THEOREM MembersHaveOneRow == Spec => []OneRowEach
  <1>1. Init => OneRowEach
    BY DEF Init, OneRowEach
  <1>2. TypeOK /\ OneRowEach /\ [Next]_vars => OneRowEach'
    BY OneRowKept
  <1> QED
    BY <1>1, <1>2, TypeCorrect, PTL DEF Spec

-----------------------------------------------------------------------------
\* Texts are of members.

\* A send that is about to commit holds a row of its author.
SenderLoaded ==
  \A s \in Session : pc[s] = "sendCommit" =>
    work[s].me # {} /\ \A r \in work[s].me : r.user = work[s].actor

LEMMA SenderKept ==
  ASSUME TypeOK, SenderLoaded, [Next]_vars
  PROVE  SenderLoaded'
  <1>1. CASE UNCHANGED vars
    BY <1>1 DEF vars, SenderLoaded
  <1>2. ASSUME NEW s \in Session, pc' = [pc EXCEPT ![s] = pc'[s]], pc'[s] # "sendCommit",
               \A t \in Session \ {s} : work'[t] = work[t]
        PROVE  SenderLoaded'
    BY <1>2 DEF SenderLoaded, TypeOK
  <1>3. ASSUME NEW s \in Session, NEW a \in User, SendLoad(s, a) PROVE SenderLoaded'
    <2>1. work'[s].me = RowOf(a) /\ work'[s].actor = a
      BY <1>3 DEF SendLoad, TypeOK, NoWork
    <2> QED
      BY <1>3, <2>1 DEF SendLoad, Goto, TypeOK, SenderLoaded, RowOf
  <1>4. ASSUME NEW s \in Session,
               \/ \E a, t \in User : RemoveLoad(s, a, t)
               \/ RemoveAuth(s) \/ RemoveTarget(s) \/ RemoveRest(s) \/ RemoveCommit(s)
               \/ \E a \in User, T \in SUBSET User \ {{}} : AddAuth(s, a, T)
               \/ AddLoad(s) \/ AddCheck(s) \/ AddCommit(s)
               \/ Announce(s) \/ AnnounceCommit(s) \/ AnnounceFanOut(s)
               \/ SendCommit(s) \/ SendFanOut(s) \/ Abort(s)
        PROVE  SenderLoaded'
    <2>1. pc' = [pc EXCEPT ![s] = pc'[s]] /\ pc'[s] # "sendCommit"
      BY <1>4 DEF TypeOK, Goto, Finish, RemoveLoad, RemoveAuth, RemoveTarget, RemoveRest,
         RemoveCommit, AddAuth, AddLoad, AddCheck, AddCommit, AddRows, Announce, AnnounceCommit,
         AnnounceFanOut, SendCommit, StoreText, SendFanOut, PushText, Abort
    <2>2. \A t \in Session \ {s} : work'[t] = work[t]
      BY <1>4 DEF TypeOK, Finish, RemoveLoad, RemoveAuth, RemoveTarget, RemoveRest,
         RemoveCommit, AddAuth, AddLoad, AddCheck, AddCommit, AddRows, Announce, AnnounceCommit,
         AnnounceFanOut, SendCommit, StoreText, SendFanOut, PushText, Abort
    <2> QED
      BY <1>2, <2>1, <2>2
  <1> QED
    BY <1>1, <1>3, <1>4 DEF Next

\* The steps that show nothing to the outside, and what each of the others shows.
Silent(s) ==
  \/ \E a, t \in User : RemoveLoad(s, a, t)
  \/ RemoveAuth(s) \/ RemoveTarget(s) \/ RemoveRest(s)
  \/ \E a \in User, T \in SUBSET User \ {{}} : AddAuth(s, a, T)
  \/ AddLoad(s) \/ AddCheck(s) \/ Announce(s) \/ AnnounceCommit(s)
  \/ \E a \in User : SendLoad(s, a)
  \/ Abort(s)

LEMMA Steps ==
  ASSUME Next
  PROVE  \E s \in Session : \/ Silent(s) \/ RemoveCommit(s) \/ AddCommit(s)
                            \/ AnnounceFanOut(s) \/ SendCommit(s) \/ SendFanOut(s)
  BY DEF Next, Silent

LEMMA EventKinds ==
  ASSUME NEW s \in Session
  PROVE  /\ Silent(s) => event'.kind = "none"
         /\ RemoveCommit(s) => event'.kind = "leave"
         /\ AddCommit(s) => event'.kind = "join"
         /\ AnnounceFanOut(s) \/ SendFanOut(s) => event'.kind = "push"
         /\ SendCommit(s) => event'.kind = "text"
  <1>1. Quiet.kind = "none"
    BY DEF Quiet
  <1>2. Silent(s) => event' = Quiet
    BY DEF Silent, RemoveLoad, RemoveAuth, RemoveTarget, RemoveRest, AddAuth, AddLoad,
           AddCheck, Announce, AnnounceCommit, SendLoad, Abort
  <1>3. RemoveCommit(s) => event'.kind = "leave"
    BY DEF RemoveCommit
  <1>4. AddCommit(s) => event'.kind = "join"
    BY DEF AddCommit, AddRows
  <1>5. AnnounceFanOut(s) \/ SendFanOut(s) => event'.kind = "push"
    BY DEF AnnounceFanOut, SendFanOut, PushText
  <1>6. SendCommit(s) => event'.kind = "text"
    BY DEF SendCommit, StoreText
  <1> QED
    BY <1>1, <1>2, <1>3, <1>4, <1>5, <1>6

\* A text is stored with its author's row, so the author is a member then.
LEMMA TextsOfMembers ==
  ASSUME TypeOK, SenderLoaded, Next
  PROVE  PostStored
  <1> SUFFICES ASSUME event'.kind = "text" PROVE event'.who \subseteq MembersNow
    BY DEF PostStored
  <1>1. PICK s \in Session : SendCommit(s)
    BY Steps, EventKinds
  <1>2. PICK r \in work[s].me : r.user = work[s].actor /\ Stored(r)
    BY <1>1 DEF SendCommit, StoreText, Goto, SenderLoaded
  <1>3. work[s].actor \in MembersNow
    BY <1>2 DEF Stored, Same, MembersNow
  <1> QED
    BY <1>1, <1>3 DEF SendCommit, StoreText

\* send_message asks for the membership once, at the start; still no text of somebody
\* who is not a member is ever stored.
THEOREM OnlyMembersPost == Spec => MembersOnlyPost
  <1>1. Init => SenderLoaded
    BY DEF Init, SenderLoaded
  <1>2. TypeOK /\ SenderLoaded /\ [Next]_vars => SenderLoaded'
    BY SenderKept
  <1>3. TypeOK /\ SenderLoaded /\ Next => PostStored
    BY TextsOfMembers
  <1> QED
    BY <1>1, <1>2, <1>3, TypeCorrect, PTL DEF Spec, MembersOnlyPost
-----------------------------------------------------------------------------
\* What a request that has met no other one holds is what the database has.

Removing == {"removeAuth", "removeTarget", "removeRest", "removeCommit"}
Others(s) == {r \in rows : r.user \notin work[s].targets}

\* All other requests are over or not begun.
OthersIdle(s) == pc[s] # "idle" => \A t \in Session \ {s} : pc[t] = "idle"

SeenIsCurrent(s) ==
  pc[s] \in Removing => work[s].seen = rows /\ \E t \in User : work[s].targets = {t}

VictimIsCurrent(s) ==
  pc[s] \in {"removeRest", "removeCommit"} =>
    /\ work[s].victim # {}
    /\ work[s].victim = {r \in rows : r.user \in work[s].targets}

\* An heir has been picked, of those who stay, if the last admin goes.
HeirIsCurrent(s) ==
  /\ pc[s] \in {"removeAuth", "removeTarget", "removeRest"} => work[s].heir = {}
  /\ pc[s] = "removeCommit" =>
       /\ work[s].heir \subseteq Others(s)
       /\ (\A r \in Others(s) : r.role # "admin") /\ (\E v \in work[s].victim : v.role = "admin")
            => work[s].heir # {} \/ Others(s) = {}

SeqIsCurrent(s) == pc[s] \in {"addCheck", "addCommit"} => work[s].seq = lastSeq

AudienceIsCurrent(s) == pc[s] \in {"sendCommit", "sendFanOut"} => work[s].audience = MembersNow

Current(s) ==
  /\ OthersIdle(s) /\ SeenIsCurrent(s) /\ VictimIsCurrent(s) /\ HeirIsCurrent(s)
  /\ SeqIsCurrent(s) /\ AudienceIsCurrent(s)

AloneIsCurrent == \A s \in Session : alone[s] => Current(s)

AInv == TypeOK /\ OneRowEach /\ AloneIsCurrent

\* A query of a session that holds just the rows there are returns what it matches.
LEMMA AsSeenCurrent ==
  ASSUME OneRowEach, NEW Q \in SUBSET rows
  PROVE  AsSeen(rows, Q) = Q
  BY DEF OneRowEach, AsSeen, Same

\* Whoever is alone after a step of s is s, or has no request.
LEMMA StepsOfOthers ==
  ASSUME TypeOK, AloneIsCurrent, NEW s \in Session, NEW from, NEW to,
         Goto(s, from, to), from # "idle" \/ to # "idle",
         NEW t \in Session, t # s, alone'[t]
  PROVE  pc'[t] = "idle"
  BY DEF TypeOK, AloneIsCurrent, Current, OthersIdle, Goto

LEMMA IdleIsCurrent ==
  ASSUME NEW t \in Session, pc'[t] = "idle"
  PROVE  Current(t)'
  BY DEF Current, OthersIdle, SeenIsCurrent, VictimIsCurrent, HeirIsCurrent, SeqIsCurrent,
         AudienceIsCurrent, Removing

\* So of a step of s only s has to be looked at, and only if it is alone and goes on.
LEMMA OneSession ==
  ASSUME TypeOK, AloneIsCurrent, NEW s \in Session, NEW from, NEW to,
         Goto(s, from, to), from # "idle" \/ to # "idle",
         (to # "idle" /\ alone[s] /\ OthersIdle(s)') => Current(s)'
  PROVE  AloneIsCurrent'
  <1>1. ASSUME NEW t \in Session, t # s, alone'[t] PROVE Current(t)'
    BY <1>1, StepsOfOthers, IdleIsCurrent
  <1>2. ASSUME alone'[s] PROVE Current(s)'
    <2>1. CASE to = "idle"
      BY <2>1, IdleIsCurrent DEF Goto, TypeOK
    <2>2. CASE to # "idle"
      <3>1. alone[s] /\ OthersIdle(s)'
        BY <1>2, <2>2 DEF Goto, TypeOK, OthersIdle
      <3> QED
        BY <2>2, <3>1
    <2> QED
      BY <2>1, <2>2
  <1> QED
    BY <1>1, <1>2 DEF AloneIsCurrent

\* A step to where nothing is held that has to be current.
LEMMA NothingHeld ==
  ASSUME TypeOK, NEW s \in Session, OthersIdle(s)',
         pc'[s] \in {"addLoad", "announce", "announceCommit", "announceFanOut"}
  PROVE  Current(s)'
  BY DEF Current, SeenIsCurrent, VictimIsCurrent, HeirIsCurrent, SeqIsCurrent, AudienceIsCurrent,
         Removing

\* The steps of a removal before it commits.
LEMMA RemovalIsCurrent ==
  ASSUME AInv, NEW s \in Session,
         \/ \E a, t \in User : RemoveLoad(s, a, t)
         \/ RemoveAuth(s) \/ RemoveTarget(s) \/ RemoveRest(s)
  PROVE  AloneIsCurrent'
  <1> USE DEF AInv
  <1>t. AInv => TypeOK
    OBVIOUS
  <1> DEFINE Now == OthersIdle(s)'
  <1>1. ASSUME NEW a \in User, NEW t \in User, RemoveLoad(s, a, t) PROVE AloneIsCurrent'
    <2>1. Goto(s, "idle", "removeAuth") /\ pc'[s] = "removeAuth" /\ rows' = rows
      BY <1>1 DEF RemoveLoad, Goto, TypeOK
    <2>2. work'[s].seen = rows /\ work'[s].targets = {t} /\ work'[s].heir = {}
      BY <1>1 DEF RemoveLoad, TypeOK, NoWork
    <2>3. Now => Current(s)'
      BY <2>1, <2>2 DEF Current, SeenIsCurrent, VictimIsCurrent, HeirIsCurrent, SeqIsCurrent,
                        AudienceIsCurrent
    <2> QED
      BY <2>1, <2>3, OneSession
  <1>2. CASE RemoveAuth(s)
    <2>1. /\ Goto(s, "removeAuth", "removeTarget") /\ pc[s] = "removeAuth"
          /\ pc'[s] = "removeTarget" /\ rows' = rows
      BY <1>2 DEF RemoveAuth, Goto, TypeOK
    <2>2. ASSUME alone[s], Now PROVE Current(s)'
      <3>1. /\ work[s].seen = rows /\ \E t \in User : work[s].targets = {t}
            /\ work[s].heir = {}
        BY <2>1, <2>2 DEF AloneIsCurrent, Current, SeenIsCurrent, HeirIsCurrent, Removing
      <3>2. PICK me \in AsSeen(work[s].seen, RowOf(work[s].actor)) :
              work' = [work EXCEPT ![s].seen = @ \cup {me}]
        BY <1>2 DEF RemoveAuth
      <3>3. me \in rows
        BY <3>1, <3>2, AsSeenCurrent DEF RowOf
      <3>4. /\ work'[s].seen = rows /\ work'[s].targets = work[s].targets
            /\ work'[s].heir = {}
        BY <3>1, <3>2, <3>3, WorkFields DEF TypeOK, Work
      <3> QED
        BY <2>1, <2>2, <3>1, <3>4 DEF Current, SeenIsCurrent, VictimIsCurrent, HeirIsCurrent,
           SeqIsCurrent, AudienceIsCurrent
    <2> QED
      BY <2>1, <2>2, OneSession
  <1>3. CASE RemoveTarget(s)
    <2>1. /\ Goto(s, "removeTarget", "removeRest") /\ pc[s] = "removeTarget"
          /\ pc'[s] = "removeRest" /\ rows' = rows
      BY <1>3 DEF RemoveTarget, Goto, TypeOK
    <2>2. ASSUME alone[s], Now PROVE Current(s)'
      <3>1. /\ work[s].seen = rows /\ \E t \in User : work[s].targets = {t}
            /\ work[s].heir = {}
        BY <2>1, <2>2 DEF AloneIsCurrent, Current, SeenIsCurrent, HeirIsCurrent, Removing
      <3>2. PICK t \in work[s].targets : \E v \in AsSeen(work[s].seen, RowOf(t)) :
              work' = [work EXCEPT ![s] = Targeting(@, v)]
        BY <1>3 DEF RemoveTarget
      <3>3. PICK v \in AsSeen(work[s].seen, RowOf(t)) :
              work' = [work EXCEPT ![s] = Targeting(@, v)]
        BY <3>2
      <3>4. v \in RowOf(t) /\ work[s].targets = {t}
        <4>1. RowOf(t) \subseteq rows
          BY DEF RowOf
        <4>2. AsSeen(rows, RowOf(t)) = RowOf(t)
          BY <4>1, AsSeenCurrent
        <4> QED
          BY <3>1, <3>3, <4>2
      <3>5. v \in rows /\ {v} = {r \in rows : r.user \in {t}}
        BY <3>4 DEF RowOf, OneRowEach
      <3>6. /\ work'[s].seen = rows /\ work'[s].targets = {t} /\ work'[s].victim = {v}
            /\ work'[s].heir = {}
        <4>1. work'[s] = Targeting(work[s], v)
          BY <3>3 DEF TypeOK
        <4>2. v \in MemberRow /\ work[s] \in Work
          BY <3>5, WorkFields DEF TypeOK
        <4>3. /\ work'[s].seen = work[s].seen \cup {v} /\ work'[s].victim = {v}
              /\ work'[s].targets = work[s].targets /\ work'[s].heir = work[s].heir
          BY <4>1, <4>2, TargetingFacts
        <4> QED
          BY <3>1, <3>4, <3>5, <4>3
      <3>7. t \in User
        BY <3>4, WorkFields
      <3> QED
        BY <2>1, <2>2, <3>5, <3>6, <3>7 DEF Current, SeenIsCurrent, VictimIsCurrent,
           HeirIsCurrent, SeqIsCurrent, AudienceIsCurrent
    <2> QED
      BY <2>1, <2>2, OneSession
  <1>4. CASE RemoveRest(s)
    <2>1. /\ Goto(s, "removeRest", "removeCommit") /\ pc[s] = "removeRest"
          /\ pc'[s] = "removeCommit" /\ rows' = rows
      BY <1>4 DEF RemoveRest, Goto, TypeOK
    <2>2. ASSUME alone[s], Now PROVE Current(s)'
      <3>1. /\ work[s].seen = rows /\ \E t \in User : work[s].targets = {t}
            /\ work[s].victim # {}
            /\ work[s].victim = {r \in rows : r.user \in work[s].targets}
            /\ work[s].heir = {}
        BY <2>1, <2>2 DEF AloneIsCurrent, Current, SeenIsCurrent, VictimIsCurrent, HeirIsCurrent,
           Removing
      <3>2. Rest(s) = Others(s)
        <4>1. Others(s) \subseteq rows
          BY DEF Others
        <4> QED
          BY <3>1, <4>1, AsSeenCurrent DEF Rest, Others
      <3>3. PICK H \in IF Heirs(s) = {} THEN {{}} ELSE {{h} : h \in Heirs(s)} :
              work' = [work EXCEPT ![s] = Leaving(@, {r.user : r \in Rest(s)}, H)]
        BY <1>4 DEF RemoveRest
      <3>4. /\ work'[s].seen = work[s].seen /\ work'[s].targets = work[s].targets
            /\ work'[s].victim = work[s].victim /\ work'[s].heir = H
        <4>1. Others(s) \subseteq MemberRow /\ {r.user : r \in Rest(s)} \subseteq User
          BY <3>2 DEF Others, TypeOK, MemberRow
        <4>2. H \in SUBSET MemberRow
          BY <3>2, <3>3, <4>1 DEF Heirs
        <4>3. work'[s] = Leaving(work[s], {r.user : r \in Rest(s)}, H)
          BY <3>3 DEF TypeOK
        <4> QED
          BY <4>1, <4>2, <4>3, LeavingFacts, WorkFields
      <3>5. Others(s)' = Others(s)
        BY <2>1, <3>4 DEF Others
      <3>6. HeirIsCurrent(s)'
        <4>1. H \subseteq Others(s)
          BY <3>2, <3>3 DEF Heirs
        <4>2. (\A r \in Others(s) : r.role # "admin") /\ (\E v \in work[s].victim : v.role = "admin")
                => H # {} \/ Others(s) = {}
          BY <3>2, <3>3 DEF Heirs
        <4>3. /\ work'[s].heir \subseteq Others(s)'
              /\ (\A r \in Others(s)' : r.role # "admin") /\ (\E v \in work'[s].victim : v.role = "admin")
                   => work'[s].heir # {} \/ Others(s)' = {}
          BY <3>4, <3>5, <4>1, <4>2
        <4> QED
          BY <2>1, <4>3 DEF HeirIsCurrent
      <3> QED
        BY <2>1, <2>2, <3>1, <3>4, <3>6 DEF Current, SeenIsCurrent, VictimIsCurrent,
           SeqIsCurrent, AudienceIsCurrent
    <2> QED
      BY <2>1, <2>2, OneSession
  <1> QED
    BY <1>1, <1>2, <1>3, <1>4
\* The other steps. A removal that commits, or an announcement, holds nothing after it.
LEMMA OthersAreCurrent ==
  ASSUME AInv, NEW s \in Session,
         \/ RemoveCommit(s)
         \/ \E a \in User, T \in SUBSET User \ {{}} : AddAuth(s, a, T)
         \/ AddLoad(s) \/ AddCheck(s) \/ AddCommit(s)
         \/ Announce(s) \/ AnnounceCommit(s) \/ AnnounceFanOut(s)
         \/ \E a \in User : SendLoad(s, a)
         \/ SendCommit(s) \/ SendFanOut(s) \/ Abort(s)
  PROVE  AloneIsCurrent'
  <1> USE DEF AInv
  <1> DEFINE Now == OthersIdle(s)'
  <1>1. ASSUME NEW from \in Step, Goto(s, from, "idle"), from # "idle" PROVE AloneIsCurrent'
    BY <1>1, OneSession
  <1>2. ASSUME NEW from \in Step, NEW to \in {"addLoad", "announce", "announceCommit", "announceFanOut"},
               Goto(s, from, to)
        PROVE  AloneIsCurrent'
    <2>1. pc'[s] = to /\ to # "idle"
      BY <1>2 DEF Goto, TypeOK
    <2>2. Now => Current(s)'
      BY <2>1, NothingHeld
    <2> QED
      BY <1>2, <2>1, <2>2, OneSession
  <1>3. CASE RemoveCommit(s)
    BY <1>1, <1>2, <1>3 DEF RemoveCommit, Finish, Step
  <1>4. CASE \E a \in User, T \in SUBSET User \ {{}} : AddAuth(s, a, T)
    BY <1>2, <1>4 DEF AddAuth, Step
  <1>5. CASE AddLoad(s)
    <2>1. Goto(s, "addLoad", "addCheck") /\ pc'[s] = "addCheck" /\ lastSeq' = lastSeq
      BY <1>5 DEF AddLoad, Goto, TypeOK
    <2>2. work'[s].seq = lastSeq
      BY <1>5 DEF AddLoad, TypeOK, Work
    <2>3. Now => Current(s)'
      BY <2>1, <2>2 DEF Current, SeenIsCurrent, VictimIsCurrent, HeirIsCurrent, SeqIsCurrent,
                        AudienceIsCurrent, Removing
    <2> QED
      BY <2>1, <2>3, OneSession
  <1>6. CASE AddCheck(s)
    <2>1. /\ Goto(s, "addCheck", "addCommit") /\ pc[s] = "addCheck" /\ pc'[s] = "addCommit"
          /\ lastSeq' = lastSeq
      BY <1>6 DEF AddCheck, Goto, TypeOK
    <2>2. work'[s].seq = work[s].seq
      BY <1>6 DEF AddCheck, TypeOK, Work
    <2>3. alone[s] => work[s].seq = lastSeq
      BY <2>1 DEF AloneIsCurrent, Current, SeqIsCurrent
    <2>4. alone[s] /\ Now => Current(s)'
      BY <2>1, <2>2, <2>3 DEF Current, SeenIsCurrent, VictimIsCurrent, HeirIsCurrent, SeqIsCurrent,
                              AudienceIsCurrent, Removing
    <2> QED
      BY <2>1, <2>4, OneSession
  <1>7. CASE AddCommit(s)
    BY <1>2, <1>7 DEF AddCommit, AddRows, Step
  <1>8. CASE Announce(s) \/ AnnounceCommit(s)
    BY <1>2, <1>8 DEF Announce, AnnounceCommit, Step
  <1>9. CASE AnnounceFanOut(s) \/ SendFanOut(s)
    BY <1>1, <1>9 DEF AnnounceFanOut, SendFanOut, PushText, Finish, Step
  <1>10. ASSUME NEW a \in User, SendLoad(s, a) PROVE AloneIsCurrent'
    <2>1. Goto(s, "idle", "sendCommit") /\ pc'[s] = "sendCommit" /\ rows' = rows
      BY <1>10 DEF SendLoad, Goto, TypeOK
    <2>2. work'[s].audience = MembersNow
      BY <1>10 DEF SendLoad, TypeOK, NoWork
    <2>3. Now => Current(s)'
      BY <2>1, <2>2 DEF Current, SeenIsCurrent, VictimIsCurrent, HeirIsCurrent, SeqIsCurrent,
                        AudienceIsCurrent, Removing, MembersNow
    <2> QED
      BY <2>1, <2>3, OneSession
  <1>11. CASE SendCommit(s)
    <2>1. /\ Goto(s, "sendCommit", "sendFanOut") /\ pc[s] = "sendCommit" /\ pc'[s] = "sendFanOut"
          /\ rows' = rows
      BY <1>11 DEF SendCommit, StoreText, Goto, TypeOK
    <2>2. work'[s].audience = work[s].audience
      BY <1>11 DEF SendCommit, StoreText, TypeOK, Work
    <2>3. alone[s] => work[s].audience = MembersNow
      BY <2>1 DEF AloneIsCurrent, Current, AudienceIsCurrent
    <2>4. alone[s] /\ Now => Current(s)'
      BY <2>1, <2>2, <2>3 DEF Current, SeenIsCurrent, VictimIsCurrent, HeirIsCurrent, SeqIsCurrent,
                              AudienceIsCurrent, Removing, MembersNow
    <2> QED
      BY <2>1, <2>4, OneSession
  <1>12. CASE Abort(s)
    <2>1. pc[s] \in Step
      BY DEF TypeOK
    <2> QED
      BY <1>1, <1>12, <2>1 DEF Abort, Finish
  <1> QED
    BY <1>3, <1>4, <1>5, <1>6, <1>7, <1>8, <1>9, <1>10, <1>11, <1>12

LEMMA AInvHolds == Spec => []AInv
  <1>1. Init => AInv
    BY TypesBegin DEF Init, AInv, OneRowEach, AloneIsCurrent, Current, OthersIdle, SeenIsCurrent,
       VictimIsCurrent, HeirIsCurrent, SeqIsCurrent, AudienceIsCurrent, Removing
  <1>2. AInv /\ [Next]_vars => AInv'
    <2> SUFFICES ASSUME AInv, [Next]_vars PROVE AInv'
      OBVIOUS
    <2>1. TypeOK' /\ OneRowEach'
      BY TypesKept, OneRowKept DEF AInv
    <2>2. CASE Next
      BY <2>1, <2>2, RemovalIsCurrent, OthersAreCurrent DEF Next, AInv
    <2>3. CASE UNCHANGED vars
      BY <2>1, <2>3 DEF vars, AInv, AloneIsCurrent, Current, OthersIdle, SeenIsCurrent,
         VictimIsCurrent, HeirIsCurrent, SeqIsCurrent, AudienceIsCurrent, Others, MembersNow
    <2> QED
      BY <2>2, <2>3
  <1> QED
    BY <1>1, <1>2, PTL DEF Spec

-----------------------------------------------------------------------------
\* What follows for a request that meets no other one.

\* A removal: the rows that stay, with the heir among them promoted.
LEMMA RemovalLeavesAdmin ==
  ASSUME AInv, NEW s \in Session, RemoveCommit(s), alone[s], HasAdmin
  PROVE  NeverWithoutAdmin'
  <1> USE DEF AInv
  <1>1. /\ work[s].victim = {r \in rows : r.user \in work[s].targets}
        /\ work[s].heir \subseteq Others(s)
        /\ (\A r \in Others(s) : r.role # "admin") /\ (\E v \in work[s].victim : v.role = "admin")
             => work[s].heir # {} \/ Others(s) = {}
    BY DEF RemoveCommit, AloneIsCurrent, Current, VictimIsCurrent, HeirIsCurrent
  <1>2. \A r \in Others(s) :
          (IF \E h \in work[s].heir : Same(r, h) THEN Promoted(r) ELSE r) \in rows'
    <2>1. \A r \in Others(s) : r \in rows /\ \A v \in work[s].victim : ~Same(r, v)
      BY <1>1 DEF Others, Same
    <2> QED
      BY <2>1, RemoveCommitRows
  <1>3. \A r \in Others(s) : Promoted(r).role = "admin"
    BY PromotedFacts DEF Others, TypeOK
  <1>4. CASE \E r \in Others(s) : r.role = "admin"
    BY <1>2, <1>3, <1>4 DEF NeverWithoutAdmin, HasAdmin
  <1>5. CASE \A r \in Others(s) : r.role # "admin"
    <2>1. \E v \in work[s].victim : v.role = "admin"
      BY <1>1, <1>5 DEF HasAdmin, Others
    <2>2. CASE Others(s) = {}
      <3>1. \A r \in rows : r \in work[s].victim
        BY <1>1, <2>2 DEF Others
      <3>2. rows' = {}
        BY <3>1, RemoveCommitRows DEF Same
      <3> QED
        BY <3>2 DEF NeverWithoutAdmin
    <2>3. CASE work[s].heir # {}
      <3>1. PICK h \in work[s].heir : TRUE
        BY <2>3
      <3>2. h \in Others(s) /\ Same(h, h)
        BY <1>1, <3>1 DEF Same
      <3>3. Promoted(h) \in rows' /\ Promoted(h).role = "admin"
        BY <1>2, <1>3, <3>1, <3>2
      <3> QED
        BY <3>3 DEF NeverWithoutAdmin, HasAdmin
    <2> QED
      BY <1>1, <1>5, <2>1, <2>2, <2>3
  <1> QED
    BY <1>4, <1>5

\* A removal that no other request overlaps leaves an admin, or nobody.
THEOREM AdminIsKept == Spec => KeepsAdmin
  <1>1. AInv /\ Next => LastAdminReplaced
    <2> SUFFICES ASSUME AInv, Next, event'.kind = "leave", event'.alone, HasAdmin
                 PROVE  NeverWithoutAdmin'
      BY DEF LastAdminReplaced
    <2>1. PICK s \in Session : RemoveCommit(s)
      BY Steps, EventKinds
    <2>2. alone[s]
      BY <2>1 DEF RemoveCommit
    <2> QED
      BY <2>1, <2>2, RemovalLeavesAdmin
  <1> QED
    BY <1>1, AInvHolds, PTL DEF Spec, KeepsAdmin

\* A message whose request no other one overlaps is pushed to the members of that
\* moment, though they were read before it was stored.
THEOREM MembersArePushedTo == Spec => PushedToMembers
  <1>1. AInv /\ Next => PushToMembers
    <2> SUFFICES ASSUME AInv, Next, event'.kind = "push", event'.alone
                 PROVE  event'.who = MembersNow
      BY DEF PushToMembers
    <2>1. PICK s \in Session : AnnounceFanOut(s) \/ SendFanOut(s)
      BY Steps, EventKinds
    <2>2. CASE AnnounceFanOut(s)
      BY <2>2 DEF AnnounceFanOut
    <2>3. CASE SendFanOut(s)
      <3>1. alone[s] /\ pc[s] = "sendFanOut" /\ event'.who = work[s].audience
        BY <2>3 DEF SendFanOut, PushText, Finish, Goto
      <3> QED
        BY <3>1 DEF AInv, AloneIsCurrent, Current, AudienceIsCurrent
    <2> QED
      BY <2>1, <2>2, <2>3
  <1> QED
    BY <1>1, AInvHolds, PTL DEF Spec, PushedToMembers

\* Whoever joins has nothing unread, unless requests overlap.
THEOREM JoinersHaveRead == Spec => CleanSlate
  <1>1. AInv /\ Next => JoinRead
    <2> SUFFICES ASSUME AInv, Next, event'.kind = "join", event'.alone
                 PROVE  event'.mark = lastSeq
      BY DEF JoinRead
    <2>1. PICK s \in Session : AddCommit(s)
      BY Steps, EventKinds
    <2>2. alone[s] /\ pc[s] = "addCommit" /\ event'.mark = work[s].seq
      BY <2>1 DEF AddCommit, AddRows, Goto
    <2> QED
      BY <2>2 DEF AInv, AloneIsCurrent, Current, SeqIsCurrent
  <1> QED
    BY <1>1, AInvHolds, PTL DEF Spec, CleanSlate
=============================================================================
