---------------------------- MODULE ExpiryProofs ----------------------------
(***************************************************************************)
(* Proofs about the two components that let go of what is too old:         *)
(*                                                                         *)
(* Retention, for any number of requests, sweepers and client ids and for  *)
(* every value of the timer: only lapsed messages are deleted, and no      *)
(* message quotes one that is gone;                                        *)
(*                                                                         *)
(* LinkPreviews, for any number of requests and links and any limits: the  *)
(* cache is bounded, no hop goes unchecked, and a link that is stored is   *)
(* not fetched again.                                                      *)
(***************************************************************************)
EXTENDS Retention, LinkPreviews, FiniteSetTheorems, TLAPS

\* A number is given once, and a number that is gone is not given again.
Numbered ==
  /\ \A r \in rows : r.seq <= lastSeq
  /\ \A q, r \in rows : q.seq = r.seq => q = r

\* What a sweeper has selected has lapsed, and a row of the same number, changed
\* though it may be, lapses at the same time.
HeldLapsed ==
  \A w \in Sweeper : \A h \in held[w] :
    /\ Lapsed(h) /\ h.seq <= lastSeq
    /\ \A r \in rows : r.seq = h.seq => r.expires = h.expires

IInv == TypeOK /\ Numbered /\ HeldLapsed

-----------------------------------------------------------------------------
\* What the loss of its quote leaves of a row.
LEMMA WithoutQuoteFacts ==
  ASSUME NEW r \in Row
  PROVE  /\ WithoutQuote(r) \in Row
         /\ WithoutQuote(r).seq = r.seq
         /\ WithoutQuote(r).expires = r.expires
         /\ WithoutQuote(r).reply = 0
  BY DEF WithoutQuote, Row

\* Every row after a purge is one that was kept, but for the quote; and every row
\* that was kept is still there under its number.
LEMMA UnquotedFacts ==
  ASSUME NEW kept \in SUBSET Row, NEW gone \in SUBSET Row
  PROVE  /\ Unquoted(kept, gone) \subseteq Row
         /\ \A q \in Unquoted(kept, gone) : \E r \in kept :
              /\ q.seq = r.seq /\ q.expires = r.expires
              /\ q = IF \E g \in gone : g.seq = r.reply THEN WithoutQuote(r) ELSE r
         /\ \A r \in kept : \E q \in Unquoted(kept, gone) : q.seq = r.seq
  <1>1. \A r \in kept : (IF \E g \in gone : g.seq = r.reply THEN WithoutQuote(r) ELSE r)
                          \in Unquoted(kept, gone)
    BY DEF Unquoted
  <1> QED
    BY <1>1, WithoutQuoteFacts DEF Unquoted

\* The row of a send is a row, and it has the next number.
LEMMA NewRowFacts ==
  ASSUME TypeOK, NEW s \in Session
  PROVE  NewRow(s) \in Row /\ NewRow(s).seq = lastSeq + 1 /\ NewRow(s).reply = work[s].reply
  BY DEF TypeOK, NewRow, Row, Work

\* The idle record is well typed.
LEMMA NoWorkType == NoWork \in Work
  BY DEF NoWork, Work

-----------------------------------------------------------------------------
\* A step of the sender keeps the types.
LEMMA SendTypes ==
  ASSUME TypeOK, NEW s \in Session,
         \/ \E k \in Key \cup {NoKey}, r \in 0..lastSeq : SendLoad(s, k, r)
         \/ SendFound(s) \/ SendNew(s) \/ SendTarget(s)
         \/ SendCommit(s) \/ SendConflict(s) \/ SendWinner(s) \/ Abort(s)
  PROVE  TypeOK'
  <1> USE NoWorkType DEF TypeOK, settings, Goto, Finish
  <1>1. ASSUME NEW k \in Key \cup {NoKey}, NEW r \in 0..lastSeq, SendLoad(s, k, r)
        PROVE  TypeOK'
    <2>1. [key |-> k, reply |-> r, timer |-> disappear] \in Work
      BY TimerAssumption DEF Work
    <2> QED
      BY <1>1, <2>1 DEF SendLoad
  <1>2. CASE SendFound(s)
    BY <1>2 DEF SendFound
  <1>3. CASE SendNew(s)
    BY <1>3 DEF SendNew
  <1>4. CASE SendTarget(s)
    BY <1>4 DEF SendTarget
  <1>5. CASE SendCommit(s)
    BY <1>5, NewRowFacts DEF SendCommit
  <1>6. CASE SendConflict(s)
    BY <1>6 DEF SendConflict
  <1>7. CASE SendWinner(s)
    BY <1>7 DEF SendWinner
  <1>8. CASE Abort(s)
    BY <1>8 DEF Abort
  <1> QED
    BY <1>1, <1>2, <1>3, <1>4, <1>5, <1>6, <1>7, <1>8

\* So does a step of a sweeper, of the clock or of who sets the timer.
LEMMA OtherTypes ==
  ASSUME TypeOK,
         \/ Tick \/ \E d \in Timer : SetTimer(d)
         \/ \E w \in Sweeper : SweepSelect(w) \/ SweepDelete(w) \/ SweepFails(w)
  PROVE  TypeOK'
  <1> USE DEF TypeOK, settings
  <1>1. CASE Tick
    BY <1>1 DEF Tick
  <1>2. CASE \E d \in Timer : SetTimer(d)
    BY <1>2 DEF SetTimer
  <1>3. ASSUME NEW w \in Sweeper, SweepSelect(w) PROVE TypeOK'
    BY <1>3 DEF SweepSelect
  <1>4. ASSUME NEW w \in Sweeper, SweepDelete(w) PROVE TypeOK'
    BY <1>4, UnquotedFacts DEF SweepDelete, Purge, Selected
  <1>5. ASSUME NEW w \in Sweeper, SweepFails(w) PROVE TypeOK'
    BY <1>5 DEF SweepFails
  <1> QED
    BY <1>1, <1>2, <1>3, <1>4, <1>5

LEMMA TypesKept == TypeOK /\ [Next]_vars => TypeOK'
  <1>1. TypeOK /\ UNCHANGED vars => TypeOK'
    BY DEF vars, TypeOK
  <1> QED
    BY <1>1, SendTypes, OtherTypes DEF Next

LEMMA TypesBegin == Init => TypeOK
  BY TimerAssumption, NoWorkType DEF Init, TypeOK

THEOREM TypeCorrect == Spec => []TypeOK
  BY TypesBegin, TypesKept, PTL DEF Spec

-----------------------------------------------------------------------------
\* A row with the next number is unlike any other, held or stored.
LEMMA CommitKeeps ==
  ASSUME IInv, NEW s \in Session, SendCommit(s)
  PROVE  Numbered' /\ HeldLapsed'
  <1>1. /\ rows' = rows \cup {NewRow(s)} /\ NewRow(s).seq = lastSeq + 1
        /\ lastSeq' = lastSeq + 1 /\ lastSeq \in Nat /\ held' = held /\ now' = now
        /\ \A r \in rows : r.seq \in Nat
        /\ \A w \in Sweeper : \A h \in held[w] : h.seq \in Nat
    BY NewRowFacts DEF IInv, TypeOK, SendCommit, settings, Row
  <1>2. Numbered'
    BY <1>1 DEF IInv, Numbered
  <1>3. HeldLapsed'
    BY <1>1 DEF IInv, HeldLapsed, Lapsed
  <1> QED
    BY <1>2, <1>3

\* Time only makes more rows lapse.
LEMMA TickKeeps ==
  ASSUME IInv, Tick
  PROVE  Numbered' /\ HeldLapsed'
  <1>1. \A w \in Sweeper : \A h \in held[w] : h.expires \in Nat
    BY DEF IInv, TypeOK, Row
  <1> QED
    BY <1>1 DEF IInv, TypeOK, Tick, Numbered, HeldLapsed, Lapsed

\* What is selected is rows, which have lapsed.
LEMMA SelectKeeps ==
  ASSUME IInv, NEW w \in Sweeper, SweepSelect(w)
  PROVE  Numbered' /\ HeldLapsed'
  <1>1. rows' = rows /\ lastSeq' = lastSeq /\ now' = now
    BY DEF SweepSelect, settings
  <1>2. ASSUME NEW v \in Sweeper, NEW h \in held'[v]
        PROVE  /\ Lapsed(h) /\ h.seq <= lastSeq
               /\ \A r \in rows : r.seq = h.seq => r.expires = h.expires
    <2>1. CASE v = w
      <3>1. h \in rows /\ Lapsed(h)
        BY <1>2, <2>1 DEF SweepSelect, IInv, TypeOK
      <3> QED
        BY <3>1 DEF IInv, Numbered
    <2>2. CASE v # w
      BY <1>2, <2>2 DEF SweepSelect, IInv, TypeOK, HeldLapsed
    <2> QED
      BY <2>1, <2>2
  <1> QED
    BY <1>1, <1>2 DEF IInv, Numbered, HeldLapsed, Lapsed

\* A purge only takes rows and quotes away.
LEMMA DeleteKeeps ==
  ASSUME IInv, NEW w \in Sweeper, SweepDelete(w)
  PROVE  Numbered' /\ HeldLapsed'
  <1> DEFINE kept == rows \ Selected(w)
  <1>1. /\ rows' = Unquoted(kept, Selected(w)) /\ kept \subseteq rows
        /\ kept \in SUBSET Row /\ Selected(w) \in SUBSET Row
        /\ lastSeq' = lastSeq /\ now' = now
    BY DEF SweepDelete, Purge, settings, Selected, IInv, TypeOK
  <1>2. \A q \in rows' : \E r \in kept :
          /\ q.seq = r.seq /\ q.expires = r.expires
          /\ q = IF \E g \in Selected(w) : g.seq = r.reply THEN WithoutQuote(r) ELSE r
    BY <1>1, UnquotedFacts
  <1>3. Numbered'
    <2>1. ASSUME NEW q \in rows' PROVE q.seq <= lastSeq
      BY <1>1, <1>2, <2>1 DEF IInv, Numbered
    <2>2. ASSUME NEW p \in rows', NEW q \in rows', p.seq = q.seq PROVE p = q
      <3>1. PICK a \in kept :
              /\ p.seq = a.seq
              /\ p = IF \E g \in Selected(w) : g.seq = a.reply THEN WithoutQuote(a) ELSE a
        BY <1>2
      <3>2. PICK b \in kept :
              /\ q.seq = b.seq
              /\ q = IF \E g \in Selected(w) : g.seq = b.reply THEN WithoutQuote(b) ELSE b
        BY <1>2
      <3>3. a = b
        BY <1>1, <2>2, <3>1, <3>2 DEF IInv, Numbered
      <3> QED
        BY <3>1, <3>2, <3>3
    <2> QED
      BY <1>1, <2>1, <2>2 DEF Numbered
  <1>4. \A v \in Sweeper : held'[v] \subseteq held[v]
    BY DEF SweepDelete, Purge, IInv, TypeOK
  <1>5. HeldLapsed'
    <2>1. ASSUME NEW v \in Sweeper, NEW h \in held'[v]
          PROVE  /\ Lapsed(h) /\ h.seq <= lastSeq
                 /\ \A q \in rows' : q.seq = h.seq => q.expires = h.expires
      <3>1. h \in held[v]
        BY <1>4, <2>1
      <3>2. \A q \in rows' : \E r \in rows : q.seq = r.seq /\ q.expires = r.expires
        BY <1>1, <1>2
      <3> QED
        BY <3>1, <3>2 DEF IInv, HeldLapsed
    <2> QED
      BY <1>1, <2>1 DEF HeldLapsed, Lapsed
  <1> QED
    BY <1>3, <1>5

\* The inductive invariant is kept by every step.
LEMMA IInvKept == IInv /\ [Next]_vars => IInv'
  <1> SUFFICES ASSUME IInv, [Next]_vars PROVE IInv'
    OBVIOUS
  <1>1. TypeOK'
    BY TypesKept DEF IInv
  <1>2. CASE UNCHANGED <<now, lastSeq, rows, held>>
    BY <1>1, <1>2 DEF IInv, Numbered, HeldLapsed, Lapsed
  <1>3. ASSUME NEW w \in Sweeper, SweepFails(w) PROVE IInv'
    <2>1. \A v \in Sweeper : held'[v] \subseteq held[v]
      BY <1>3 DEF SweepFails, IInv, TypeOK
    <2> QED
      BY <1>1, <1>3, <2>1 DEF SweepFails, settings, IInv, Numbered, HeldLapsed, Lapsed
  <1>4. ASSUME NEW d \in Timer, SetTimer(d) PROVE UNCHANGED <<now, lastSeq, rows, held>>
    BY <1>4 DEF SetTimer
  <1>5. ASSUME NEW s \in Session,
               \/ \E k \in Key \cup {NoKey}, r \in 0..lastSeq : SendLoad(s, k, r)
               \/ SendFound(s) \/ SendNew(s) \/ SendTarget(s)
               \/ SendConflict(s) \/ SendWinner(s) \/ Abort(s)
        PROVE  UNCHANGED <<now, lastSeq, rows, held>>
    BY <1>5 DEF SendLoad, SendFound, SendNew, SendTarget, SendConflict, SendWinner, Abort,
                settings
  <1>6. CASE UNCHANGED vars
    BY <1>2, <1>6 DEF vars
  <1> QED
    BY <1>1, <1>2, <1>3, <1>4, <1>5, <1>6, CommitKeeps, TickKeeps, SelectKeeps, DeleteKeeps
       DEF Next, IInv

LEMMA IInvHolds == Spec => []IInv
  <1>1. Init => IInv
    BY TypesBegin DEF Init, IInv, Numbered, HeldLapsed
  <1> QED
    BY <1>1, IInvKept, PTL DEF Spec

-----------------------------------------------------------------------------
\* Only a purge deletes, and it deletes by numbers of rows that have lapsed.
LEMMA OnlyPurges ==
  ASSUME IInv, [Next]_vars
  PROVE  OnlyLapsedGo
  <1> SUFFICES ASSUME NEW r \in rows, WithSeq(r.seq)' = {} PROVE Lapsed(r)
    BY DEF OnlyLapsedGo
  <1>1. r \notin rows'
    BY DEF WithSeq
  <1>2. PICK w \in Sweeper : SweepDelete(w)
    BY <1>1 DEF Next, vars, Tick, SetTimer, SendLoad, SendFound, SendNew, SendTarget, SendCommit,
                SendConflict, SendWinner, Abort, SweepSelect, SweepFails
  <1> DEFINE kept == rows \ Selected(w)
  <1>3. rows' = Unquoted(kept, Selected(w)) /\ kept \in SUBSET Row /\ Selected(w) \in SUBSET Row
    BY <1>2 DEF SweepDelete, Purge, Selected, IInv, TypeOK
  <1>4. r \in Selected(w)
    <2>1. ASSUME r \in kept PROVE FALSE
      <3>1. \E q \in Unquoted(kept, Selected(w)) : q.seq = r.seq
        BY <1>3, <2>1, UnquotedFacts
      <3> QED
        BY <1>3, <3>1 DEF WithSeq
    <2> QED
      BY <2>1
  <1>5. PICK h \in held[w] : h.seq = r.seq
    BY <1>4 DEF Selected
  <1>6. Lapsed(h) /\ r.expires = h.expires
    BY <1>5 DEF IInv, HeldLapsed
  <1> QED
    BY <1>6 DEF Lapsed

\* Whatever sweepers and senders interleave, only messages whose time has come are
\* deleted (purge_expired_messages).
THEOREM OnlyLapsedArePurged == Spec => PurgesLapsedOnly
  <1>1. IInv /\ [Next]_vars => OnlyLapsedGo
    BY OnlyPurges
  <1> QED
    BY <1>1, IInvHolds, PTL DEF Spec, PurgesLapsedOnly

\* A purge takes the quotes of what it deletes away, and a send commits only while
\* the message it quotes is there.
LEMMA QuotesKept ==
  ASSUME TypeOK, QuotesExist, [Next]_vars
  PROVE  QuotesExist'
  <1>1. CASE rows' = rows
    BY <1>1 DEF QuotesExist, WithSeq
  <1>2. ASSUME NEW s \in Session, SendCommit(s) PROVE QuotesExist'
    <2>1. rows' = rows \cup {NewRow(s)} /\ NewRow(s).reply = work[s].reply
      BY <1>2, NewRowFacts DEF SendCommit
    <2>2. work[s].reply = 0 \/ WithSeq(work[s].reply) # {}
      BY <1>2 DEF SendCommit, Dangles
    <2> QED
      BY <2>1, <2>2 DEF QuotesExist, WithSeq
  <1>3. ASSUME NEW w \in Sweeper, SweepDelete(w) PROVE QuotesExist'
    <2> DEFINE kept == rows \ Selected(w)
    <2>1. rows' = Unquoted(kept, Selected(w)) /\ kept \in SUBSET Row /\ Selected(w) \in SUBSET Row
      BY <1>3 DEF SweepDelete, Purge, Selected, TypeOK
    <2> SUFFICES ASSUME NEW q \in rows', q.reply # 0 PROVE \E p \in rows' : p.seq = q.reply
      BY DEF QuotesExist, WithSeq
    <2>2. q \in kept /\ ~ \E g \in Selected(w) : g.seq = q.reply
      <3>1. PICK r \in kept :
              q = IF \E g \in Selected(w) : g.seq = r.reply THEN WithoutQuote(r) ELSE r
        <4>1. q \in Unquoted(kept, Selected(w))
          BY <2>1
        <4> QED
          BY <2>1, <4>1, UnquotedFacts
      <3>2. WithoutQuote(r).reply = 0
        BY <2>1, WithoutQuoteFacts
      <3> QED
        BY <3>1, <3>2
    <2>3. PICK p \in rows : p.seq = q.reply
      BY <2>2 DEF QuotesExist, WithSeq
    <2>4. p \in kept
      BY <2>2, <2>3
    <2>5. \E o \in Unquoted(kept, Selected(w)) : o.seq = p.seq
      BY <2>1, <2>4, UnquotedFacts
    <2> QED
      BY <2>1, <2>3, <2>5
  <1> QED
    BY <1>1, <1>2, <1>3 DEF Next, vars, Tick, SetTimer, SendLoad, SendFound, SendNew, SendTarget,
       SendConflict, SendWinner, Abort, SweepSelect, SweepFails

\* A message that is there never quotes one that is not.
THEOREM NoQuoteDangles == Spec => []QuotesExist
  <1>1. Init => QuotesExist
    BY DEF Init, QuotesExist
  <1>2. TypeOK /\ QuotesExist /\ [Next]_vars => QuotesExist'
    BY QuotesKept
  <1> QED
    BY <1>1, <1>2, TypeCorrect, PTL DEF Spec
-----------------------------------------------------------------------------
(***************************************************************************)
(* Link previews                                                           *)
(***************************************************************************)

\* What a request holds and the cache keeps has been validated.
Validated ==
  /\ \A r \in Request : stage[r] # "idle" => current[r] \in Public /\ url[r] \in Url
  /\ \A r \in Request : stage[r] = "idle" => gets[r] = 0
  /\ \A r \in Request : stage[r] = "fetching" => gets[r] <= MAX_REDIRECTS + 1
  /\ \A r \in Request : stage[r] = "fetched" => preview[r].page \in Public
  /\ \A u \in DOMAIN cache : cache[u].page \in Public

\* The cache is a finite set of entries within the limit.
Bounded == IsFiniteSet(DOMAIN cache) /\ CacheBounded

-----------------------------------------------------------------------------
\* A preview that becomes older is a preview of the same page.
LEMMA OlderPreview ==
  ASSUME NEW p \in Preview
  PROVE  Aged(p) \in Preview /\ Aged(p).page = p.page
  BY LimitAssumption DEF Preview, Older, Aged

LEMMA NothingIsPreview == Nothing \in Preview
  BY LimitAssumption DEF Nothing, Preview

\* Storing a preview keeps the types: the entry that goes is any.
LEMMA StoreTypes ==
  ASSUME LinksTypeOK, Validated, NEW r \in Request, Store(r)
  PROVE  LinksTypeOK'
  <1> USE NothingIsPreview, LimitAssumption
  <1>1. stage[r] = "fetched" /\ url[r] \in Url /\ preview[r] \in Preview
    BY DEF Store, StoreAs, Validated, LinksTypeOK
  <1>2. PICK old \in Oldest :
          /\ cache' = [u \in (DOMAIN cache \ {old}) \cup {url[r]} |->
                         IF u = url[r] THEN preview[r] ELSE cache[u]]
          /\ evicted' = (evicted \cup ({old} \ {NoUrl})) \ {url[r]}
    BY DEF Store, StoreAs
  <1>3. old \in Url \cup {NoUrl}
    BY DEF Oldest, LinksTypeOK
  <1>4. DOMAIN cache' \subseteq Url /\ \A u \in DOMAIN cache' : cache'[u] \in Preview
    BY <1>1, <1>2 DEF LinksTypeOK
  <1>5. evicted' \subseteq Url
    BY <1>2, <1>3 DEF LinksTypeOK
  <1>6. told' \in [Url -> 0..Ttl]
    BY <1>1 DEF Store, StoreAs, LinksTypeOK, Preview
  <1> QED
    BY <1>4, <1>5, <1>6 DEF Store, StoreAs, Answer, LinksTypeOK

\* The step of a request before its preview is stored.
LEMMA FetchTypes ==
  ASSUME LinksTypeOK, NEW r \in Request,
         \/ \E u \in Url : Lookup(r, u) \/ Redirected(r, u)
         \/ Fetched(r) \/ Failed(r)
  PROVE  LinksTypeOK'
  <1> USE NothingIsPreview, LimitAssumption DEF LinksTypeOK, Answer, Get
  <1>1. ASSUME NEW u \in Url, Lookup(r, u) PROVE LinksTypeOK'
    BY <1>1 DEF Lookup
  <1>2. ASSUME NEW u \in Url, Redirected(r, u) PROVE LinksTypeOK'
    BY <1>2 DEF Redirected
  <1>3. CASE Fetched(r)
    <2>1. Parsed(current[r]) \in Preview
      BY DEF Parsed, Preview
    <2> QED
      BY <1>3, <2>1 DEF Fetched
  <1>4. CASE Failed(r)
    BY <1>4 DEF Failed
  <1> QED
    BY <1>1, <1>2, <1>3, <1>4

LEMMA PassingTypes ==
  ASSUME LinksTypeOK, TimePasses
  PROVE  LinksTypeOK'
  <1>1. DOMAIN cache' = DOMAIN cache /\ \A u \in DOMAIN cache' : cache'[u] \in Preview
    BY OlderPreview DEF TimePasses, LinksTypeOK
  <1>2. preview' \in [Request -> Preview]
    BY OlderPreview DEF TimePasses, LinksTypeOK
  <1>3. told' \in [Url -> 0..Ttl]
    BY LimitAssumption DEF TimePasses, LinksTypeOK, Older
  <1> QED
    BY <1>1, <1>2, <1>3 DEF TimePasses, LinksTypeOK

\* A step keeps what was validated; only the first link and the hops are new.
LEMMA StepValidated ==
  ASSUME LinksTypeOK, Validated, LinksNext
  PROVE  Validated'
  <1> USE UrlAssumption, LimitAssumption DEF LinksTypeOK, Validated, Answer, Get
  <1>1. ASSUME NEW r \in Request, NEW u \in Url, Lookup(r, u) PROVE Validated'
    BY <1>1 DEF Lookup
  <1>2. ASSUME NEW r \in Request, NEW u \in Url, Redirected(r, u) PROVE Validated'
    BY <1>2 DEF Redirected
  <1>3. ASSUME NEW r \in Request, Fetched(r) PROVE Validated'
    <2>1. current[r] \in Public /\ Parsed(current[r]).page = current[r]
      BY <1>3 DEF Fetched, Parsed
    <2> QED
      BY <1>3, <2>1 DEF Fetched
  <1>4. ASSUME NEW r \in Request, Failed(r) PROVE Validated'
    BY <1>4 DEF Failed
  <1>5. ASSUME NEW r \in Request, Store(r) PROVE Validated'
    <2>1. \A u \in DOMAIN cache' : cache'[u].page \in Public
      BY <1>5 DEF Store, StoreAs
    <2> QED
      BY <1>5, <2>1 DEF Store, StoreAs
  <1>6. CASE TimePasses
    <2>1. \A u \in DOMAIN cache' : cache'[u].page \in Public
      BY <1>6, OlderPreview DEF TimePasses
    <2>2. \A r \in Request : stage[r] = "fetched" => preview'[r].page = preview[r].page
      BY <1>6, OlderPreview DEF TimePasses
    <2> QED
      BY <1>6, <2>1, <2>2 DEF TimePasses
  <1> QED
    BY <1>1, <1>2, <1>3, <1>4, <1>5, <1>6 DEF LinksNext

\* Every reachable state is well typed, and what it holds is validated.
LEMMA TypedAndValidated == LinksSpec => [](LinksTypeOK /\ Validated)
  <1>1. LinksInit => LinksTypeOK /\ Validated
    BY NothingIsPreview, LimitAssumption DEF LinksInit, LinksTypeOK, Validated
  <1>2. LinksTypeOK /\ Validated /\ [LinksNext]_linksVars => (LinksTypeOK /\ Validated)'
    <2> SUFFICES ASSUME LinksTypeOK, Validated, [LinksNext]_linksVars PROVE (LinksTypeOK /\ Validated)'
      OBVIOUS
    <2>1. CASE LinksNext
      BY <2>1, StoreTypes, FetchTypes, PassingTypes, StepValidated DEF LinksNext
    <2>2. CASE UNCHANGED linksVars
      BY <2>2 DEF linksVars, handler, LinksTypeOK, Validated
    <2> QED
      BY <2>1, <2>2
  <1> QED
    BY <1>1, <1>2, PTL DEF LinksSpec

THEOREM LinksTypeCorrect == LinksSpec => []LinksTypeOK
  BY TypedAndValidated, PTL

\* No hop is requested, and no preview names a page, that validate_url would
\* refuse, and there are at most MAX_REDIRECTS of them.
THEOREM HopsAreChecked == LinksSpec => []HopsChecked
  <1>1. LinksTypeOK /\ Validated => HopsChecked
    BY DEF Validated, HopsChecked
  <1> QED
    BY <1>1, TypedAndValidated, PTL

-----------------------------------------------------------------------------
\* One entry goes when the cache is full, so there is room for the new one.
LEMMA StoreBounded ==
  ASSUME Bounded, NEW r \in Request, Store(r)
  PROVE  Bounded'
  <1> USE LimitAssumption
  <1>1. PICK old \in Oldest : DOMAIN cache' = (DOMAIN cache \ {old}) \cup {url[r]}
    BY DEF Store, StoreAs
  <1> DEFINE Kept == DOMAIN cache \ {old}
  <1>2. IsFiniteSet(Kept) /\ Cardinality(Kept) \in Nat /\ Cardinality(Kept) < MaxEntries
    <2>1. IsFiniteSet(Kept) /\ Cardinality(DOMAIN cache) \in Nat
      BY FS_CardinalityType, FS_Subset DEF Bounded
    <2>2. Cardinality(Kept) = IF old \in DOMAIN cache THEN Cardinality(DOMAIN cache) - 1
                              ELSE Cardinality(DOMAIN cache)
      BY FS_RemoveElement, FS_CardinalityType DEF Bounded
    <2>3. old \in DOMAIN cache \/ Cardinality(DOMAIN cache) < MaxEntries
      BY <1>1 DEF Oldest
    <2>4. Cardinality(Kept) \in Nat
      BY <2>1, FS_CardinalityType
    <2> QED
      BY <2>1, <2>2, <2>3, <2>4 DEF Bounded, CacheBounded
  <1> HIDE DEF Kept
  <1>3. IsFiniteSet(Kept \cup {url[r]})
        /\ Cardinality(Kept \cup {url[r]}) <= Cardinality(Kept) + 1
    BY <1>2, FS_AddElement
  <1>4. DOMAIN cache' = Kept \cup {url[r]}
    BY <1>1 DEF Kept
  <1>5. Cardinality(Kept \cup {url[r]}) <= MaxEntries
    BY <1>2, <1>3, FS_CardinalityType
  <1> QED
    BY <1>3, <1>4, <1>5 DEF Bounded, CacheBounded

\* The cache never holds more than CACHE_MAX_ENTRIES, though requests that found
\* room for one store at the same time.
THEOREM CacheIsBounded == LinksSpec => []CacheBounded
  <1>1. LinksInit => Bounded
    BY FS_EmptySet, LimitAssumption DEF LinksInit, Bounded, CacheBounded
  <1>2. Bounded /\ [LinksNext]_linksVars => Bounded'
    <2> SUFFICES ASSUME Bounded, [LinksNext]_linksVars PROVE Bounded'
      OBVIOUS
    <2>1. ASSUME NEW r \in Request, Store(r) PROVE Bounded'
      BY <2>1, StoreBounded
    <2>2. CASE DOMAIN cache' = DOMAIN cache
      BY <2>2 DEF Bounded, CacheBounded
    <2>3. TimePasses => DOMAIN cache' = DOMAIN cache
      BY DEF TimePasses
    <2>4. UNCHANGED cache => DOMAIN cache' = DOMAIN cache
      OBVIOUS
    <2> QED
      BY <2>1, <2>2, <2>3, <2>4 DEF LinksNext, Lookup, Redirected, Fetched, Failed, linksVars
  <1>3. Bounded => CacheBounded
    BY DEF Bounded
  <1> QED
    BY <1>1, <1>2, <1>3, PTL DEF LinksSpec

-----------------------------------------------------------------------------
\* A link whose preview is not too old and was not evicted is cached, as old as told.
Known ==
  \A u \in Url : told[u] < Ttl /\ u \notin evicted =>
    u \in DOMAIN cache /\ cache[u].age = told[u]

\* The link stored is known, and the entry that goes is recorded.
LEMMA StoreKnown ==
  ASSUME LinksTypeOK, Validated, Known, NEW r \in Request, Store(r)
  PROVE  Known'
  <1>1. url[r] \in Url /\ preview[r].age \in 0..Ttl
    BY DEF Store, StoreAs, Validated, LinksTypeOK, Preview
  <1>2. PICK old \in Oldest :
          /\ cache' = [u \in (DOMAIN cache \ {old}) \cup {url[r]} |->
                         IF u = url[r] THEN preview[r] ELSE cache[u]]
          /\ evicted' = (evicted \cup ({old} \ {NoUrl})) \ {url[r]}
    BY DEF Store, StoreAs
  <1>3. told' = [told EXCEPT ![url[r]] = preview[r].age]
    BY DEF Store, StoreAs
  <1> SUFFICES ASSUME NEW u \in Url, told'[u] < Ttl, u \notin evicted'
               PROVE  u \in DOMAIN cache' /\ cache'[u].age = told'[u]
    BY DEF Known
  <1>4. CASE u = url[r]
    BY <1>1, <1>2, <1>3, <1>4 DEF LinksTypeOK
  <1>5. CASE u # url[r]
    <2>1. u \notin evicted /\ u # old /\ told'[u] = told[u]
      BY <1>2, <1>3, <1>5, UrlAssumption DEF LinksTypeOK
    <2>2. u \in DOMAIN cache /\ cache[u].age = told[u]
      BY <2>1 DEF Known
    <2> QED
      BY <1>2, <1>5, <2>1, <2>2
  <1> QED
    BY <1>4, <1>5

\* What is told and what is cached become older together.
LEMMA PassingKnown ==
  ASSUME LinksTypeOK, Known, TimePasses
  PROVE  Known'
  <1> SUFFICES ASSUME NEW u \in Url, told'[u] < Ttl, u \notin evicted'
               PROVE  u \in DOMAIN cache' /\ cache'[u].age = told'[u]
    BY DEF Known
  <1>1. told[u] \in 0..Ttl /\ told'[u] = Older(told[u]) /\ u \notin evicted
    BY DEF TimePasses, LinksTypeOK
  <1>2. told[u] < Ttl
    BY <1>1, LimitAssumption DEF Older
  <1>3. u \in DOMAIN cache /\ cache[u].age = told[u]
    BY <1>1, <1>2 DEF Known
  <1> QED
    BY <1>1, <1>3 DEF TimePasses, Aged

\* The other steps change neither what is cached nor what is told.
LEMMA KnownStep ==
  ASSUME LinksTypeOK, Validated, Known, [LinksNext]_linksVars
  PROVE  Known'
  <1>1. ASSUME NEW r \in Request, Store(r) PROVE Known'
    BY <1>1, StoreKnown
  <1>2. CASE TimePasses
    BY <1>2, PassingKnown
  <1>3. CASE UNCHANGED <<cache, told, evicted>>
    BY <1>3 DEF Known
  <1> QED
    BY <1>1, <1>2, <1>3 DEF LinksNext, Lookup, Redirected, Fetched, Failed, linksVars

\* A fetch begins with a lookup that has found nothing fresh.
LEMMA FetchIsLookup ==
  ASSUME LinksTypeOK, LinksNext, NEW r \in Request, stage[r] = "idle", stage'[r] = "fetching"
  PROVE  \E u \in Url : url'[r] = u /\ ~Fresh(u)
  <1>1. ASSUME NEW q \in Request, NEW u \in Url, Lookup(q, u)
        PROVE  q = r /\ url'[r] = u /\ ~Fresh(u)
    BY <1>1 DEF Lookup, LinksTypeOK
  <1>2. ASSUME NEW q \in Request, NEW u \in Url, Redirected(q, u) PROVE FALSE
    BY <1>2 DEF Redirected, Answer, LinksTypeOK
  <1>3. ASSUME NEW q \in Request, Fetched(q) \/ Failed(q) \/ Store(q) PROVE FALSE
    BY <1>3 DEF Fetched, Failed, Store, StoreAs, Answer, LinksTypeOK
  <1>4. ~TimePasses
    BY DEF TimePasses
  <1> QED
    BY <1>1, <1>2, <1>3, <1>4 DEF LinksNext

\* A link with a preview that is not older than the TTL and was not evicted is not
\* fetched, whoever asks for it and whatever was stored meanwhile (get_preview).
THEOREM StoredLinksAreNotFetched == LinksSpec => FetchesOnce
  <1>1. LinksInit => Known
    BY LimitAssumption DEF LinksInit, Known
  <1>2. LinksTypeOK /\ Validated /\ Known /\ [LinksNext]_linksVars => Known'
    BY KnownStep
  <1>3. LinksTypeOK /\ Known /\ [LinksNext]_linksVars =>
          [\A r \in Request, u \in Url :
             stage[r] = "idle" /\ stage'[r] = "fetching" /\ url'[r] = u
               => told[u] = Ttl \/ u \in evicted]_linksVars
    <2> SUFFICES ASSUME LinksTypeOK, Known, LinksNext, NEW r \in Request, NEW u \in Url,
                        stage[r] = "idle", stage'[r] = "fetching", url'[r] = u,
                        told[u] # Ttl, u \notin evicted
                 PROVE  FALSE
      OBVIOUS
    <2>1. ~Fresh(u)
      BY FetchIsLookup
    <2>2. told[u] < Ttl
      BY LimitAssumption DEF LinksTypeOK
    <2> QED
      BY <2>1, <2>2 DEF Known, Fresh
  <1> QED
    BY <1>1, <1>2, <1>3, TypedAndValidated, PTL DEF LinksSpec, FetchesOnce
=============================================================================
