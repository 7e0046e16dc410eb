-------------------------- MODULE AuthSessionsProofs --------------------------
(***************************************************************************)
(* Proofs about AuthSessions, for any tabs and requests: the types, one    *)
(* use of each pair and each code, live tokens in the browser, that no     *)
(* request waits for a refresh that is over, and how a session may end.    *)
(***************************************************************************)
EXTENDS AuthSessions, FiniteSetTheorems, TLAPS

\* An exchange belongs to a request that waits; the promise of a tab is that of the
\* exchange under way in it, and what waits in a tab waits for that promise.
Sharing ==
  /\ \A c \in Call : exchange[c] # "none" => pc[c] = "waiting"
  /\ \A c \in Call : exchange[c] # "none" /\ tab[c] # Nobody => inFlight[tab[c]] = c
  /\ \A t \in Tab : inFlight[t] \in Call =>
       exchange[inFlight[t]] # "none" /\ tab[inFlight[t]] = t
  /\ \A c \in Call : pc[c] = "waiting" /\ tab[c] # Nobody => inFlight[tab[c]] \in Call

\* Requests that may still be issued a pair: the bound of Send counts them.
MayIssue == {c \in Call : \/ pc[c] \in {"sent", "refused", "checked", "issuing"}
                          \/ exchange[c] \in {"sent", "checked"}}

Budget == issued + Cardinality(MayIssue) <= MaxPairs

Active == {c \in Call : pc[c] # "idle"}

-----------------------------------------------------------------------------
\* The steps by what they touch: the tabs' promises and exchanges, or nothing of it.

Steady ==
  \/ \E i \in Pair : Expire(i) \/ Lapse(i)
  \/ RequestOtp
  \/ \E c \in Call : \/ Deny(c) \/ Serve(c) \/ LogoutLoad(c) \/ LogoutCommit(c)
                     \/ VerifyLoad(c) \/ VerifyRefuse(c) \/ VerifyCommit(c)
                     \/ VerifyIssue(c) \/ Fail(c)

\* A request of a tab moves on without an exchange.
LEMMA SteadySteps ==
  ASSUME Steady
  PROVE  /\ UNCHANGED <<tab, inFlight, exchange, presented, stored>>
         /\ \/ UNCHANGED pc
            \/ \E c \in Call : /\ pc[c] \notin {"idle", "waiting"}
                               /\ \E to \in {"refused", "error", "ok", "revoking",
                                             "checked", "issuing"} :
                                    pc' = [pc EXCEPT ![c] = to]
  <1>1. ASSUME NEW i \in Pair, Expire(i) \/ Lapse(i)
        PROVE  UNCHANGED <<tab, inFlight, exchange, presented, stored, pc>>
    BY <1>1 DEF Expire, Lapse, browser, request, refresh
  <1>2. CASE RequestOtp
    BY <1>2 DEF RequestOtp, browser, request, refresh
  <1>3. ASSUME NEW c \in Call, Deny(c) \/ Serve(c) \/ LogoutLoad(c) \/ LogoutCommit(c)
        PROVE  /\ UNCHANGED <<tab, inFlight, exchange, presented, stored>>
               /\ pc[c] \notin {"idle", "waiting"}
               /\ \E to \in {"refused", "error", "ok", "revoking"} :
                    pc' = [pc EXCEPT ![c] = to]
    BY <1>3 DEF Deny, Serve, LogoutLoad, LogoutCommit, Goto, browser, request, refresh
  <1>4. ASSUME NEW c \in Call,
               VerifyLoad(c) \/ VerifyRefuse(c) \/ VerifyCommit(c) \/ VerifyIssue(c)
        PROVE  /\ UNCHANGED <<tab, inFlight, exchange, presented, stored>>
               /\ pc[c] \notin {"idle", "waiting"}
               /\ \E to \in {"error", "ok", "checked", "issuing"} :
                    pc' = [pc EXCEPT ![c] = to]
    BY <1>4 DEF VerifyLoad, VerifyRefuse, VerifyCommit, VerifyIssue, Goto, browser,
                request, refresh
  <1>5. ASSUME NEW c \in Call, Fail(c)
        PROVE  /\ UNCHANGED <<tab, inFlight, exchange, presented, stored>>
               /\ pc[c] \notin {"idle", "waiting"}
               /\ pc' = [pc EXCEPT ![c] = "error"]
    BY <1>5 DEF Fail, browser, request, refresh
  <1> QED
    BY <1>1, <1>2, <1>3, <1>4, <1>5 DEF Steady

\* Every step is one of these.
LEMMA StepKinds ==
  ASSUME [Next]_vars
  PROVE  \/ UNCHANGED vars
         \/ Steady
         \/ \E c \in Call : \/ \E t \in Tab, k \in {"api", "boot", "logout", "login"} :
                                 Send(c, t, k)
                            \/ Finish(c) \/ Refused(c) \/ ExchangeEnds(c) \/ Unheard(c)
                            \/ RefreshCheck(c) \/ RefreshCommit(c) \/ FailExchange(c)
         \/ \E t \in Tab : Reload(t)
  BY DEF Next, Handler, Client, Steady

-----------------------------------------------------------------------------
\* The promise of a tab is that of the exchange under way in it: each step keeps it.
LEMMA SharingStep ==
  ASSUME TypeOK, Sharing, [Next]_vars
  PROVE  Sharing'
  <1> USE NobodyAssumption, CallAssumption
  <1>0. /\ inFlight \in [Tab -> Call \cup {"none", "wedged"}]
        /\ tab \in [Call -> Tab \cup {Nobody}]
        /\ exchange \in [Call -> {"none", "sent", "checked", "granted", "refused"}]
        /\ DOMAIN pc = Call
    BY DEF TypeOK
  <1>1. CASE UNCHANGED vars
    BY <1>1 DEF vars, browser, request, refresh, Sharing
  <1>2. CASE Steady
    BY <1>0, <1>2, SteadySteps DEF Sharing, TypeOK
  <1>3. ASSUME NEW c \in Call, NEW t \in Tab, NEW k, Send(c, t, k) PROVE Sharing'
    <2>1. /\ pc[c] = "idle" /\ pc' = [pc EXCEPT ![c] = "sent"]
          /\ tab' = [tab EXCEPT ![c] = t] /\ UNCHANGED <<inFlight, exchange>>
      BY <1>3 DEF Send, Goto, browser, refresh
    <2> QED
      BY <1>0, <2>1 DEF Sharing
  <1>4. ASSUME NEW c \in Call, Finish(c) PROVE Sharing'
    <2>1. /\ pc[c] \in {"ok", "error"} /\ pc' = [pc EXCEPT ![c] = "idle"]
          /\ tab' = [tab EXCEPT ![c] = Nobody] /\ UNCHANGED <<inFlight, exchange>>
      BY <1>4 DEF Finish, Done, refresh
    <2> QED
      BY <1>0, <2>1 DEF Sharing
  <1>5. ASSUME NEW c \in Call, Refused(c) PROVE Sharing'
    <2> DEFINE t == tab[c]
    <2>1. t \in Tab /\ pc[c] = "refused" /\ UNCHANGED tab
      BY <1>0, <1>5 DEF Refused, RefreshTokens, request
    <2>2. \/ /\ inFlight[t] = "none"
             /\ inFlight' = [inFlight EXCEPT ![t] = c]
             /\ exchange' = [exchange EXCEPT ![c] = "sent"]
             /\ pc' = [pc EXCEPT ![c] = "waiting"]
          \/ /\ inFlight[t] \in Call
             /\ pc' = [pc EXCEPT ![c] = "waiting"]
             /\ UNCHANGED <<inFlight, exchange>>
          \/ /\ inFlight[t] \in {"none", "wedged"}
             /\ inFlight' = [inFlight EXCEPT ![t] = "wedged"]
             /\ pc' = [pc EXCEPT ![c] = "error"]
             /\ UNCHANGED exchange
      BY <1>5 DEF Refused, RefreshTokens, refresh
    <2>3. exchange[c] = "none"
      BY <2>1 DEF Sharing
    <2> HIDE DEF t
    <2>4. t = tab[c]
      BY DEF t
    <2> QED
      BY <1>0, <2>1, <2>2, <2>3, <2>4 DEF Sharing
  <1>6. ASSUME NEW c \in Call, ExchangeEnds(c) PROVE Sharing'
    <2>1. /\ exchange[c] # "none" /\ tab[c] \in Tab /\ UNCHANGED tab
          /\ exchange' = [exchange EXCEPT ![c] = "none"]
          /\ inFlight' = [inFlight EXCEPT ![tab[c]] = "none"]
      BY <1>0, <1>6 DEF ExchangeEnds, Answered
    <2>2. \E to \in {"resent", "error"} :
            pc' = [d \in Call |-> IF tab[d] = tab[c] /\ pc[d] = "waiting" THEN to ELSE pc[d]]
      BY <1>6 DEF ExchangeEnds, Answered, Waiting
    <2> QED
      BY <1>0, <2>1, <2>2 DEF Sharing
  <1>7. ASSUME NEW c \in Call, Unheard(c) PROVE Sharing'
    <2>1. /\ tab[c] = Nobody /\ UNCHANGED inFlight
          /\ exchange' = [exchange EXCEPT ![c] = "none"]
          /\ pc' = [pc EXCEPT ![c] = "idle"]
          /\ tab' = [tab EXCEPT ![c] = Nobody]
      BY <1>7 DEF Unheard, Done, browser
    <2> QED
      BY <1>0, <2>1 DEF Sharing
  <1>8. ASSUME NEW c \in Call, RefreshCheck(c) \/ RefreshCommit(c) \/ FailExchange(c)
        PROVE  Sharing'
    <2>1. /\ exchange[c] # "none" /\ UNCHANGED <<tab, pc, inFlight>>
          /\ \E to \in {"checked", "refused", "granted"} :
               exchange' = [exchange EXCEPT ![c] = to]
      BY <1>8 DEF RefreshCheck, RefreshCommit, Exchange, FailExchange, browser, request
    <2> QED
      BY <1>0, <2>1 DEF Sharing
  <1>9. ASSUME NEW t \in Tab, Reload(t) PROVE Sharing'
    <2>1. /\ inFlight' = [inFlight EXCEPT ![t] = "none"]
          /\ tab' = [c \in Call |-> IF tab[c] = t /\ pc[c] # "idle" THEN Nobody ELSE tab[c]]
          /\ UNCHANGED <<pc, exchange>>
      BY <1>9 DEF Reload, refresh
    <2> QED
      BY <1>0, <2>1 DEF Sharing
  <1> QED
    BY <1>1, <1>2, <1>3, <1>4, <1>5, <1>6, <1>7, <1>8, <1>9, StepKinds

-----------------------------------------------------------------------------
\* Pairs do not run out: who may still be issued one is counted.

LEMMA MayIssueFinite ==
  /\ IsFiniteSet(MayIssue) /\ Cardinality(MayIssue) \in Nat
  /\ IsFiniteSet(MayIssue') /\ Cardinality(MayIssue') \in Nat
  <1>1. MayIssue \in SUBSET Call /\ MayIssue' \in SUBSET Call
    BY DEF MayIssue
  <1> QED
    BY <1>1, CallAssumption, FS_Subset, FS_CardinalityType

\* Who commits is one of those who were counted, and is no longer.
LEMMA IssueBudget ==
  ASSUME TypeOK, Budget, NEW c \in MayIssue
  PROVE  /\ issued + 1 \in Pair
         /\ issued' = issued + 1 /\ MayIssue' \subseteq MayIssue \ {c} => Budget'
  <1>1. /\ IsFiniteSet(MayIssue \ {c})
        /\ Cardinality(MayIssue \ {c}) = Cardinality(MayIssue) - 1
        /\ Cardinality(MayIssue \ {c}) \in Nat
    BY MayIssueFinite, FS_RemoveElement, FS_CardinalityType
  <1>2. issued \in Nat /\ MaxPairs \in Nat
    BY BoundAssumption DEF TypeOK, Pair
  <1>3. issued + 1 \in Pair
    BY <1>1, <1>2, MayIssueFinite DEF Budget, Pair
  <1>4. ASSUME issued' = issued + 1, MayIssue' \subseteq MayIssue \ {c} PROVE Budget'
    <2>1. Cardinality(MayIssue') <= Cardinality(MayIssue \ {c})
      BY <1>1, <1>4, FS_Subset
    <2> QED
      BY <1>1, <1>2, <1>4, <2>1, MayIssueFinite DEF Budget
  <1> QED
    BY <1>3, <1>4

LEMMA SameBudget ==
  ASSUME TypeOK, Budget, issued' = issued, MayIssue' \subseteq MayIssue
  PROVE  Budget'
  <1>1. Cardinality(MayIssue') <= Cardinality(MayIssue)
    BY MayIssueFinite, FS_Subset
  <1>2. issued \in Nat /\ MaxPairs \in Nat
    BY BoundAssumption DEF TypeOK, Pair
  <1> QED
    BY <1>1, <1>2, MayIssueFinite DEF Budget

LEMMA BudgetStep ==
  ASSUME TypeOK, Sharing, Budget, [Next]_vars
  PROVE  Budget'
  <1>0. DOMAIN pc = Call /\ DOMAIN exchange = Call /\ issued \in Nat /\ MaxPairs \in Nat
    BY BoundAssumption DEF TypeOK, Pair
  <1>1. CASE UNCHANGED vars
    BY <1>1, SameBudget DEF vars, server, refresh, MayIssue
  <1>2. CASE RequestOtp \/ \E i \in Pair : Expire(i) \/ Lapse(i)
    BY <1>2, SameBudget DEF RequestOtp, Expire, Lapse, server, refresh, MayIssue
  <1>3. ASSUME NEW c \in Call,
               Deny(c) \/ Serve(c) \/ LogoutLoad(c) \/ LogoutCommit(c) \/ Fail(c)
        PROVE  Budget'
    <2>1. UNCHANGED <<issued, exchange>>
      BY <1>3 DEF Deny, Serve, LogoutLoad, LogoutCommit, Fail, server, refresh
    <2>2. \/ pc' = [pc EXCEPT ![c] = "refused"] /\ pc[c] = "sent"
          \/ \E to \in {"error", "ok", "revoking"} : pc' = [pc EXCEPT ![c] = to]
      BY <1>3 DEF Deny, Serve, LogoutLoad, LogoutCommit, Fail, Goto
    <2>3. MayIssue' \subseteq MayIssue
      BY <1>0, <2>1, <2>2 DEF MayIssue
    <2> QED
      BY <2>1, <2>3, SameBudget
  <1>4. ASSUME NEW c \in Call, VerifyLoad(c) \/ VerifyRefuse(c) \/ VerifyCommit(c)
        PROVE  Budget'
    <2>1. /\ UNCHANGED <<issued, exchange>>
          /\ pc[c] \in {"sent", "checked"}
          /\ \E to \in {"error", "checked", "issuing"} : pc' = [pc EXCEPT ![c] = to]
      BY <1>4 DEF VerifyLoad, VerifyRefuse, VerifyCommit, Goto, server, refresh
    <2>2. MayIssue' \subseteq MayIssue
      BY <1>0, <2>1 DEF MayIssue
    <2> QED
      BY <2>1, <2>2, SameBudget
  <1>5. ASSUME NEW c \in Call, VerifyIssue(c) PROVE Budget'
    <2>1. /\ pc[c] = "issuing" /\ pc' = [pc EXCEPT ![c] = "ok"]
          /\ UNCHANGED exchange /\ issued' = issued + 1
      BY <1>5 DEF VerifyIssue, Goto, Issue, refresh
    <2>2. exchange[c] = "none"
      BY <2>1 DEF Sharing
    <2>3. c \in MayIssue /\ MayIssue' \subseteq MayIssue \ {c}
      BY <1>0, <2>1, <2>2 DEF MayIssue
    <2> QED
      BY <2>1, <2>3, IssueBudget
  <1>6. ASSUME NEW c \in Call, RefreshCommit(c) PROVE Budget'
    <2>1. /\ exchange[c] = "checked" /\ exchange' = [exchange EXCEPT ![c] = "granted"]
          /\ UNCHANGED pc /\ issued' = issued + 1
      BY <1>6 DEF RefreshCommit, Exchange, Issue
    <2>2. pc[c] = "waiting"
      BY <2>1 DEF Sharing
    <2>3. c \in MayIssue /\ MayIssue' \subseteq MayIssue \ {c}
      BY <1>0, <2>1, <2>2 DEF MayIssue
    <2> QED
      BY <2>1, <2>3, IssueBudget
  <1>7. ASSUME NEW c \in Call, RefreshCheck(c) \/ FailExchange(c) PROVE Budget'
    <2>1. /\ UNCHANGED <<pc, issued>>
          /\ \/ exchange[c] = "sent" /\ exchange' = [exchange EXCEPT ![c] = "checked"]
             \/ exchange' = [exchange EXCEPT ![c] = "refused"]
      BY <1>7 DEF RefreshCheck, FailExchange, server
    <2>2. MayIssue' \subseteq MayIssue
      BY <1>0, <2>1 DEF MayIssue
    <2> QED
      BY <2>1, <2>2, SameBudget
  <1>8. ASSUME NEW c \in Call, Finish(c) \/ Unheard(c) PROVE Budget'
    <2>1. /\ issued' = issued /\ pc' = [pc EXCEPT ![c] = "idle"]
          /\ UNCHANGED exchange \/ exchange' = [exchange EXCEPT ![c] = "none"]
      BY <1>8 DEF Finish, Unheard, Done, server, refresh
    <2>2. MayIssue' \subseteq MayIssue
      BY <1>0, <2>1 DEF MayIssue
    <2> QED
      BY <2>1, <2>2, SameBudget
  <1>9. ASSUME NEW c \in Call, Refused(c) PROVE Budget'
    <2>1. /\ issued' = issued /\ pc[c] = "refused"
          /\ \E to \in {"waiting", "error"} : pc' = [pc EXCEPT ![c] = to]
          /\ UNCHANGED exchange \/ exchange' = [exchange EXCEPT ![c] = "sent"]
      BY <1>9 DEF Refused, RefreshTokens, server, refresh
    <2>2. MayIssue' \subseteq MayIssue
      BY <1>0, <2>1 DEF MayIssue
    <2> QED
      BY <2>1, <2>2, SameBudget
  <1>10. ASSUME NEW c \in Call, ExchangeEnds(c) PROVE Budget'
    <2>1. /\ issued' = issued
          /\ exchange' = [exchange EXCEPT ![c] = "none"]
          /\ \E to \in {"resent", "error"} :
               pc' = [d \in Call |-> IF d \in Waiting(c) THEN to ELSE pc[d]]
      BY <1>10 DEF ExchangeEnds, Answered, server
    <2>2. MayIssue' \subseteq MayIssue
      BY <1>0, <2>1 DEF MayIssue
    <2> QED
      BY <2>1, <2>2, SameBudget
  <1>11. ASSUME NEW t \in Tab, Reload(t) PROVE Budget'
    BY <1>11, SameBudget DEF Reload, server, refresh, MayIssue
  <1>12. ASSUME NEW c \in Call, NEW t \in Tab, NEW k, Send(c, t, k) PROVE Budget'
    <2>1. /\ issued' = issued /\ UNCHANGED exchange
          /\ pc[c] = "idle" /\ pc' = [pc EXCEPT ![c] = "sent"]
          /\ issued + Cardinality(Active) < MaxPairs
      BY <1>12 DEF Send, Goto, server, refresh, Active
    <2>2. IsFiniteSet(Active) /\ Cardinality(Active) \in Nat
      <3>1. Active \in SUBSET Call
        BY DEF Active
      <3> QED
        BY <3>1, CallAssumption, FS_Subset, FS_CardinalityType
    <2>3. MayIssue' \subseteq Active \cup {c} /\ c \notin Active
      BY <1>0, <2>1 DEF MayIssue, Active, Sharing
    <2>4. IsFiniteSet(Active \cup {c}) /\ Cardinality(Active \cup {c}) = Cardinality(Active) + 1
      BY <2>2, <2>3, FS_AddElement
    <2>5. Cardinality(MayIssue') <= Cardinality(Active) + 1
      BY <2>3, <2>4, FS_Subset
    <2> QED
      BY <1>0, <2>1, <2>2, <2>5, MayIssueFinite DEF Budget
  <1> QED
    BY <1>1, <1>2, <1>3, <1>4, <1>5, <1>6, <1>7, <1>8, <1>9, <1>10, <1>11, <1>12, StepKinds
       DEF Steady

-----------------------------------------------------------------------------
\* Types.

\* An exchange presents a pair.
Presents == \A c \in Call : exchange[c] # "none" => presented[c] # 0

LEMMA PresentsStep ==
  ASSUME TypeOK, Presents, [Next]_vars
  PROVE  Presents'
  <1>0. DOMAIN exchange = Call /\ DOMAIN presented = Call
    BY DEF TypeOK
  <1>1. CASE UNCHANGED vars \/ Steady
    BY <1>1, SteadySteps DEF vars, refresh, Presents
  <1>2. ASSUME NEW c \in Call,
               \/ Finish(c) \/ Unheard(c) \/ ExchangeEnds(c)
               \/ \E t \in Tab, k \in {"api", "boot", "logout", "login"} : Send(c, t, k)
        PROVE  Presents'
    BY <1>0, <1>2 DEF Finish, Unheard, ExchangeEnds, Answered, Send, refresh, Presents
  <1>3. ASSUME NEW c \in Call, RefreshCheck(c) \/ RefreshCommit(c) \/ FailExchange(c)
        PROVE  Presents'
    BY <1>0, <1>3 DEF RefreshCheck, RefreshCommit, Exchange, FailExchange, Presents
  <1>4. ASSUME NEW c \in Call, Refused(c) PROVE Presents'
    BY <1>0, <1>4 DEF Refused, RefreshTokens, refresh, Presents
  <1>5. ASSUME NEW t \in Tab, Reload(t) PROVE Presents'
    BY <1>5 DEF Reload, refresh, Presents
  <1> QED
    BY <1>1, <1>2, <1>3, <1>4, <1>5, StepKinds

Work == [revoke : SUBSET Pair, code : 0..MaxCodes, newUser : BOOLEAN]

LEMMA SourceTypes ==
  /\ \A p \in {0} \cup Pair : OfPair(p) \in Source
  /\ \A k \in 0..MaxCodes : OfCode(k) \in Source
  /\ Neither \in Source
  /\ NoWork \in Work
  BY BoundAssumption DEF OfPair, OfCode, Neither, Source, NoWork, Work

\* The browser: the types.
LEMMA BrowserTypes ==
  ASSUME TypeOK, Presents, NEW c \in Call,
         \/ \E t \in Tab, k \in {"api", "boot", "logout", "login"} : Send(c, t, k)
         \/ Finish(c) \/ Refused(c) \/ ExchangeEnds(c) \/ Unheard(c)
  PROVE  TypeOK'
  <1> USE DEF TypeOK
  <1>0. NoWork \in [revoke : SUBSET Pair, code : 0..MaxCodes, newUser : BOOLEAN]
    BY SourceTypes DEF Work
  <1>1. ASSUME NEW t \in Tab, NEW k \in {"api", "boot", "logout", "login"}, Send(c, t, k)
        PROVE  TypeOK'
    BY <1>1 DEF Send, Goto, NoteCrossing, server, browser, refresh
  <1>2. CASE Finish(c)
    <2>1. stored' \in {0} \cup Pair /\ outlived' \in BOOLEAN
      BY <1>2 DEF Finish
    <2> QED
      BY <1>0, <1>2, <2>1 DEF Finish, Done, server, refresh
  <1>3. CASE Refused(c)
    <2>a. inFlight' \in [Tab -> Call \cup {"none", "wedged"}]
      BY <1>3 DEF Refused, RefreshTokens
    <2>b. exchange' \in [Call -> {"none", "sent", "checked", "granted", "refused"}]
      BY <1>3 DEF Refused, RefreshTokens, refresh
    <2>c. presented' \in [Call -> {0} \cup Pair]
      <3>1. presented' = presented \/ presented' = [presented EXCEPT ![c] = stored]
        BY <1>3 DEF Refused, RefreshTokens, refresh
      <3> QED
        BY <3>1
    <2>2. /\ stored' \in {0} \cup Pair
          /\ pc' \in [Call -> {"idle", "sent", "resent", "refused", "waiting", "revoking",
                               "checked", "issuing", "ok", "error"}]
      BY <1>3 DEF Refused, RefreshTokens
    <2>3. crossed' \in BOOLEAN
      BY <1>3 DEF Refused, RefreshTokens, NoteCrossing
    <2> QED
      BY <1>3, <2>a, <2>b, <2>c, <2>2, <2>3 DEF Refused, RefreshTokens, server, request
  <1>4. CASE ExchangeEnds(c)
    <2>1. exchange' \in [Call -> {"none", "sent", "checked", "granted", "refused"}]
          /\ presented' \in [Call -> {0} \cup Pair] /\ got' \in [Call -> {0} \cup Pair]
          /\ inFlight' \in [Tab -> Call \cup {"none", "wedged"}]
      BY <1>4 DEF ExchangeEnds, Answered
    <2>2. stored' \in {0} \cup Pair /\ bearer' \in [Call -> {0} \cup Pair]
          /\ pc' \in [Call -> {"idle", "sent", "resent", "refused", "waiting", "revoking",
                               "checked", "issuing", "ok", "error"}]
      BY <1>4 DEF ExchangeEnds, Answered
    <2> QED
      BY <1>4, <2>1, <2>2 DEF ExchangeEnds, Answered, server
  <1>5. CASE Unheard(c)
    <2>1. lost' \subseteq Pair
      BY <1>5 DEF Unheard, Presents
    <2> QED
      BY <1>0, <1>5, <2>1 DEF Unheard, Done, server, browser
  <1> QED
    BY <1>1, <1>2, <1>3, <1>4, <1>5

\* A row, an origin and an answer for the pair that is issued.
LEMMA IssueTypes ==
  ASSUME TypeOK, issued + 1 \in Pair, NEW c \in Call, NEW s \in Source, Issue(c, s)
  PROVE  /\ issued' \in {0} \cup Pair /\ got' \in [Call -> {0} \cup Pair]
         /\ origin' \in [Pair -> Source]
  BY DEF TypeOK, Issue

\* The server: the types.
LEMMA ServerTypes ==
  ASSUME TypeOK, Sharing, Budget, Presents, NEW c \in Call, Handler(c)
  PROVE  TypeOK'
  <1>1. CASE Deny(c) \/ Serve(c) \/ VerifyRefuse(c)
    <2>1. pc' \in [Call -> {"idle", "sent", "resent", "refused", "waiting", "revoking",
                            "checked", "issuing", "ok", "error"}]
      BY <1>1 DEF TypeOK, Deny, Serve, VerifyRefuse, Goto
    <2>2. UNCHANGED <<server, age, browser, request, refresh, got, work,
                      contested, lost, ended, crossed, outlived, faults>>
      BY <1>1 DEF Deny, Serve, VerifyRefuse
    <2> QED
      BY <2>1, <2>2 DEF TypeOK, server, browser, request, refresh
  <1>2. CASE LogoutLoad(c)
    <2>1. \A rows \in SUBSET Pair : Revoking(rows) \in Work
      BY BoundAssumption DEF Revoking, Work
    <2>2. PICK rows \in SUBSET Pair : work' = [work EXCEPT ![c] = Revoking(rows)]
      <3>1. body[c] \in {0} \cup Pair
        BY DEF TypeOK
      <3> QED
        BY <1>2, <3>1 DEF LogoutLoad
    <2>3. work \in [Call -> Work] /\ Revoking(rows) \in Work
      BY <2>1 DEF TypeOK, Work
    <2>4. work' \in [Call -> Work]
      BY <2>2, <2>3
    <2> QED
      BY <1>2, <2>4 DEF TypeOK, Work, LogoutLoad, server, browser, request, refresh
  <1>3. CASE LogoutCommit(c)
    <2>1. work[c].revoke \subseteq Pair
      BY DEF TypeOK
    <2> QED
      BY <1>3, <2>1, SourceTypes
         DEF TypeOK, Work, LogoutCommit, Goto, browser, request, refresh
  <1>4. CASE RefreshCheck(c)
    <2>1. OfPair(presented[c]) \in Source
      BY SourceTypes DEF TypeOK
    <2>2. contested' \subseteq contested \cup {OfPair(presented[c])}
      BY <1>4 DEF RefreshCheck
    <2>3. contested' \in SUBSET Source
      BY <2>1, <2>2 DEF TypeOK
    <2> QED
      BY <1>4, <2>3 DEF TypeOK, RefreshCheck, server, browser, request
  <1>5. CASE RefreshCommit(c)
    <2>1. c \in MayIssue
      BY <1>5 DEF RefreshCommit, Exchange, MayIssue
    <2>2. issued + 1 \in Pair
      BY <2>1, IssueBudget
    <2>3. OfPair(presented[c]) \in Source
      BY SourceTypes DEF TypeOK
    <2>4. issued' \in {0} \cup Pair /\ got' \in [Call -> {0} \cup Pair]
          /\ origin' \in [Pair -> Source]
      BY <1>5, <2>2, <2>3, IssueTypes DEF RefreshCommit, Exchange
    <2> QED
      BY <1>5, <2>4 DEF TypeOK, RefreshCommit, Exchange, browser, request
  <1>6. CASE VerifyLoad(c)
    <2>1. PICK code \in open :
            /\ work' = [work EXCEPT ![c] = Challenge(code)]
            /\ contested' \subseteq contested \cup {OfCode(code)}
            /\ pc' = [pc EXCEPT ![c] = "checked"]
      BY <1>6 DEF VerifyLoad, Goto
    <2>2. code \in 0..MaxCodes
      BY <2>1, BoundAssumption DEF TypeOK
    <2>3. Challenge(code) \in Work
      BY <2>2 DEF Challenge, NoWork, Work, TypeOK
    <2>4. work' \in [Call -> Work] /\ contested' \in SUBSET Source
      BY <2>1, <2>2, <2>3, SourceTypes DEF TypeOK, Work
    <2> QED
      BY <1>6, <2>1, <2>4 DEF TypeOK, Work, VerifyLoad, server, browser, request, refresh
  <1>7. CASE VerifyCommit(c)
    <2>1. open' \subseteq open
      BY <1>7 DEF VerifyCommit
    <2>2. account' \in BOOLEAN
      <3>1. account' = account \/ account' = TRUE
        BY <1>7 DEF VerifyCommit
      <3> QED
        BY <3>1 DEF TypeOK
    <2>3. pc' \in [Call -> {"idle", "sent", "resent", "refused", "waiting", "revoking",
                           "checked", "issuing", "ok", "error"}]
      <3>1. pc' = [pc EXCEPT ![c] = "error"] \/ pc' = [pc EXCEPT ![c] = "issuing"]
        BY <1>7 DEF VerifyCommit, Goto
      <3> QED
        BY <3>1 DEF TypeOK
    <2>4. UNCHANGED <<issued, row, codes, origin, age, browser, request, refresh, got, work,
                      contested, lost, ended, crossed, outlived, faults>>
      BY <1>7 DEF VerifyCommit
    <2> QED
      BY <2>1, <2>2, <2>3, <2>4 DEF TypeOK, browser, request, refresh
  <1>8. CASE VerifyIssue(c)
    <2>1. c \in MayIssue
      BY <1>8 DEF VerifyIssue, Goto, MayIssue
    <2>2. issued + 1 \in Pair
      BY <2>1, IssueBudget
    <2>3. OfCode(work[c].code) \in Source
      BY SourceTypes DEF TypeOK
    <2>4. issued' \in {0} \cup Pair /\ got' \in [Call -> {0} \cup Pair]
          /\ origin' \in [Pair -> Source]
      BY <1>8, <2>2, <2>3, IssueTypes DEF VerifyIssue
    <2> QED
      BY <1>8, <2>4 DEF TypeOK, VerifyIssue, Goto, browser, request, refresh
  <1> QED
    BY <1>1, <1>2, <1>3, <1>4, <1>5, <1>6, <1>7, <1>8 DEF Handler

\* Time, codes and failures: the types.
LEMMA OtherTypes ==
  ASSUME TypeOK, Presents,
         \/ \E i \in Pair : Expire(i) \/ Lapse(i)
         \/ RequestOtp
         \/ \E c \in Call : Fail(c) \/ FailExchange(c)
         \/ \E t \in Tab : Reload(t)
  PROVE  TypeOK'
  <1> USE BoundAssumption DEF TypeOK
  <1>1. ASSUME NEW i \in Pair, Expire(i) \/ Lapse(i) PROVE TypeOK'
    <2>1. age' \in [Pair -> {"fresh", "stale", "dead"}]
      BY <1>1 DEF Expire, Lapse
    <2>2. UNCHANGED <<server, browser, request, pc, refresh, got, work,
                      contested, lost, ended, crossed, outlived, faults>>
      BY <1>1 DEF Expire, Lapse
    <2> QED
      BY <2>1, <2>2 DEF server, browser, request, refresh
  <1>2. CASE RequestOtp
    BY <1>2 DEF RequestOtp, browser, request, refresh
  <1>3. ASSUME NEW c \in Call, Fail(c) PROVE TypeOK'
    BY <1>3 DEF Fail, server, browser, request, refresh
  <1>4. ASSUME NEW c \in Call, FailExchange(c) PROVE TypeOK'
    <2>1. lost' \subseteq Pair
      BY <1>4 DEF FailExchange, Presents
    <2> QED
      BY <1>4, <2>1 DEF FailExchange, server, browser, request
  <1>5. ASSUME NEW t \in Tab, Reload(t) PROVE TypeOK'
    BY <1>5 DEF Reload, NoteCrossing, server, refresh
  <1> QED
    BY <1>1, <1>2, <1>3, <1>4, <1>5

\* Whatever happens, pairs suffice, exchanges present one, and who waits is owed an
\* answer.
Base == TypeOK /\ Sharing /\ Budget /\ Presents

LEMMA BaseInit ==
  ASSUME Init
  PROVE  Base
  <1>1. issued \in {0, 1} /\ issued \in {0} \cup Pair
    BY BoundAssumption DEF Init, Pair
  <1>2. Budget
    <2>1. MayIssue = {}
      BY DEF Init, MayIssue
    <2> QED
      BY <1>1, <2>1, FS_EmptySet, BoundAssumption DEF Budget
  <1>3. Sharing /\ Presents
    BY NobodyAssumption, CallAssumption DEF Init, Sharing, Presents
  <1>4. work \in [Call -> Work] /\ origin \in [Pair -> Source]
    BY SourceTypes DEF Init
  <1>5. /\ row \in [Pair -> {"none", "valid", "revoked"}]
        /\ age \in [Pair -> {"fresh", "stale", "dead"}]
        /\ codes \in 0..MaxCodes /\ open \subseteq 1..MaxCodes /\ faults \in 0..MaxFaults
    BY BoundAssumption DEF Init
  <1>6. account \in BOOLEAN /\ crossed \in BOOLEAN /\ outlived \in BOOLEAN
    BY DEF Init
  <1>7. TypeOK
    BY <1>1, <1>4, <1>5, <1>6 DEF Init, TypeOK, Work
  <1> QED
    BY <1>2, <1>3, <1>7 DEF Base

LEMMA BaseStep ==
  ASSUME Base, [Next]_vars
  PROVE  Base'
  <1>1. TypeOK'
    <2>1. CASE UNCHANGED vars
      BY <2>1 DEF Base, TypeOK, vars, server, browser, request, refresh
    <2>2. CASE Next
      BY <2>2, BrowserTypes, ServerTypes, OtherTypes DEF Base, Next, Client
    <2> QED
      BY <2>1, <2>2
  <1> QED
    BY <1>1, SharingStep, BudgetStep, PresentsStep DEF Base

\* Every reachable state is well typed; in particular the pairs that requests under way
\* may still be issued are within the bound of Send (TypeOK).
THEOREM TypeCorrect == Spec => []TypeOK
  <1>1. Base => TypeOK
    BY DEF Base
  <1> QED
    BY <1>1, BaseInit, BaseStep, PTL DEF Spec

\* A request that waits is owed an answer: the promise of its tab is that of an exchange
\* under way in this tab, however many requests were refused together and however the
\* exchange ends (refreshTokens in api.ts).
THEOREM NobodyWaitsInVain == Spec => []WaitersAreOwed
  <1>1. Base => WaitersAreOwed
    <2> SUFFICES ASSUME Base, NEW c \in Call, pc[c] = "waiting", tab[c] # Nobody
                 PROVE  /\ inFlight[tab[c]] \in Call
                        /\ exchange[inFlight[tab[c]]] # "none"
                        /\ tab[inFlight[tab[c]]] = tab[c]
      BY DEF WaitersAreOwed
    <2>1. tab[c] \in Tab
      BY DEF Base, TypeOK
    <2> QED
      BY <2>1 DEF Base, Sharing
  <1> QED
    BY <1>1, BaseInit, BaseStep, PTL DEF Spec

-----------------------------------------------------------------------------
\* Pairs are exchanged once.

\* Nothing was issued for a pair that is valid, nor for one that an exchange has
\* checked, unless another exchange had checked it too.
Pairs ==
  /\ \A i \in Pair : row[i] = "valid" => i <= issued
  /\ \A c \in Call : exchange[c] = "checked" => presented[c] <= issued
  /\ \A i \in 1..issued : origin[i].pair <= issued
  /\ \A i \in 1..issued : origin[i].pair # 0 => row[origin[i].pair] # "valid"
  /\ \A c \in Call : exchange[c] = "checked" /\ OfPair(presented[c]) \notin contested =>
       /\ \A i \in 1..issued : origin[i] # OfPair(presented[c])
       /\ \A d \in Call \ {c} : exchange[d] = "checked" => presented[d] # presented[c]

\* Nothing was issued for a code that is open, nor for one that a request is about to
\* use, unless another request had found it too.
Codes ==
  /\ open \subseteq 1..codes
  /\ \A i \in 1..issued : origin[i].code <= codes /\ origin[i].code \notin open
  /\ \A c \in Call : pc[c] \in {"checked", "issuing"} => work[c].code \in 1..codes
  /\ \A c \in Call : pc[c] = "issuing" => work[c].code \notin open
  /\ \A c \in Call :
       pc[c] \in {"checked", "issuing"} /\ OfCode(work[c].code) \notin contested =>
         /\ \A i \in 1..issued : origin[i] # OfCode(work[c].code)
         /\ \A d \in Call \ {c} :
              pc[d] \in {"checked", "issuing"} => work[d].code # work[c].code

\* No two pairs were issued for the same.
Once ==
  \A i, j \in 1..issued :
    origin[i] = origin[j] /\ origin[i] # Neither /\ origin[i] \notin contested => i = j

\* A step that issues nothing, checks nothing and makes no pair valid.
LEMMA PairsKept ==
  ASSUME Pairs, issued' = issued, origin' = origin, contested \subseteq contested',
         \A i \in Pair : row'[i] = "valid" => row[i] = "valid",
         \A i \in 1..issued : origin[i].pair \in {0} \cup Pair,
         \A c \in Call : exchange'[c] = "checked" =>
                          exchange[c] = "checked" /\ presented'[c] = presented[c]
  PROVE  Pairs'
  BY DEF Pairs

\* A step that issues nothing and opens or finds no code.
LEMMA CodesKept ==
  ASSUME Codes, issued' = issued, origin' = origin, contested \subseteq contested',
         open' \subseteq open, codes' = codes,
         \A c \in Call : pc'[c] \in {"checked", "issuing"} =>
                          /\ pc[c] \in {"checked", "issuing"}
                          /\ work'[c].code = work[c].code
                          /\ pc'[c] = "issuing" /\ pc[c] # "issuing" =>
                               work[c].code \notin open'
  PROVE  Codes'
  BY DEF Codes

LEMMA OnceKept ==
  ASSUME Once, issued' = issued, origin' = origin, contested \subseteq contested'
  PROVE  Once'
  BY DEF Once

\* The steps that neither issue a pair nor check one.
LEMMA PairsStep ==
  ASSUME Base, Base', Pairs, [Next]_vars
  PROVE  Pairs'
  <1>0. /\ DOMAIN exchange = Call /\ DOMAIN presented = Call /\ DOMAIN row = Pair
        /\ issued \in {0} \cup Pair /\ origin \in [Pair -> Source] /\ MaxPairs \in Nat
        /\ issued \in Nat
        /\ \A i \in 1..issued : i \in Pair /\ origin[i].pair \in {0} \cup Pair
    BY BoundAssumption DEF Base, TypeOK, Source, Pair
  <1>1. CASE UNCHANGED vars
    BY <1>0, <1>1, PairsKept DEF vars, server, refresh
  <1>2. ASSUME NEW c \in Call, LogoutCommit(c) PROVE Pairs'
    BY <1>0, <1>2, PairsKept DEF LogoutCommit, refresh
  <1>3. CASE RequestOtp \/ (\E i \in Pair : Expire(i) \/ Lapse(i)) \/ \E t \in Tab : Reload(t)
    BY <1>0, <1>3, PairsKept DEF RequestOtp, Expire, Lapse, Reload, server, refresh
  <1>4. ASSUME NEW c \in Call,
               \/ Deny(c) \/ Serve(c) \/ LogoutLoad(c) \/ Fail(c) \/ Finish(c)
               \/ VerifyLoad(c) \/ VerifyRefuse(c) \/ VerifyCommit(c)
               \/ \E t \in Tab, k \in {"api", "boot", "logout", "login"} : Send(c, t, k)
        PROVE  Pairs'
    <2>1. /\ UNCHANGED <<issued, origin, row, exchange, presented>>
          /\ contested \subseteq contested'
      BY <1>4 DEF Deny, Serve, LogoutLoad, Fail, Finish, VerifyLoad, VerifyRefuse,
                  VerifyCommit, Send, server, refresh
    <2> QED
      BY <1>0, <2>1, PairsKept
  <1>5. ASSUME NEW c \in Call, Refused(c) \/ ExchangeEnds(c) \/ Unheard(c) \/ FailExchange(c)
        PROVE  Pairs'
    <2>1. UNCHANGED <<issued, origin, row, contested>>
      BY <1>5 DEF Refused, RefreshTokens, ExchangeEnds, Answered, Unheard, FailExchange, server
    <2>2. \A d \in Call : exchange'[d] = "checked" =>
                             exchange[d] = "checked" /\ presented'[d] = presented[d]
      BY <1>0, <1>5 DEF Refused, RefreshTokens, ExchangeEnds, Answered, Unheard,
                        FailExchange, refresh
    <2> QED
      BY <1>0, <2>1, <2>2, PairsKept
  <1>6. ASSUME NEW c \in Call, RefreshCheck(c) PROVE Pairs'
    <2> DEFINE p == presented[c]
    <2>1. /\ UNCHANGED <<issued, origin, row, presented>> /\ exchange[c] = "sent"
          /\ contested \subseteq contested'
      BY <1>6 DEF RefreshCheck, server
    <2>2. CASE exchange' = [exchange EXCEPT ![c] = "refused"]
      BY <1>0, <2>1, <2>2, PairsKept
    <2>3. CASE exchange' # [exchange EXCEPT ![c] = "refused"]
      <3>1. exchange' = [exchange EXCEPT ![c] = "checked"] /\ row[p] = "valid"
        BY <1>6, <2>3 DEF RefreshCheck
      <3>2. (\E d \in Call \ {c} : exchange[d] = "checked" /\ presented[d] = p) =>
              OfPair(p) \in contested'
        BY <1>6, <2>1, <2>3 DEF RefreshCheck
      <3>3. p \in Pair
        BY <2>1 DEF Base, TypeOK, Presents
      <3>4. p <= issued /\ \A i \in 1..issued : origin[i] # OfPair(p)
        BY <1>0, <3>1, <3>3 DEF Pairs, OfPair, Pair
      <3> HIDE DEF p
      <3>5. p = presented[c]
        BY DEF p
      <3> QED
        BY <1>0, <2>1, <3>1, <3>2, <3>4, <3>5 DEF Pairs
    <2> QED
      BY <2>2, <2>3
  <1>7. ASSUME NEW c \in Call, RefreshCommit(c) PROVE Pairs'
    <2> DEFINE p == presented[c]
               n == issued + 1
    <2>1. /\ exchange[c] = "checked" /\ exchange' = [exchange EXCEPT ![c] = "granted"]
          /\ issued' = n /\ origin' = [origin EXCEPT ![n] = OfPair(p)]
          /\ row' = [row EXCEPT ![n] = "valid", ![p] = "revoked"]
          /\ UNCHANGED <<presented, contested>>
      BY <1>7 DEF RefreshCommit, Exchange, Issue
    <2>2. n \in Pair
      BY <2>1 DEF Base, TypeOK, Pair
    <2>3. p \in Pair /\ p <= issued
      BY <2>1 DEF Base, TypeOK, Presents, Pairs
    <2>4. OfPair(p).pair = p /\ p # n
      BY <1>0, <2>3 DEF OfPair, Pair
    <2>5. \A i \in 1..issued : origin'[i] = origin[i]
      BY <1>0, <2>1
    <2>6. origin'[n] = OfPair(p)
      BY <1>0, <2>1, <2>2
    <2>7. 1..issued' = 1..issued \cup {n}
      BY <1>0, <2>1
    <2>8. row'[p] = "revoked" /\ row'[n] = "valid"
          /\ \A i \in Pair \ {p, n} : row'[i] = row[i]
      BY <1>0, <2>1, <2>2, <2>3, <2>4
    <2>9. \A d \in Call : exchange'[d] = "checked" => d # c /\ exchange[d] = "checked"
      BY <1>0, <2>1
    <2> HIDE DEF p, n
    <2>10. /\ \A i \in Pair : row'[i] = "valid" => i <= issued'
           /\ \A d \in Call : exchange'[d] = "checked" => presented'[d] <= issued'
           /\ \A i \in 1..issued' : origin'[i].pair <= issued'
      <3>1. n = issued + 1
        BY DEF n
      <3>2. \A d \in Call : presented[d] \in Nat
        BY <1>0 DEF Base, TypeOK, Pair
      <3>3. \A i \in Pair : row'[i] = "valid" => i <= issued'
        <4> SUFFICES ASSUME NEW i \in Pair, row'[i] = "valid" PROVE i <= n
          BY <2>1, <3>1
        <4>1. i = n \/ i <= issued
          BY <2>3, <2>8 DEF Pairs
        <4> QED
          BY <1>0, <3>1, <4>1 DEF Pair
      <3>4. \A d \in Call : exchange'[d] = "checked" => presented'[d] <= issued'
        BY <1>0, <2>1, <2>9, <3>1, <3>2 DEF Pairs
      <3>5. \A i \in 1..issued' : origin'[i].pair <= issued'
        <4> SUFFICES ASSUME NEW i \in 1..issued' PROVE origin'[i].pair <= n
          BY <2>1, <3>1
        <4>1. CASE i = n
          BY <1>0, <2>3, <2>4, <2>6, <3>1, <4>1 DEF Pair
        <4>2. CASE i \in 1..issued
          <5>1. origin'[i].pair <= issued /\ origin'[i].pair \in Nat
            BY <1>0, <2>5, <4>2 DEF Pairs, Pair
          <5> QED
            BY <1>0, <3>1, <5>1
        <4> QED
          BY <2>7, <4>1, <4>2
      <3> QED
        BY <3>3, <3>4, <3>5
    <2>11. \A i \in 1..issued' : origin'[i].pair # 0 => row'[origin'[i].pair] # "valid"
      <3>1. n = issued + 1
        BY DEF n
      <3> SUFFICES ASSUME NEW i \in 1..issued', origin'[i].pair # 0
                   PROVE  row'[origin'[i].pair] # "valid"
        OBVIOUS
      <3>2. CASE i = n
        BY <2>4, <2>6, <2>8, <3>2
      <3>3. CASE i \in 1..issued
        <4> DEFINE q == origin[i].pair
        <4>1. origin'[i].pair = q /\ q # 0
          BY <2>5, <3>3
        <4>2. q \in Pair /\ q <= issued /\ row[q] # "valid"
          BY <1>0, <3>3, <4>1 DEF Pairs
        <4> HIDE DEF q
        <4>3. q # n
          BY <1>0, <3>1, <4>2 DEF Pair
        <4>4. CASE q = p
          BY <2>8, <4>1, <4>4
        <4>5. CASE q # p
          BY <2>8, <4>1, <4>2, <4>3, <4>5
        <4> QED
          BY <4>4, <4>5
      <3> QED
        BY <2>7, <3>2, <3>3
    <2>12. ASSUME NEW d \in Call, exchange'[d] = "checked", OfPair(presented'[d]) \notin contested'
           PROVE  /\ \A i \in 1..issued' : origin'[i] # OfPair(presented'[d])
                  /\ \A e \in Call \ {d} : exchange'[e] = "checked" =>
                                              presented'[e] # presented'[d]
      <3>1. d # c /\ exchange[d] = "checked" /\ OfPair(presented[d]) \notin contested
        BY <2>1, <2>9, <2>12
      <3>2. presented[c] # presented[d]
        BY <2>1, <3>1 DEF Pairs
      <3>3. OfPair(p) # OfPair(presented[d])
        BY <3>2 DEF OfPair, p
      <3> QED
        BY <2>1, <2>5, <2>6, <2>7, <2>9, <3>1, <3>3 DEF Pairs
    <2> QED
      BY <2>10, <2>11, <2>12 DEF Pairs
  <1>8. ASSUME NEW c \in Call, VerifyIssue(c) PROVE Pairs'
    <2> DEFINE n == issued + 1
    <2>1. /\ UNCHANGED <<exchange, presented, contested>>
          /\ issued' = n /\ origin' = [origin EXCEPT ![n] = OfCode(work[c].code)]
          /\ row' = [row EXCEPT ![n] = "valid"]
      BY <1>8 DEF VerifyIssue, Issue, refresh
    <2>2. n \in Pair
      BY <2>1 DEF Base, TypeOK, Pair
    <2>3. OfCode(work[c].code).pair = 0
      BY DEF OfCode
    <2>4. 1..issued' = 1..issued \cup {n}
      BY <1>0, <2>1
    <2>5. origin'[n].pair = 0 /\ \A i \in 1..issued : origin'[i] = origin[i]
      BY <1>0, <2>1, <2>2, <2>3
    <2>6. \A i \in Pair : row'[i] = IF i = n THEN "valid" ELSE row[i]
      BY <1>0, <2>1
    <2>7. \A d \in Call : exchange[d] = "checked" => presented[d] \in Pair
      BY DEF Base, TypeOK, Presents
    <2>8. /\ \A i \in Pair : row'[i] = "valid" => i <= issued'
          /\ \A d \in Call : exchange'[d] = "checked" => presented'[d] <= issued'
          /\ \A i \in 1..issued' : origin'[i].pair <= issued'
      <3>1. \A i \in Pair : row'[i] = "valid" => i <= issued'
        BY <1>0, <2>1, <2>6 DEF Pairs, Pair
      <3>2. \A d \in Call : exchange'[d] = "checked" => presented'[d] <= issued'
        BY <1>0, <2>1, <2>7 DEF Pairs, Pair
      <3>3. \A i \in 1..issued' : origin'[i].pair <= issued'
        <4> SUFFICES ASSUME NEW i \in 1..issued' PROVE origin'[i].pair <= n
          BY <2>1
        <4>1. CASE i = n
          BY <1>0, <2>5, <4>1
        <4>2. CASE i \in 1..issued
          <5>1. origin'[i].pair <= issued /\ origin'[i].pair \in Nat
            BY <1>0, <2>5, <4>2 DEF Pairs, Pair
          <5> QED
            BY <1>0, <5>1
        <4> QED
          BY <2>4, <4>1, <4>2
      <3> QED
        BY <3>1, <3>2, <3>3
    <2>9. \A i \in 1..issued' : origin'[i].pair # 0 => row'[origin'[i].pair] # "valid"
      BY <1>0, <2>1, <2>4, <2>5, <2>6 DEF Pairs, Pair
    <2>10. \A d \in Call : exchange[d] = "checked" => origin'[n] # OfPair(presented[d])
      BY <2>5, <2>7 DEF OfPair, Pair
    <2> HIDE DEF n
    <2>11. ASSUME NEW d \in Call, exchange'[d] = "checked", OfPair(presented'[d]) \notin contested'
           PROVE  /\ \A i \in 1..issued' : origin'[i] # OfPair(presented'[d])
                  /\ \A e \in Call \ {d} : exchange'[e] = "checked" =>
                                              presented'[e] # presented'[d]
      BY <2>1, <2>4, <2>5, <2>10, <2>11 DEF Pairs
    <2> QED
      BY <2>8, <2>9, <2>11 DEF Pairs
  <1> QED
    BY <1>1, <1>2, <1>3, <1>4, <1>5, <1>6, <1>7, <1>8, StepKinds DEF Steady

\* Every step keeps what is said of the codes.
LEMMA CodesStep ==
  ASSUME Base, Base', Codes, [Next]_vars
  PROVE  Codes'
  <1>0. /\ DOMAIN pc = Call /\ DOMAIN work = Call
        /\ issued \in Nat /\ codes \in Nat /\ MaxCodes \in Nat
        /\ \A c \in Call : work[c].code \in Nat
        /\ \A i \in 1..issued : i \in Pair /\ origin[i].code \in Nat
        /\ origin \in [Pair -> Source] /\ NoWork.code = 0
    BY BoundAssumption DEF Base, TypeOK, Source, Pair, NoWork
  <1>1. CASE UNCHANGED vars
    BY <1>1, CodesKept DEF vars, server
  <1>2. CASE (\E i \in Pair : Expire(i) \/ Lapse(i)) \/ \E t \in Tab : Reload(t)
    BY <1>2, CodesKept DEF Expire, Lapse, Reload, server
  <1>3. CASE RequestOtp
    <2>1. /\ codes' = codes + 1 /\ open' = open \cup {codes + 1}
          /\ UNCHANGED <<issued, origin, pc, work, contested>>
      BY <1>3 DEF RequestOtp
    <2>2. open' \subseteq 1..codes'
      <3> SUFFICES ASSUME NEW k \in open' PROVE k \in 1..(codes + 1)
        BY <2>1
      <3>1. k \in 1..codes \/ k = codes + 1
        BY <2>1 DEF Codes
      <3> QED
        BY <1>0, <3>1
    <2>3. \A i \in 1..issued' : origin'[i].code <= codes' /\ origin'[i].code \notin open'
      BY <1>0, <2>1 DEF Codes
    <2>4. \A c \in Call : pc'[c] \in {"checked", "issuing"} => work'[c].code \in 1..codes'
      BY <1>0, <2>1 DEF Codes
    <2>5. \A c \in Call : pc'[c] = "issuing" => work'[c].code \notin open'
      BY <1>0, <2>1 DEF Codes
    <2> QED
      BY <2>1, <2>2, <2>3, <2>4, <2>5 DEF Codes
  <1>4. ASSUME NEW c \in Call,
               \/ Deny(c) \/ Serve(c) \/ Fail(c) \/ VerifyRefuse(c)
               \/ LogoutLoad(c) \/ LogoutCommit(c) \/ Finish(c) \/ Unheard(c)
               \/ \E t \in Tab, k \in {"api", "boot", "logout", "login"} : Send(c, t, k)
        PROVE  Codes'
    <2>1. UNCHANGED <<issued, origin, contested, open, codes>>
      BY <1>4 DEF Deny, Serve, Fail, VerifyRefuse, LogoutLoad, LogoutCommit, Finish,
                  Unheard, Send, server
    <2>2. /\ \E to \in {"refused", "error", "ok", "revoking", "idle", "sent"} :
               pc' = [pc EXCEPT ![c] = to]
          /\ \A d \in Call \ {c} : work'[d] = work[d]
      BY <1>0, <1>4 DEF Deny, Serve, Fail, VerifyRefuse, LogoutLoad, LogoutCommit, Finish,
                        Unheard, Send, Done, Goto
    <2> QED
      BY <1>0, <2>1, <2>2, CodesKept
  <1>5. ASSUME NEW c \in Call,
               \/ Refused(c) \/ ExchangeEnds(c) \/ RefreshCheck(c) \/ FailExchange(c)
        PROVE  Codes'
    <2>1. /\ UNCHANGED <<issued, origin, open, codes, work>>
          /\ contested \subseteq contested'
      BY <1>5 DEF Refused, RefreshTokens, ExchangeEnds, Answered, RefreshCheck,
                  FailExchange, server
    <2>2. \A d \in Call : pc'[d] = pc[d] \/ pc'[d] \in {"waiting", "error", "resent"}
      BY <1>0, <1>5 DEF Refused, RefreshTokens, ExchangeEnds, Answered, RefreshCheck,
                        FailExchange
    <2> QED
      BY <2>1, <2>2, CodesKept
  <1>6. ASSUME NEW c \in Call, RefreshCommit(c) PROVE Codes'
    <2> DEFINE n == issued + 1
    <2>1. /\ UNCHANGED <<open, codes, pc, work, contested>>
          /\ issued' = n /\ origin' = [origin EXCEPT ![n] = OfPair(presented[c])]
          /\ exchange[c] = "checked"
      BY <1>6 DEF RefreshCommit, Exchange, Issue
    <2>2. n \in Pair /\ presented[c] # 0
      BY <2>1 DEF Base, TypeOK, Pair, Presents
    <2>3. 1..issued' = 1..issued \cup {n}
      BY <1>0, <2>1
    <2>4. /\ origin'[n] = OfPair(presented[c])
          /\ \A i \in 1..issued : origin'[i] = origin[i]
      BY <1>0, <2>1, <2>2
    <2>5. origin'[n].code = 0 /\ \A k : origin'[n] # OfCode(k)
      BY <2>2, <2>4 DEF OfPair, OfCode
    <2>6. 0 \notin open
      BY <1>0 DEF Codes
    <2> HIDE DEF n
    <2>7. \A i \in 1..issued' : origin'[i].code <= codes' /\ origin'[i].code \notin open'
      BY <1>0, <2>1, <2>3, <2>4, <2>5, <2>6 DEF Codes
    <2> QED
      BY <2>1, <2>3, <2>4, <2>5, <2>7 DEF Codes
  <1>7. ASSUME NEW c \in Call, VerifyLoad(c) PROVE Codes'
    <2>1. PICK code \in open :
            /\ work' = [work EXCEPT ![c] = Challenge(code)]
            /\ pc' = [pc EXCEPT ![c] = "checked"]
            /\ contested' = contested \cup
                 (IF \E d \in Call \ {c} : pc[d] = "checked" /\ work[d].code = code
                  THEN {OfCode(code)} ELSE {})
            /\ UNCHANGED <<issued, origin, open, codes>>
      BY <1>7 DEF VerifyLoad, Goto, server
    <2>2. code \in 1..codes /\ \A i \in 1..issued : origin[i].code # code
      BY DEF Codes
    <2>3. work'[c].code = code /\ pc'[c] = "checked"
          /\ \A d \in Call \ {c} : work'[d] = work[d] /\ pc'[d] = pc[d]
      BY <1>0, <2>1 DEF Challenge
    <2>4. (\E d \in Call \ {c} : pc[d] \in {"checked", "issuing"} /\ work[d].code = code) =>
            OfCode(code) \in contested'
      BY <2>1 DEF Codes
    <2>5. \A i \in 1..issued : origin[i] # OfCode(code)
      BY <2>2 DEF OfCode
    <2>6. contested \subseteq contested'
      BY <2>1
    <2>7. ASSUME NEW d \in Call, pc'[d] \in {"checked", "issuing"},
                 OfCode(work'[d].code) \notin contested'
          PROVE  /\ \A i \in 1..issued : origin[i] # OfCode(work'[d].code)
                 /\ \A e \in Call \ {d} :
                      pc'[e] \in {"checked", "issuing"} => work'[e].code # work'[d].code
      <3>1. CASE d = c
        BY <2>3, <2>4, <2>5, <2>7, <3>1
      <3>2. CASE d # c
        BY <2>3, <2>4, <2>6, <2>7, <3>2 DEF Codes
      <3> QED
        BY <3>1, <3>2
    <2> QED
      BY <2>1, <2>2, <2>3, <2>7 DEF Codes
  <1>8. ASSUME NEW c \in Call, VerifyCommit(c) PROVE Codes'
    <2>1. /\ UNCHANGED <<issued, origin, codes, work, contested>> /\ pc[c] = "checked"
          /\ \/ pc' = [pc EXCEPT ![c] = "error"] /\ open' = open
             \/ pc' = [pc EXCEPT ![c] = "issuing"] /\ open' = open \ {work[c].code}
      BY <1>8 DEF VerifyCommit, Goto
    <2> QED
      BY <1>0, <2>1, CodesKept
  <1>9. ASSUME NEW c \in Call, VerifyIssue(c) PROVE Codes'
    <2> DEFINE n == issued + 1
               k == work[c].code
    <2>1. /\ UNCHANGED <<open, codes, work, contested>>
          /\ issued' = n /\ origin' = [origin EXCEPT ![n] = OfCode(k)]
          /\ pc[c] = "issuing" /\ pc' = [pc EXCEPT ![c] = "ok"]
      BY <1>9 DEF VerifyIssue, Issue, Goto
    <2>2. n \in Pair
      BY <2>1 DEF Base, TypeOK, Pair
    <2>3. 1..issued' = 1..issued \cup {n}
      BY <1>0, <2>1
    <2>4. /\ origin'[n] = OfCode(k)
          /\ \A i \in 1..issued : origin'[i] = origin[i]
      BY <1>0, <2>1, <2>2
    <2>5. origin'[n].code = k /\ k \in 1..codes /\ k \notin open
      BY <2>1, <2>4 DEF OfCode, Codes
    <2>6. \A d \in Call : pc'[d] \in {"checked", "issuing"} =>
                            d # c /\ pc[d] \in {"checked", "issuing"} /\ pc'[d] = pc[d]
      BY <1>0, <2>1
    <2>7. k = work[c].code
      OBVIOUS
    <2> HIDE DEF n, k
    <2>8. \A i \in 1..issued' : origin'[i].code <= codes' /\ origin'[i].code \notin open'
      BY <1>0, <2>1, <2>3, <2>4, <2>5 DEF Codes
    <2>9. ASSUME NEW d \in Call, pc'[d] \in {"checked", "issuing"},
                 OfCode(work'[d].code) \notin contested'
          PROVE  /\ \A i \in 1..issued' : origin'[i] # OfCode(work'[d].code)
                 /\ \A e \in Call \ {d} :
                      pc'[e] \in {"checked", "issuing"} => work'[e].code # work'[d].code
      <3>1. d # c /\ pc[d] \in {"checked", "issuing"} /\ OfCode(work[d].code) \notin contested
        BY <2>1, <2>6, <2>9
      <3>2. k # work[d].code
        BY <2>1, <2>7, <3>1 DEF Codes
      <3>3. OfCode(k) # OfCode(work[d].code)
        BY <3>2 DEF OfCode
      <3> QED
        BY <2>1, <2>3, <2>4, <2>6, <3>1, <3>3 DEF Codes
    <2> QED
      BY <2>1, <2>6, <2>8, <2>9 DEF Codes
  <1> QED
    BY <1>1, <1>2, <1>3, <1>4, <1>5, <1>6, <1>7, <1>8, <1>9, StepKinds DEF Steady

\* Only the two commits issue a pair, for what nothing was issued for before.
LEMMA OnceStep ==
  ASSUME Base, Base', Pairs, Codes, Once, [Next]_vars
  PROVE  Once'
  <1>0. /\ issued \in Nat /\ origin \in [Pair -> Source]
        /\ \A i \in 1..issued : i \in Pair
    BY BoundAssumption DEF Base, TypeOK, Pair
  <1>1. ASSUME NEW s \in Source, issued' = issued + 1,
               origin' = [origin EXCEPT ![issued + 1] = s], contested' = contested,
               s \notin contested => \A i \in 1..issued : origin[i] # s
        PROVE  Once'
    <2>1. issued + 1 \in Pair
      BY <1>1 DEF Base, TypeOK, Pair
    <2>2. 1..issued' = 1..issued \cup {issued + 1}
      BY <1>0, <1>1
    <2>3. origin'[issued + 1] = s /\ \A i \in 1..issued : origin'[i] = origin[i]
      BY <1>0, <1>1, <2>1
    <2> QED
      BY <1>1, <2>2, <2>3 DEF Once
  <1>2. ASSUME NEW c \in Call, RefreshCommit(c) PROVE Once'
    <2>1. OfPair(presented[c]) \in Source
      BY SourceTypes DEF Base, TypeOK
    <2>2. /\ issued' = issued + 1 /\ contested' = contested
          /\ origin' = [origin EXCEPT ![issued + 1] = OfPair(presented[c])]
          /\ exchange[c] = "checked"
      BY <1>2 DEF RefreshCommit, Exchange, Issue
    <2> QED
      BY <1>1, <2>1, <2>2 DEF Pairs
  <1>3. ASSUME NEW c \in Call, VerifyIssue(c) PROVE Once'
    <2>1. OfCode(work[c].code) \in Source
      BY SourceTypes DEF Base, TypeOK
    <2>2. /\ issued' = issued + 1 /\ contested' = contested
          /\ origin' = [origin EXCEPT ![issued + 1] = OfCode(work[c].code)]
          /\ pc[c] = "issuing"
      BY <1>3 DEF VerifyIssue, Issue, Goto
    <2> QED
      BY <1>1, <2>1, <2>2 DEF Codes
  <1>4. CASE UNCHANGED vars
    BY <1>4, OnceKept DEF vars, server
  <1>5. CASE RequestOtp \/ (\E i \in Pair : Expire(i) \/ Lapse(i)) \/ \E t \in Tab : Reload(t)
    BY <1>5, OnceKept DEF RequestOtp, Expire, Lapse, Reload, server
  <1>6. ASSUME NEW c \in Call,
               \/ Deny(c) \/ Serve(c) \/ Fail(c) \/ VerifyRefuse(c) \/ VerifyLoad(c)
               \/ VerifyCommit(c) \/ LogoutLoad(c) \/ LogoutCommit(c) \/ Finish(c)
               \/ Unheard(c) \/ Refused(c) \/ ExchangeEnds(c) \/ RefreshCheck(c)
               \/ FailExchange(c)
               \/ \E t \in Tab, k \in {"api", "boot", "logout", "login"} : Send(c, t, k)
        PROVE  Once'
    <2>1. UNCHANGED <<issued, origin>> /\ contested \subseteq contested'
      BY <1>6 DEF Deny, Serve, Fail, VerifyRefuse, VerifyLoad, VerifyCommit, LogoutLoad,
                  LogoutCommit, Finish, Unheard, Refused, RefreshTokens, ExchangeEnds,
                  Answered, RefreshCheck, FailExchange, Send, server
    <2> QED
      BY <2>1, OnceKept
  <1> QED
    BY <1>2, <1>3, <1>4, <1>5, <1>6, StepKinds DEF Steady

UInv == Base /\ Pairs /\ Codes /\ Once

LEMMA UInvIsInvariant == Spec => []UInv
  <1>1. Init => UInv
    <2> SUFFICES ASSUME Init PROVE UInv
      OBVIOUS
    <2>1. issued \in {0, 1} /\ \A i \in 1..issued : i = 1
      BY DEF Init
    <2>2. /\ \A i \in Pair : row[i] = "valid" => i <= issued
          /\ \A i \in Pair : origin[i] = Neither
      BY DEF Init
    <2>3. Neither.pair = 0 /\ Neither.code = 0 /\ \A i \in 1..issued : i \in Pair
      BY <2>1, BoundAssumption DEF Neither, Pair
    <2>4. Pairs
      BY <2>1, <2>2, <2>3 DEF Init, Pairs
    <2>5. Codes
      BY <2>1, <2>2, <2>3 DEF Init, Codes
    <2>6. Once
      BY <2>2, <2>3 DEF Once
    <2> QED
      BY <2>4, <2>5, <2>6, BaseInit DEF UInv
  <1>2. UInv /\ [Next]_vars => UInv'
    BY BaseStep, PairsStep, CodesStep, OnceStep DEF UInv
  <1> QED
    BY <1>1, <1>2, PTL DEF Spec

\* A pair is exchanged once and a code opens one session, however requests overlap,
\* fail and are repeated, unless two handlers had both checked it before either used
\* it (refresh_session, verify_otp).
THEOREM TokensAreUsedOnce == Spec => []UsedOnce
  <1>1. UInv => UsedOnce
    <2> SUFFICES ASSUME UInv, NEW s \in Source \ ({Neither} \cup contested)
                 PROVE  Cardinality(IssuedFor(s)) <= 1
      BY DEF UsedOnce
    <2>1. \A i, j \in IssuedFor(s) : i = j
      BY DEF UInv, Once, IssuedFor
    <2>2. CASE IssuedFor(s) = {}
      BY <2>2, FS_EmptySet
    <2>3. CASE IssuedFor(s) # {}
      <3>1. PICK i \in IssuedFor(s) : TRUE
        BY <2>3
      <3>2. IssuedFor(s) = {i}
        BY <2>1, <3>1
      <3>3. Cardinality(IssuedFor(s)) = 1
        BY <3>2, FS_Singleton
      <3> QED
        BY <3>3
    <2> QED
      BY <2>2, <2>3
  <1> QED
    BY <1>1, UInvIsInvariant, PTL

-----------------------------------------------------------------------------
\* What the browser keeps is good.

\* A pair on its way to the browser is good, unless its session was ended, and nobody
\* else knows it yet.
OnTheWay ==
  /\ stored <= issued
  /\ \A c \in Call : got[c] <= issued
  /\ \A c \in Call : exchange[c] # "none" => presented[c] <= issued
  /\ \A c \in Call : got[c] # 0 => row[got[c]] = "valid" \/ got[c] \in ended
  /\ \A c \in Call : got[c] # 0 => got[c] # stored
  /\ \A c, d \in Call : got[c] # 0 /\ got[d] = got[c] => c = d
  /\ \A c, d \in Call : got[c] # 0 /\ exchange[d] # "none" => presented[d] # got[c]

SInv == Base /\ OnTheWay /\ StoredIsLive

\* A step that neither issues, stores nor revokes, and loses no pair on its way.
LEMMA LiveKept ==
  ASSUME OnTheWay, StoredIsLive,
         UNCHANGED <<issued, row, stored, got, presented, ended>>,
         lost \subseteq lost',
         \A c \in Call : exchange'[c] # "none" => exchange[c] # "none",
         \A c \in Call : exchange[c] = "granted" => exchange'[c] = "granted"
  PROVE  OnTheWay' /\ StoredIsLive'
  <1>1. OnTheWay'
    BY DEF OnTheWay
  <1>2. StoredIsLive'
    BY DEF StoredIsLive
  <1> QED
    BY <1>1, <1>2

\* Issuing a pair n to c, for an exchange of the pair old or for a code.
LEMMA LiveIssue ==
  ASSUME SInv, Base', NEW c \in Call,
         issued' = issued + 1, got' = [got EXCEPT ![c] = issued + 1],
         UNCHANGED <<stored, presented, ended, lost>>,
         \A d \in Call : exchange'[d] # "none" => exchange[d] # "none",
         \A d \in Call : exchange[d] = "granted" => exchange'[d] = "granted",
         \A i \in Pair : \/ row'[i] = IF i = issued + 1 THEN "valid" ELSE row[i]
                         \/ i = presented[c] /\ exchange'[c] = "granted"
  PROVE  OnTheWay' /\ StoredIsLive'
  <1> DEFINE n == issued + 1
  <1>0. /\ issued \in Nat /\ n \in Pair /\ stored \in {0} \cup Pair
        /\ \A d \in Call : got[d] \in {0} \cup Pair /\ presented[d] \in {0} \cup Pair
        /\ DOMAIN got = Call /\ Pair \subseteq Nat
    BY DEF SInv, Base, TypeOK, Pair
  <1>1. /\ stored # n /\ \A d \in Call : got[d] # n
        /\ \A d \in Call : exchange[d] # "none" => presented[d] # n
    BY <1>0 DEF SInv, OnTheWay
  <1>2. got'[c] = n /\ \A d \in Call \ {c} : got'[d] = got[d]
    BY <1>0
  <1>3. exchange'[c] = "granted" => exchange[c] # "none" /\ presented[c] # n
    BY <1>1
  <1>4. row'[n] = "valid" /\ n # 0
    BY <1>0, <1>3
  <1>5. n <= issued' /\ \A x \in Nat : x <= issued => x <= issued'
    BY <1>0
  <1>6. \A d \in Call \ {c} : got[d] # 0 => row'[got[d]] = row[got[d]]
    BY <1>0, <1>1, <1>3 DEF SInv, OnTheWay
  <1> HIDE DEF n
  <1>7. /\ stored' <= issued'
        /\ \A d \in Call : got'[d] <= issued'
        /\ \A d \in Call : exchange'[d] # "none" => presented'[d] <= issued'
    <2>1. stored' <= issued'
      BY <1>0, <1>5 DEF SInv, OnTheWay, Pair
    <2>2. ASSUME NEW d \in Call PROVE got'[d] <= issued'
      <3>1. CASE d = c
        BY <1>2, <1>5, <3>1
      <3>2. CASE d # c
        <4>1. got'[d] = got[d] /\ got[d] \in Nat /\ got[d] <= issued
          BY <1>0, <1>2, <3>2 DEF SInv, OnTheWay, Pair
        <4> QED
          BY <1>5, <4>1
      <3> QED
        BY <3>1, <3>2
    <2>3. ASSUME NEW d \in Call, exchange'[d] # "none" PROVE presented'[d] <= issued'
      <3>1. presented'[d] = presented[d] /\ presented[d] \in Nat /\ presented[d] <= issued
        BY <1>0, <2>3 DEF SInv, OnTheWay, Pair
      <3> QED
        BY <1>5, <3>1
    <2> QED
      BY <2>1, <2>2, <2>3
  <1>8. \A d \in Call : got'[d] # 0 => row'[got'[d]] = "valid" \/ got'[d] \in ended'
    BY <1>2, <1>4, <1>6 DEF SInv, OnTheWay
  <1>9. /\ \A d \in Call : got'[d] # 0 => got'[d] # stored'
        /\ \A d, e \in Call : got'[d] # 0 /\ got'[e] = got'[d] => d = e
        /\ \A d, e \in Call : got'[d] # 0 /\ exchange'[e] # "none" => presented'[e] # got'[d]
    BY <1>1, <1>2 DEF SInv, OnTheWay
  <1>10. StoredIsLive'
    <2>1. CASE stored = presented[c] /\ exchange'[c] = "granted"
      BY <2>1 DEF StoredIsLive
    <2>2. CASE ~(stored = presented[c] /\ exchange'[c] = "granted")
      <3>1. stored # 0 => row'[stored] = row[stored]
        BY <1>0, <1>1, <2>2 DEF n
      <3> QED
        BY <3>1 DEF SInv, StoredIsLive
    <2> QED
      BY <2>1, <2>2
  <1> QED
    BY <1>7, <1>8, <1>9, <1>10 DEF OnTheWay

LEMMA LiveStep ==
  ASSUME SInv, Base', [Next]_vars
  PROVE  OnTheWay' /\ StoredIsLive'
  <1>0. /\ DOMAIN exchange = Call /\ DOMAIN presented = Call /\ DOMAIN got = Call
        /\ issued \in Nat /\ stored \in {0} \cup Pair
        /\ \A d \in Call : got[d] \in {0} \cup Pair /\ presented[d] \in {0} \cup Pair
        /\ OnTheWay /\ StoredIsLive
    BY DEF SInv, Base, TypeOK, Pair
  <1>1. CASE UNCHANGED vars
    BY <1>0, <1>1, LiveKept DEF vars, server, browser, refresh
  <1>2. CASE (\E i \in Pair : Expire(i) \/ Lapse(i)) \/ RequestOtp \/ \E t \in Tab : Reload(t)
    BY <1>0, <1>2, LiveKept DEF Expire, Lapse, RequestOtp, Reload, server, browser, refresh
  <1>3. ASSUME NEW c \in Call,
               \/ Deny(c) \/ Serve(c) \/ Fail(c) \/ VerifyRefuse(c) \/ VerifyLoad(c)
               \/ VerifyCommit(c) \/ LogoutLoad(c)
               \/ \E t \in Tab, k \in {"api", "boot", "logout", "login"} : Send(c, t, k)
        PROVE  OnTheWay' /\ StoredIsLive'
    <2>1. UNCHANGED <<issued, row, stored, got, exchange, presented, ended, lost>>
      BY <1>3 DEF Deny, Serve, Fail, VerifyRefuse, VerifyLoad, VerifyCommit, LogoutLoad,
                  Send, server, browser, refresh
    <2> QED
      BY <1>0, <2>1, LiveKept
  <1>4. ASSUME NEW c \in Call, LogoutCommit(c) PROVE OnTheWay' /\ StoredIsLive'
    <2>1. /\ UNCHANGED <<issued, stored, got, exchange, presented, lost>>
          /\ ended \subseteq ended'
          /\ \A i \in Pair : row'[i] = row[i] \/ i \in ended'
      BY <1>4 DEF LogoutCommit, browser, refresh
    <2>2. OnTheWay'
      BY <1>0, <2>1 DEF OnTheWay
    <2>3. StoredIsLive'
      BY <1>0, <2>1 DEF StoredIsLive
    <2> QED
      BY <2>2, <2>3
  <1>5. ASSUME NEW c \in Call, RefreshCheck(c) PROVE OnTheWay' /\ StoredIsLive'
    <2>1. /\ UNCHANGED <<issued, row, stored, got, presented, ended, lost>>
          /\ exchange[c] = "sent"
          /\ \E to \in {"checked", "refused"} : exchange' = [exchange EXCEPT ![c] = to]
      BY <1>5 DEF RefreshCheck, server, browser
    <2> QED
      BY <1>0, <2>1, LiveKept
  <1>6. ASSUME NEW c \in Call, RefreshCommit(c) PROVE OnTheWay' /\ StoredIsLive'
    <2>1. /\ issued' = issued + 1 /\ got' = [got EXCEPT ![c] = issued + 1]
          /\ exchange[c] = "checked" /\ exchange' = [exchange EXCEPT ![c] = "granted"]
          /\ row' = [row EXCEPT ![issued + 1] = "valid", ![presented[c]] = "revoked"]
          /\ UNCHANGED <<stored, presented, ended, lost>>
      BY <1>6 DEF RefreshCommit, Exchange, Issue, browser
    <2>2. \A i \in Pair : \/ row'[i] = IF i = issued + 1 THEN "valid" ELSE row[i]
                          \/ i = presented[c] /\ exchange'[c] = "granted"
      BY <1>0, <2>1 DEF SInv, Base, TypeOK
    <2>3. /\ \A d \in Call : exchange'[d] # "none" => exchange[d] # "none"
          /\ \A d \in Call : exchange[d] = "granted" => exchange'[d] = "granted"
      BY <1>0, <2>1
    <2> QED
      BY <2>1, <2>2, <2>3, LiveIssue
  <1>7. ASSUME NEW c \in Call, VerifyIssue(c) PROVE OnTheWay' /\ StoredIsLive'
    <2>1. /\ issued' = issued + 1 /\ got' = [got EXCEPT ![c] = issued + 1]
          /\ row' = [row EXCEPT ![issued + 1] = "valid"]
          /\ UNCHANGED <<stored, exchange, presented, ended, lost>>
      BY <1>7 DEF VerifyIssue, Issue, browser, refresh
    <2>2. \A i \in Pair : row'[i] = IF i = issued + 1 THEN "valid" ELSE row[i]
      BY <2>1 DEF SInv, Base, TypeOK
    <2> QED
      BY <2>1, <2>2, LiveIssue
  <1>8. ASSUME NEW c \in Call, Finish(c) PROVE OnTheWay' /\ StoredIsLive'
    <2>1. /\ stored' \in {0, got[c], stored} /\ got' = [got EXCEPT ![c] = 0]
          /\ UNCHANGED <<issued, row, exchange, presented, ended, lost>>
      BY <1>8 DEF Finish, Done, server, refresh
    <2>2. got'[c] = 0 /\ \A d \in Call \ {c} : got'[d] = got[d]
      BY <1>0, <2>1
    <2>3. OnTheWay'
      BY <1>0, <2>1, <2>2 DEF OnTheWay
    <2>4. StoredIsLive'
      BY <1>0, <2>1 DEF OnTheWay, StoredIsLive
    <2> QED
      BY <2>3, <2>4
  <1>9. ASSUME NEW c \in Call, Refused(c) PROVE OnTheWay' /\ StoredIsLive'
    <2>1. /\ UNCHANGED <<issued, row, got, ended, lost>>
          /\ \/ /\ exchange' = [exchange EXCEPT ![c] = "sent"]
                /\ presented' = [presented EXCEPT ![c] = stored]
                /\ stored' = stored
             \/ stored' \in {0, stored} /\ UNCHANGED <<exchange, presented>>
          /\ pc[c] = "refused"
      BY <1>9 DEF Refused, RefreshTokens, server, refresh
    <2>2. exchange[c] = "none"
      BY <2>1 DEF SInv, Base, Sharing
    <2>3. OnTheWay'
      BY <1>0, <2>1 DEF OnTheWay
    <2>4. StoredIsLive'
      BY <1>0, <2>1, <2>2 DEF StoredIsLive
    <2> QED
      BY <2>3, <2>4
  <1>10. ASSUME NEW c \in Call, ExchangeEnds(c) PROVE OnTheWay' /\ StoredIsLive'
    <2>1. /\ stored' \in {0, got[c]} /\ got' = [got EXCEPT ![c] = 0]
          /\ exchange' = [exchange EXCEPT ![c] = "none"]
          /\ presented' = [presented EXCEPT ![c] = 0]
          /\ UNCHANGED <<issued, row, ended, lost>>
      BY <1>10 DEF ExchangeEnds, Answered, server
    <2>2. got'[c] = 0 /\ \A d \in Call \ {c} : got'[d] = got[d]
      BY <1>0, <2>1
    <2>3. \A d \in Call : exchange'[d] # "none" =>
                            exchange[d] # "none" /\ presented'[d] = presented[d]
      BY <1>0, <2>1
    <2>4. OnTheWay'
      BY <1>0, <2>1, <2>2, <2>3 DEF OnTheWay
    <2>5. StoredIsLive'
      BY <1>0, <2>1 DEF OnTheWay, StoredIsLive
    <2> QED
      BY <2>4, <2>5
  <1>11. ASSUME NEW c \in Call, Unheard(c) \/ FailExchange(c)
         PROVE  OnTheWay' /\ StoredIsLive'
    <2>1. /\ UNCHANGED <<issued, row, stored, ended>>
          /\ got' = [got EXCEPT ![c] = 0]
          /\ \/ exchange' = [exchange EXCEPT ![c] = "none"]
             \/ exchange' = [exchange EXCEPT ![c] = "refused"] /\ exchange[c] # "none"
          /\ lost' = lost \cup (IF exchange[c] = "granted" THEN {presented[c]} ELSE {})
      BY <1>11 DEF Unheard, FailExchange, Done, server, browser
    <2>2. presented' = presented \/ presented' = [presented EXCEPT ![c] = 0]
      BY <1>11 DEF Unheard, FailExchange
    <2>3. got'[c] = 0 /\ \A d \in Call \ {c} : got'[d] = got[d]
      BY <1>0, <2>1
    <2>4. \A d \in Call : exchange'[d] # "none" => exchange[d] # "none"
      BY <1>0, <2>1
    <2>5. \A d \in Call : presented'[d] \in {0, presented[d]}
                          /\ (d # c => presented'[d] = presented[d] /\ exchange'[d] = exchange[d])
      BY <1>0, <2>1, <2>2
    <2>6. OnTheWay'
      BY <1>0, <2>1, <2>3, <2>4, <2>5 DEF OnTheWay
    <2>7. StoredIsLive'
      <3>1. lost \subseteq lost' /\ (exchange[c] = "granted" => presented[c] \in lost')
        BY <2>1
      <3> QED
        BY <1>0, <2>1, <2>5, <3>1 DEF StoredIsLive
    <2> QED
      BY <2>6, <2>7
  <1> QED
    BY <1>1, <1>2, <1>3, <1>4, <1>5, <1>6, <1>7, <1>8, <1>9, <1>10, <1>11, StepKinds
       DEF Steady

LEMMA SInvInit ==
  ASSUME Init
  PROVE  SInv
  <1>1. issued \in {0, 1} /\ stored = issued
    BY DEF Init
  <1>2. OnTheWay
    BY <1>1 DEF Init, OnTheWay
  <1>3. stored # 0 => row[stored] = "valid"
    BY <1>1, BoundAssumption DEF Init, Pair
  <1> QED
    BY <1>2, <1>3, BaseInit DEF SInv, StoredIsLive

\* The pair in the browser can be exchanged until it expires: whoever revokes it also
\* replaces or clears it, but for an answer that is lost or still under way
\* (refreshTokens, signOut, refresh_session).
THEOREM StoredPairIsLive == Spec => []StoredIsLive
  <1>1. Init => SInv
    BY SInvInit
  <1>2. SInv /\ [Next]_vars => SInv'
    BY BaseStep, LiveStep DEF SInv
  <1>3. SInv => StoredIsLive
    BY DEF SInv
  <1> QED
    BY <1>1, <1>2, <1>3, PTL DEF Spec

-----------------------------------------------------------------------------
\* How a session ends.

\* Could a pair be exchanged?
Live(i) == row[i] = "valid" /\ age[i] # "dead"

\* One request at a time has a hand in the session.
OneHand == ~crossed => \A c, d \in Hands : c = d

\* Without a failure a request has its tab, and a pair that was issued to it is on its way.
Heard ==
  faults = 0 => \A c \in Call :
    /\ pc[c] # "idle" => tab[c] # Nobody
    /\ got[c] # 0 => exchange[c] = "granted" \/ (kind[c] = "login" /\ pc[c] = "ok")

\* Who is where.
Kinds ==
  \A c \in Call :
    /\ pc[c] \in {"checked", "issuing"} => kind[c] = "login"
    /\ pc[c] = "revoking" => kind[c] = "logout"
    /\ kind[c] = "login" => pc[c] \notin {"refused", "waiting", "resent"}

\* What is new is good: an answer carries a pair whose access token has not expired, also
\* when a request is sent again with it.
Fresh ==
  /\ \A i \in Pair : age[i] # "fresh" => i <= issued
  /\ \A i \in 1..issued : row[i] # "none"
  /\ \A c \in Call : bearer[c] <= issued
  /\ \A c \in Call : exchange[c] = "granted" => got[c] # 0
  /\ \A c \in Call : got[c] # 0 => age[got[c]] = "fresh"
  /\ \A c \in Call : pc[c] = "resent" => bearer[c] # 0 /\ age[bearer[c]] = "fresh"

\* Nothing has failed, no two hands have met and no tab is wedged.
Calm == faults = 0 /\ ~crossed /\ \A t \in Tab : inFlight[t] # "wedged"

\* What the browser cannot account for is no longer good.
Known == ~outlived => \A i \in Pair : Live(i) => i = stored \/ \E c \in Call : got[c] = i

\* A refresh presents what is stored, which is no longer good when its answer is there.
Exchanging(c) ==
  exchange[c] # "none" =>
    /\ presented[c] = stored /\ stored # 0
    /\ exchange[c] \in {"granted", "refused"} => ~Live(stored)

\* Only a refresh that cleared the tokens makes boot or a sign-out fail.
GivenUp(c) == pc[c] = "error" /\ kind[c] \in {"boot", "logout"} => stored = 0

SigningIn(c) == pc[c] # "idle" /\ kind[c] = "login" => stored = 0

\* A sign-out revokes the pair it names, or every one if it names none.
SigningOut(c) ==
  kind[c] = "logout" =>
    /\ pc[c] = "revoking" =>
         \A i \in Pair : Live(i) /\ (body[c] = 0 \/ i = body[c]) => i \in work[c].revoke
    /\ pc[c] = "ok" =>
         \A i \in Pair : body[c] = 0 \/ i = body[c] => ~Live(i)

Quiet ==
  Known /\ \A c \in Call : Exchanging(c) /\ GivenUp(c) /\ SigningIn(c) /\ SigningOut(c)

Quietly == Calm => Quiet

LEMMA TwoHands ==
  ASSUME ~(Cardinality(Hands') > 1), NEW c \in Hands', NEW d \in Hands'
  PROVE  c = d
  <1>1. IsFiniteSet(Hands')
    <2>1. Hands' \in SUBSET Call
      BY DEF Hands
    <2> QED
      BY <2>1, CallAssumption, FS_Subset
  <1>2. SUFFICES ASSUME c # d
                PROVE  FALSE
    OBVIOUS
  <1>3. Cardinality({c, d}) = 2
    <2>1. IsFiniteSet({c}) /\ Cardinality({c}) = 1 /\ d \notin {c} /\ {c} \cup {d} = {c, d}
      BY <1>2, FS_Singleton
    <2> QED
      BY <2>1, FS_AddElement
  <1>4. Cardinality({c, d}) <= Cardinality(Hands') /\ Cardinality(Hands') \in Nat
    BY <1>1, FS_Subset, FS_CardinalityType
  <1> QED
    BY <1>3, <1>4

LEMMA OneHandStep ==
  ASSUME TypeOK, Sharing, OneHand, [Next]_vars
  PROVE  OneHand'
  <1>0. DOMAIN pc = Call /\ DOMAIN exchange = Call /\ DOMAIN kind = Call
    BY DEF TypeOK
  <1>1. ASSUME Hands' \subseteq Hands, crossed' = crossed
        PROVE  OneHand'
    BY <1>1 DEF OneHand
  <1>2. ASSUME NoteCrossing
        PROVE  OneHand'
    BY <1>2, TwoHands DEF OneHand, NoteCrossing
  <1>3. CASE UNCHANGED vars
    BY <1>1, <1>3 DEF vars, request, refresh, Hands
  <1>4. CASE Steady
    <2>1. UNCHANGED <<kind, crossed, exchange>>
      BY <1>4 DEF Steady, Expire, Lapse, RequestOtp, Deny, Serve, LogoutLoad, LogoutCommit,
                  VerifyLoad, VerifyRefuse, VerifyCommit, VerifyIssue, Fail, request, refresh
    <2>2. \A d \in Call : pc'[d] # "idle" => pc[d] # "idle"
      BY <1>0, <1>4, SteadySteps
    <2> QED
      BY <1>1, <2>1, <2>2 DEF Hands
  <1>5. ASSUME NEW c \in Call, Finish(c) \/ Unheard(c)
        PROVE  OneHand'
    <2>1. /\ pc' = [pc EXCEPT ![c] = "idle"] /\ kind' = [kind EXCEPT ![c] = "api"]
          /\ crossed' = crossed
          /\ exchange' = exchange \/ exchange' = [exchange EXCEPT ![c] = "none"]
      BY <1>5 DEF Finish, Unheard, Done, refresh
    <2> QED
      BY <1>0, <1>1, <2>1 DEF Hands
  <1>6. ASSUME NEW c \in Call, ExchangeEnds(c)
        PROVE  OneHand'
    <2>1. /\ kind' = kind /\ crossed' = crossed
          /\ exchange' = [exchange EXCEPT ![c] = "none"]
          /\ \A d \in Call : pc'[d] # "idle" => pc[d] # "idle"
      BY <1>6 DEF ExchangeEnds, Answered, Waiting
    <2> QED
      BY <1>0, <1>1, <2>1 DEF Hands
  <1>7. ASSUME NEW c \in Call, RefreshCheck(c) \/ RefreshCommit(c) \/ FailExchange(c)
        PROVE  OneHand'
    <2>1. /\ UNCHANGED <<pc, kind, crossed>> /\ exchange[c] # "none"
          /\ \A d \in Call \ {c} : exchange'[d] = exchange[d]
      BY <1>0, <1>7 DEF RefreshCheck, RefreshCommit, Exchange, FailExchange, request
    <2> QED
      BY <1>1, <2>1 DEF Hands
  <1>8. ASSUME NEW c \in Call,
               \/ Refused(c)
               \/ \E t \in Tab, k \in {"api", "boot", "logout", "login"} : Send(c, t, k)
        PROVE  OneHand'
    BY <1>2, <1>8 DEF Refused, RefreshTokens, Send
  <1>9. ASSUME NEW t \in Tab, Reload(t)
        PROVE  OneHand'
    BY <1>2, <1>9 DEF Reload
  <1> QED
    BY <1>3, <1>4, <1>5, <1>6, <1>7, <1>8, <1>9, StepKinds

LEMMA KindsStep ==
  ASSUME TypeOK, Sharing, Kinds, [Next]_vars
  PROVE  Kinds'
  <1>0. DOMAIN pc = Call /\ DOMAIN kind = Call
    BY DEF TypeOK
  <1>1. CASE UNCHANGED vars
    BY <1>1 DEF vars, request, Kinds
  <1>2. ASSUME UNCHANGED <<pc, kind>>
        PROVE  Kinds'
    BY <1>2 DEF Kinds
  <1>3. CASE (\E i \in Pair : Expire(i) \/ Lapse(i)) \/ RequestOtp \/ \E t \in Tab : Reload(t)
    BY <1>2, <1>3 DEF Expire, Lapse, RequestOtp, Reload, request
  <1>4. ASSUME NEW c \in Call, RefreshCheck(c) \/ RefreshCommit(c) \/ FailExchange(c)
        PROVE  Kinds'
    BY <1>2, <1>4 DEF RefreshCheck, RefreshCommit, Exchange, FailExchange, request
  <1>5. ASSUME NEW c \in Call, Finish(c) \/ Unheard(c)
        PROVE  Kinds'
    <2>1. /\ pc' = [pc EXCEPT ![c] = "idle"] /\ kind' = [kind EXCEPT ![c] = "api"]
      BY <1>5 DEF Finish, Unheard, Done
    <2> QED
      BY <1>0, <2>1 DEF Kinds
  <1>6. ASSUME NEW c \in Call, NEW t \in Tab, NEW k, Send(c, t, k)
        PROVE  Kinds'
    <2>1. /\ pc' = [pc EXCEPT ![c] = "sent"] /\ kind' = [kind EXCEPT ![c] = k]
      BY <1>6 DEF Send, Goto
    <2> QED
      BY <1>0, <2>1 DEF Kinds
  <1>7. ASSUME NEW c \in Call, Deny(c) \/ Serve(c) \/ LogoutLoad(c) \/ LogoutCommit(c) \/ Fail(c)
        PROVE  Kinds'
    <2>1. /\ kind' = kind
          /\ \/ \E to \in {"ok", "error"} : pc' = [pc EXCEPT ![c] = to]
             \/ pc' = [pc EXCEPT ![c] = "refused"] /\ kind[c] # "login"
             \/ pc' = [pc EXCEPT ![c] = "revoking"] /\ kind[c] = "logout"
      BY <1>7 DEF Deny, Serve, LogoutLoad, LogoutCommit, Fail, Goto, request
    <2> QED
      BY <1>0, <2>1 DEF Kinds
  <1>8. ASSUME NEW c \in Call,
               VerifyLoad(c) \/ VerifyRefuse(c) \/ VerifyCommit(c) \/ VerifyIssue(c)
        PROVE  Kinds'
    <2>1. /\ kind' = kind
          /\ \/ \E to \in {"ok", "error"} : pc' = [pc EXCEPT ![c] = to]
             \/ pc' = [pc EXCEPT ![c] = "checked"] /\ kind[c] = "login"
             \/ pc' = [pc EXCEPT ![c] = "issuing"] /\ pc[c] = "checked"
      BY <1>8 DEF VerifyLoad, VerifyRefuse, VerifyCommit, VerifyIssue, Goto, request
    <2> QED
      BY <1>0, <2>1 DEF Kinds
  <1>9. ASSUME NEW c \in Call, Refused(c)
        PROVE  Kinds'
    <2>1. /\ kind' = kind /\ pc[c] = "refused"
          /\ \E to \in {"waiting", "error"} : pc' = [pc EXCEPT ![c] = to]
      BY <1>9 DEF Refused, RefreshTokens, request
    <2> QED
      BY <1>0, <2>1 DEF Kinds
  <1>10. ASSUME NEW c \in Call, ExchangeEnds(c)
         PROVE  Kinds'
    <2>1. /\ kind' = kind
          /\ \E to \in {"resent", "error"} :
               \A d \in Call : pc'[d] = pc[d] \/ (pc[d] = "waiting" /\ pc'[d] = to)
      BY <1>10 DEF ExchangeEnds, Answered, Waiting
    <2> QED
      BY <2>1 DEF Kinds
  <1> QED
    BY <1>1, <1>3, <1>4, <1>5, <1>6, <1>7, <1>8, <1>9, <1>10, StepKinds DEF Steady

\* What has happened stays so.
LEMMA HistoryGrows ==
  ASSUME TypeOK, [Next]_vars
  PROVE  /\ faults' = faults \/ faults' = faults + 1
         /\ crossed => crossed'
         /\ outlived => outlived'
  <1>1. CASE UNCHANGED vars
    BY <1>1 DEF vars
  <1>2. CASE (\E i \in Pair : Expire(i) \/ Lapse(i)) \/ RequestOtp
    BY <1>2 DEF Expire, Lapse, RequestOtp
  <1>8. ASSUME NEW t \in Tab, Reload(t)
        PROVE  faults' = faults + 1 /\ outlived' = outlived /\ (crossed => crossed')
    BY <1>8 DEF Reload, NoteCrossing
  <1>3. ASSUME NEW c \in Call, Deny(c) \/ Serve(c) \/ LogoutLoad(c) \/ LogoutCommit(c) \/ Fail(c)
        PROVE  /\ faults' = faults \/ faults' = faults + 1
               /\ UNCHANGED <<crossed, outlived>>
    BY <1>3 DEF Deny, Serve, LogoutLoad, LogoutCommit, Fail
  <1>4. ASSUME NEW c \in Call,
               VerifyLoad(c) \/ VerifyRefuse(c) \/ VerifyCommit(c) \/ VerifyIssue(c)
        PROVE  UNCHANGED <<faults, crossed, outlived>>
    BY <1>4 DEF VerifyLoad, VerifyRefuse, VerifyCommit, VerifyIssue
  <1>5. ASSUME NEW c \in Call,
               \/ RefreshCheck(c) \/ RefreshCommit(c) \/ FailExchange(c)
               \/ ExchangeEnds(c) \/ Unheard(c)
        PROVE  /\ faults' = faults \/ faults' = faults + 1
               /\ UNCHANGED <<crossed, outlived>>
    BY <1>5 DEF RefreshCheck, RefreshCommit, Exchange, FailExchange, ExchangeEnds, Answered, Unheard
  <1>6. ASSUME NEW c \in Call, Finish(c)
        PROVE  UNCHANGED <<faults, crossed>> /\ (outlived => outlived')
    BY <1>6 DEF Finish
  <1>7. ASSUME NEW c \in Call,
               \/ Refused(c)
               \/ \E t \in Tab, k \in {"api", "boot", "logout", "login"} : Send(c, t, k)
        PROVE  UNCHANGED <<faults, outlived>> /\ (crossed => crossed')
    BY <1>7 DEF Refused, RefreshTokens, Send, NoteCrossing
  <1> QED
    BY <1>1, <1>2, <1>3, <1>4, <1>5, <1>6, <1>7, <1>8, StepKinds DEF Steady

LEMMA HeardStep ==
  ASSUME TypeOK, Sharing, Kinds, Heard, [Next]_vars
  PROVE  Heard'
  <1>0. /\ DOMAIN pc = Call /\ DOMAIN kind = Call /\ DOMAIN tab = Call /\ DOMAIN got = Call
        /\ DOMAIN exchange = Call /\ faults \in Nat
    BY BoundAssumption DEF TypeOK
  <1> SUFFICES ASSUME faults' = 0
               PROVE  \A d \in Call :
                        /\ pc'[d] # "idle" => tab'[d] # Nobody
                        /\ got'[d] # 0 =>
                             exchange'[d] = "granted" \/ (kind'[d] = "login" /\ pc'[d] = "ok")
    BY DEF Heard
  <1>a. faults = 0
    BY <1>0, HistoryGrows
  <1>b. \A d \in Call :
          /\ pc[d] # "idle" => tab[d] # Nobody
          /\ got[d] # 0 => exchange[d] = "granted" \/ (kind[d] = "login" /\ pc[d] = "ok")
    BY <1>a DEF Heard
  <1>1. CASE UNCHANGED vars
    BY <1>1, <1>b DEF vars, request, refresh
  <1>2. CASE (\E i \in Pair : Expire(i) \/ Lapse(i)) \/ RequestOtp
    BY <1>2, <1>b DEF Expire, Lapse, RequestOtp, request, refresh
  <1>3. ASSUME NEW t \in Tab, Reload(t)
        PROVE  FALSE
    BY <1>0, <1>3 DEF Reload
  <1>4. ASSUME NEW c \in Call, Fail(c) \/ FailExchange(c)
        PROVE  FALSE
    BY <1>0, <1>4 DEF Fail, FailExchange
  <1>5. ASSUME NEW c \in Call, Unheard(c)
        PROVE  FALSE
    BY <1>5, <1>b DEF Unheard
  <1>6. ASSUME NEW c \in Call,
               \/ Deny(c) \/ Serve(c) \/ LogoutLoad(c) \/ LogoutCommit(c)
               \/ VerifyLoad(c) \/ VerifyRefuse(c) \/ VerifyCommit(c),
               NEW d \in Call
        PROVE  /\ pc'[d] # "idle" => tab'[d] # Nobody
               /\ got'[d] # 0 =>
                    exchange'[d] = "granted" \/ (kind'[d] = "login" /\ pc'[d] = "ok")
    <2>1. /\ UNCHANGED <<tab, kind, exchange, got>> /\ pc[c] \notin {"idle", "ok"}
          /\ \A e \in Call \ {c} : pc'[e] = pc[e]
      <3>1. CASE Deny(c) \/ Serve(c) \/ LogoutLoad(c) \/ LogoutCommit(c)
        BY <1>0, <3>1 DEF Deny, Serve, LogoutLoad, LogoutCommit, Goto, request, refresh
      <3>2. CASE VerifyLoad(c) \/ VerifyRefuse(c) \/ VerifyCommit(c)
        BY <1>0, <3>2 DEF VerifyLoad, VerifyRefuse, VerifyCommit, Goto, request, refresh
      <3> QED
        BY <1>6, <3>1, <3>2
    <2> QED
      BY <1>b, <2>1
  <1>7. ASSUME NEW c \in Call, VerifyIssue(c), NEW d \in Call
        PROVE  /\ pc'[d] # "idle" => tab'[d] # Nobody
               /\ got'[d] # 0 =>
                    exchange'[d] = "granted" \/ (kind'[d] = "login" /\ pc'[d] = "ok")
    <2>1. /\ UNCHANGED <<tab, kind, exchange>> /\ pc[c] = "issuing" /\ pc'[c] = "ok"
          /\ \A e \in Call \ {c} : pc'[e] = pc[e] /\ got'[e] = got[e]
      BY <1>0, <1>7 DEF VerifyIssue, Issue, Goto, request, refresh
    <2>2. kind[c] = "login"
      BY <2>1 DEF Kinds
    <2> QED
      BY <1>b, <2>1, <2>2
  <1>8. ASSUME NEW c \in Call, RefreshCheck(c) \/ RefreshCommit(c), NEW d \in Call
        PROVE  /\ pc'[d] # "idle" => tab'[d] # Nobody
               /\ got'[d] # 0 =>
                    exchange'[d] = "granted" \/ (kind'[d] = "login" /\ pc'[d] = "ok")
    <2>1. /\ UNCHANGED <<tab, kind, pc>> /\ exchange[c] \in {"sent", "checked"}
          /\ \A e \in Call \ {c} : exchange'[e] = exchange[e] /\ got'[e] = got[e]
          /\ exchange'[c] = "granted" \/ got'[c] = got[c]
      BY <1>0, <1>8 DEF RefreshCheck, RefreshCommit, Exchange, Issue, request
    <2> QED
      BY <1>b, <2>1
  <1>9. ASSUME NEW c \in Call, Finish(c), NEW d \in Call
        PROVE  /\ pc'[d] # "idle" => tab'[d] # Nobody
               /\ got'[d] # 0 =>
                    exchange'[d] = "granted" \/ (kind'[d] = "login" /\ pc'[d] = "ok")
    <2>1. /\ pc'[c] = "idle" /\ got'[c] = 0 /\ exchange' = exchange
          /\ \A e \in Call \ {c} : pc'[e] = pc[e] /\ got'[e] = got[e] /\ tab'[e] = tab[e]
                                   /\ kind'[e] = kind[e]
      BY <1>0, <1>9 DEF Finish, Done, refresh
    <2> QED
      BY <1>b, <2>1
  <1>10. ASSUME NEW c \in Call, Refused(c), NEW d \in Call
        PROVE  /\ pc'[d] # "idle" => tab'[d] # Nobody
               /\ got'[d] # 0 =>
                    exchange'[d] = "granted" \/ (kind'[d] = "login" /\ pc'[d] = "ok")
    <2>1. /\ UNCHANGED <<tab, kind, got>> /\ pc[c] = "refused"
          /\ exchange' = exchange \/ exchange' = [exchange EXCEPT ![c] = "sent"]
          /\ \E to \in {"waiting", "error"} : pc' = [pc EXCEPT ![c] = to]
      BY <1>10 DEF Refused, RefreshTokens, request, refresh
    <2>2. exchange[c] = "none"
      BY <2>1 DEF Sharing
    <2> QED
      BY <1>0, <1>b, <2>1, <2>2
  <1>11. ASSUME NEW c \in Call, ExchangeEnds(c), NEW d \in Call
        PROVE  /\ pc'[d] # "idle" => tab'[d] # Nobody
               /\ got'[d] # 0 =>
                    exchange'[d] = "granted" \/ (kind'[d] = "login" /\ pc'[d] = "ok")
    <2>1. /\ UNCHANGED <<tab, kind>> /\ got'[c] = 0
          /\ \A e \in Call \ {c} : exchange'[e] = exchange[e] /\ got'[e] = got[e]
          /\ \A e \in Call : pc'[e] = pc[e] \/ pc[e] = "waiting"
      BY <1>0, <1>11 DEF ExchangeEnds, Answered, Waiting
    <2> QED
      BY <1>b, <2>1
  <1>12. ASSUME NEW c \in Call, NEW t \in Tab, NEW k, Send(c, t, k), NEW d \in Call
        PROVE  /\ pc'[d] # "idle" => tab'[d] # Nobody
               /\ got'[d] # 0 =>
                    exchange'[d] = "granted" \/ (kind'[d] = "login" /\ pc'[d] = "ok")
    <2>1. /\ UNCHANGED <<got, exchange>> /\ pc[c] = "idle" /\ tab'[c] = t
          /\ \A e \in Call \ {c} : pc'[e] = pc[e] /\ tab'[e] = tab[e] /\ kind'[e] = kind[e]
      BY <1>0, <1>12 DEF Send, Goto, refresh
    <2> QED
      BY <1>b, <2>1, NobodyAssumption
  <1> QED
    BY <1>1, <1>2, <1>3, <1>4, <1>5, <1>6, <1>7, <1>8, <1>9, <1>10, <1>11, <1>12, StepKinds
       DEF Steady

LEMMA FreshIssue ==
  ASSUME SInv, Fresh, NEW c \in MayIssue, UNCHANGED <<age, bearer>>,
         \A d \in Call : pc'[d] = "resent" => pc[d] = "resent",
         issued' = issued + 1, got' = [got EXCEPT ![c] = issued + 1],
         \A d \in Call \ {c} : exchange'[d] = exchange[d],
         \A i \in Pair : row'[i] = row[i] \/ row'[i] # "none",
         row'[issued + 1] # "none"
  PROVE  Fresh'
  <1>0. /\ issued \in Nat /\ issued + 1 \in Pair /\ DOMAIN got = Call
        /\ \A d \in Call : bearer[d] \in Nat
        /\ Pair \subseteq Nat /\ MaxPairs \in Nat
    <2>1. issued + 1 \in Pair
      BY IssueBudget DEF SInv, Base
    <2> QED
      BY <2>1, BoundAssumption DEF SInv, Base, TypeOK, Pair
  <1>1. /\ got'[c] = issued + 1 /\ got'[c] # 0 /\ age[issued + 1] = "fresh"
        /\ \A d \in Call \ {c} : got'[d] = got[d]
    <2>1. c \in Call
      BY DEF MayIssue
    <2>2. ~(issued + 1 <= issued)
      BY <1>0
    <2> QED
      BY <1>0, <2>1, <2>2 DEF Fresh
  <1>2. \A i \in 1..issued' : row'[i] # "none"
    <2> SUFFICES ASSUME NEW i \in 1..issued' PROVE row'[i] # "none"
      OBVIOUS
    <2>1. i \in Pair /\ (i \in 1..issued \/ i = issued + 1)
      BY <1>0 DEF Pair
    <2> QED
      BY <2>1 DEF Fresh
  <1>3. \A x \in Nat : x <= issued => x <= issued'
    BY <1>0
  <1>4. (\A i \in Pair : age'[i] # "fresh" => i <= issued') /\ \A d \in Call : bearer'[d] <= issued'
    BY <1>0, <1>3 DEF Fresh
  <1>5. /\ \A d \in Call : exchange'[d] = "granted" => got'[d] # 0
        /\ \A d \in Call : got'[d] # 0 => age'[got'[d]] = "fresh"
    BY <1>1 DEF Fresh
  <1>6. \A d \in Call : pc'[d] = "resent" => bearer'[d] # 0 /\ age'[bearer'[d]] = "fresh"
    BY DEF Fresh
  <1> QED
    BY <1>2, <1>4, <1>5, <1>6 DEF Fresh

LEMMA FreshStep ==
  ASSUME SInv, Fresh, [Next]_vars
  PROVE  Fresh'
  <1>0. /\ DOMAIN pc = Call /\ DOMAIN exchange = Call /\ DOMAIN got = Call
        /\ DOMAIN bearer = Call /\ DOMAIN age = Pair /\ Pair \subseteq Nat /\ 0 \notin Pair
        /\ issued \in Nat /\ stored \in {0} \cup Pair /\ 0 <= issued
        /\ \A d \in Call : got[d] \in {0} \cup Pair /\ bearer[d] \in {0} \cup Pair
    BY DEF SInv, Base, TypeOK, Pair
  <1>00. TypeOK /\ Sharing /\ OnTheWay
    BY DEF SInv, Base
  <1>1. CASE UNCHANGED vars
    BY <1>1 DEF vars, server, request, refresh, Fresh
  <1>2. CASE RequestOtp \/ \E t \in Tab : Reload(t)
    <2>1. UNCHANGED <<issued, row, age, bearer, exchange, got, pc>>
      BY <1>2 DEF RequestOtp, Reload, server, request, refresh
    <2> QED
      BY <2>1 DEF Fresh
  <1>3. ASSUME NEW i \in Pair, Expire(i) \/ Lapse(i)
        PROVE  Fresh'
    <2>1. /\ UNCHANGED <<issued, row, bearer, exchange, got, pc>>
          /\ \A j \in Pair \ {i} : age'[j] = age[j]
      BY <1>0, <1>3 DEF Expire, Lapse, server, request, refresh
    <2>2. i <= issued
      BY <1>0, <1>3 DEF Expire, Lapse, Fresh, SInv, OnTheWay
    <2>3. \A d \in Call : got[d] # i /\ (pc[d] = "resent" => bearer[d] # i)
      BY <1>0, <1>3 DEF Expire, Lapse, Fresh
    <2> QED
      BY <1>0, <2>1, <2>2, <2>3 DEF Fresh
  <1>4. ASSUME NEW c \in Call,
               \/ Deny(c) \/ Serve(c) \/ LogoutLoad(c) \/ LogoutCommit(c) \/ Fail(c)
               \/ VerifyLoad(c) \/ VerifyRefuse(c) \/ VerifyCommit(c)
        PROVE  Fresh'
    <2>1. CASE Deny(c) \/ Serve(c) \/ LogoutLoad(c) \/ Fail(c)
      <3>1. UNCHANGED <<issued, row, age, bearer, exchange, got>>
        BY <2>1 DEF Deny, Serve, LogoutLoad, Fail, server, request, refresh
      <3>2. \A d \in Call : pc'[d] = "resent" => pc[d] = "resent"
        BY <1>0, <2>1 DEF Deny, Serve, LogoutLoad, Fail, Goto
      <3> QED
        BY <3>1, <3>2 DEF Fresh
    <2>2. CASE VerifyLoad(c) \/ VerifyRefuse(c) \/ VerifyCommit(c)
      <3>1. UNCHANGED <<issued, row, age, bearer, exchange, got>>
        BY <2>2 DEF VerifyLoad, VerifyRefuse, VerifyCommit, server, request, refresh
      <3>2. \A d \in Call : pc'[d] = "resent" => pc[d] = "resent"
        BY <1>0, <2>2 DEF VerifyLoad, VerifyRefuse, VerifyCommit, Goto
      <3> QED
        BY <3>1, <3>2 DEF Fresh
    <2>3. CASE LogoutCommit(c)
      <3>1. UNCHANGED <<issued, age, bearer, exchange, got>>
        BY <2>3 DEF LogoutCommit, request, refresh
      <3>2. \A d \in Call : pc'[d] = "resent" => pc[d] = "resent"
        BY <1>0, <2>3 DEF LogoutCommit, Goto
      <3>3. \A i \in Pair : row'[i] = row[i] \/ row'[i] # "none"
        BY <2>3 DEF LogoutCommit
      <3>4. 1..issued \subseteq Pair
        BY <1>00, BoundAssumption DEF TypeOK, Pair
      <3> QED
        BY <3>1, <3>2, <3>3, <3>4 DEF Fresh
    <2> QED
      BY <1>4, <2>1, <2>2, <2>3
  <1>5. ASSUME NEW c \in Call, VerifyIssue(c)
        PROVE  Fresh'
    <2>1. /\ UNCHANGED <<age, bearer, exchange>> /\ pc[c] = "issuing"
          /\ pc' = [pc EXCEPT ![c] = "ok"]
          /\ issued' = issued + 1 /\ got' = [got EXCEPT ![c] = issued + 1]
          /\ row' = [row EXCEPT ![issued + 1] = "valid"]
      BY <1>5 DEF VerifyIssue, Issue, Goto, request, refresh
    <2>2. c \in MayIssue
      BY <2>1 DEF MayIssue
    <2>3. issued + 1 \in Pair
      BY <2>2, IssueBudget DEF SInv, Base
    <2>4. row'[issued + 1] # "none" /\ \A i \in Pair : row'[i] = row[i] \/ row'[i] # "none"
      BY <1>00, <2>1, <2>3 DEF TypeOK
    <2>5. \A d \in Call : pc'[d] = "resent" => pc[d] = "resent"
      BY <1>0, <2>1
    <2> QED
      BY <2>1, <2>2, <2>4, <2>5, FreshIssue
  <1>6. ASSUME NEW c \in Call, RefreshCommit(c)
        PROVE  Fresh'
    <2>1. /\ UNCHANGED <<age, bearer, pc>> /\ exchange[c] = "checked"
          /\ exchange' = [exchange EXCEPT ![c] = "granted"]
          /\ issued' = issued + 1 /\ got' = [got EXCEPT ![c] = issued + 1]
          /\ row' = [row EXCEPT ![issued + 1] = "valid", ![presented[c]] = "revoked"]
      BY <1>6 DEF RefreshCommit, Exchange, Issue, request
    <2>2. c \in MayIssue
      BY <2>1 DEF MayIssue
    <2>3. issued + 1 \in Pair
      BY <2>2, IssueBudget DEF SInv, Base
    <2>4. row'[issued + 1] # "none" /\ \A i \in Pair : row'[i] = row[i] \/ row'[i] # "none"
      BY <1>00, <2>1, <2>3 DEF TypeOK
    <2>5. \A d \in Call \ {c} : exchange'[d] = exchange[d]
      BY <1>0, <2>1
    <2> QED
      BY <2>1, <2>2, <2>4, <2>5, FreshIssue
  <1>7. ASSUME NEW c \in Call, RefreshCheck(c) \/ FailExchange(c)
        PROVE  Fresh'
    <2>1. /\ UNCHANGED <<issued, row, age, bearer, pc>>
          /\ exchange'[c] # "granted" /\ \A d \in Call \ {c} : exchange'[d] = exchange[d]
          /\ \A d \in Call : got'[d] = got[d] \/ (d = c /\ got'[d] = 0)
      BY <1>0, <1>7 DEF RefreshCheck, FailExchange, server, request
    <2> QED
      BY <2>1 DEF Fresh
  <1>8. ASSUME NEW c \in Call, Finish(c) \/ Unheard(c)
        PROVE  Fresh'
    <2>1. /\ UNCHANGED <<issued, row, age>>
          /\ pc'[c] = "idle" /\ bearer'[c] = 0 /\ got'[c] = 0
          /\ \A d \in Call \ {c} : pc'[d] = pc[d] /\ bearer'[d] = bearer[d] /\ got'[d] = got[d]
      BY <1>0, <1>8 DEF Finish, Unheard, Done, server
    <2>2. exchange'[c] # "granted" /\ \A d \in Call \ {c} : exchange'[d] = exchange[d]
      BY <1>0, <1>00, <1>8 DEF Finish, Unheard, refresh, Sharing
    <2> QED
      BY <1>0, <2>1, <2>2 DEF Fresh
  <1>9. ASSUME NEW c \in Call, NEW t \in Tab, NEW k \in {"api", "boot", "logout", "login"},
               Send(c, t, k)
        PROVE  Fresh'
    <2>1. /\ UNCHANGED <<issued, row, age, exchange, got>>
          /\ pc' = [pc EXCEPT ![c] = "sent"] /\ bearer'[c] \in {0, stored}
          /\ \A d \in Call \ {c} : bearer'[d] = bearer[d]
      BY <1>0, <1>9 DEF Send, Goto, server, refresh
    <2>2. pc'[c] = "sent" /\ \A d \in Call \ {c} : pc'[d] = pc[d]
      BY <1>0, <2>1
    <2>3. \A d \in Call : bearer'[d] <= issued
      BY <1>0, <1>00, <2>1 DEF Fresh, OnTheWay
    <2> QED
      BY <2>1, <2>2, <2>3 DEF Fresh
  <1>10. ASSUME NEW c \in Call, Refused(c)
         PROVE  Fresh'
    <2>1. /\ UNCHANGED <<issued, row, age, bearer, got>>
          /\ \E to \in {"waiting", "error"} : pc' = [pc EXCEPT ![c] = to]
          /\ exchange' = exchange \/ exchange' = [exchange EXCEPT ![c] = "sent"]
      BY <1>10 DEF Refused, RefreshTokens, server, request, refresh
    <2>2. /\ \A d \in Call : pc'[d] = "resent" => pc[d] = "resent"
          /\ \A d \in Call : exchange'[d] = "granted" => exchange[d] = "granted"
      BY <1>0, <2>1
    <2> QED
      BY <2>1, <2>2 DEF Fresh
  <1>11. ASSUME NEW c \in Call, ExchangeEnds(c)
         PROVE  Fresh'
    <2>1. /\ UNCHANGED <<issued, row, age>> /\ exchange[c] \in {"granted", "refused"}
          /\ exchange' = [exchange EXCEPT ![c] = "none"] /\ got' = [got EXCEPT ![c] = 0]
      BY <1>11 DEF ExchangeEnds, Answered, server
    <2>2. got'[c] = 0 /\ exchange'[c] = "none"
          /\ \A d \in Call \ {c} : got'[d] = got[d] /\ exchange'[d] = exchange[d]
      BY <1>0, <2>1
    <2>3. \A d \in Call :
            \/ bearer'[d] = got[c] /\ exchange[c] = "granted"
            \/ bearer'[d] = bearer[d] /\ (pc'[d] = "resent" => pc[d] = "resent")
      BY <1>11 DEF ExchangeEnds, Answered
    <2>4. \A d \in Call : bearer'[d] <= issued
      BY <1>00, <2>3 DEF Fresh, OnTheWay
    <2>5. \A d \in Call : pc'[d] = "resent" => bearer'[d] # 0 /\ age[bearer'[d]] = "fresh"
      BY <2>3 DEF Fresh
    <2> QED
      BY <2>1, <2>2, <2>4, <2>5 DEF Fresh
  <1> QED
    BY <1>1, <1>2, <1>3, <1>4, <1>5, <1>6, <1>7, <1>8, <1>9, <1>10, <1>11, StepKinds DEF Steady

LEMMA CalmStep ==
  ASSUME TypeOK, Sharing, [Next]_vars, Calm'
  PROVE  Calm
  <1>0. faults \in Nat /\ faults' = 0 /\ ~crossed' /\ DOMAIN inFlight = Tab
    BY BoundAssumption DEF TypeOK, Calm
  <1>1. faults = 0 /\ ~crossed
    BY <1>0, HistoryGrows
  <1> SUFFICES ASSUME NEW t \in Tab, inFlight[t] = "wedged"
               PROVE  inFlight'[t] = "wedged"
    BY <1>1 DEF Calm
  <1>2. CASE UNCHANGED vars
    BY <1>2 DEF vars, browser
  <1>3. CASE Steady
    BY <1>3, SteadySteps
  <1>4. ASSUME NEW c \in Call,
               \/ Finish(c) \/ Unheard(c)
               \/ \E u \in Tab, k \in {"api", "boot", "logout", "login"} : Send(c, u, k)
        PROVE  inFlight' = inFlight
    BY <1>4 DEF Finish, Unheard, Send, browser
  <1>5. ASSUME NEW c \in Call, RefreshCheck(c) \/ RefreshCommit(c) \/ FailExchange(c)
        PROVE  inFlight' = inFlight
    BY <1>5 DEF RefreshCheck, RefreshCommit, Exchange, FailExchange, browser
  <1>6. ASSUME NEW c \in Call, Refused(c)
        PROVE  inFlight'[t] = "wedged"
    BY <1>0, <1>6 DEF Refused, RefreshTokens
  <1>7. ASSUME NEW c \in Call, ExchangeEnds(c)
        PROVE  inFlight'[t] = "wedged"
    <2>1. exchange[c] # "none" /\ tab[c] # Nobody
          /\ inFlight' = [inFlight EXCEPT ![tab[c]] = "none"]
      BY <1>7 DEF ExchangeEnds, Answered
    <2>2. inFlight[tab[c]] = c
      BY <2>1 DEF Sharing
    <2> QED
      BY <1>0, <2>1, <2>2, CallAssumption
  <1>8. ASSUME NEW u \in Tab, Reload(u)
        PROVE  FALSE
    BY <1>0, <1>8 DEF Reload
  <1> QED
    BY <1>2, <1>3, <1>4, <1>5, <1>6, <1>7, <1>8, StepKinds

\* What the cases of a quiet step have in common.
Serene ==
  /\ SInv /\ Kinds /\ Fresh
  /\ \A c \in Call : pc[c] # "idle" => tab[c] # Nobody
  /\ \A c \in Call : got[c] # 0 => exchange[c] = "granted" \/ (kind[c] = "login" /\ pc[c] = "ok")
  /\ \A c, d \in Hands : c = d
  /\ Quiet

\* A step that leaves everything as it is, but for pairs that become useless.
LEMMA QuietAside ==
  ASSUME Serene,
         UNCHANGED <<stored, exchange, presented, got, kind, body, work, pc, outlived>>,
         \A i \in Pair : Live(i)' => Live(i)
  PROVE  Quiet'
  <1>0. stored \in {0} \cup Pair
    BY DEF Serene, SInv, Base, TypeOK
  <1>1. Known'
    BY DEF Serene, Quiet, Known
  <1>2. ASSUME NEW d \in Call
        PROVE  Exchanging(d)' /\ GivenUp(d)' /\ SigningIn(d)' /\ SigningOut(d)'
    <2>1. Exchanging(d)'
      BY <1>0 DEF Serene, Quiet, Exchanging
    <2>2. GivenUp(d)' /\ SigningIn(d)'
      BY DEF Serene, Quiet, GivenUp, SigningIn
    <2>3. SigningOut(d)'
      BY DEF Serene, Quiet, SigningOut
    <2> QED
      BY <2>1, <2>2, <2>3
  <1> QED
    BY <1>1, <1>2 DEF Quiet

\* A request moves on, and the session is left alone.
LEMMA QuietMove ==
  ASSUME Serene, NEW c \in Call, NEW to,
         pc[c] # "idle", pc' = [pc EXCEPT ![c] = to],
         \A d \in Call \ {c} : work'[d] = work[d],
         UNCHANGED <<stored, exchange, presented, got, kind, body, row, age, outlived>>,
         \/ to \in {"refused", "waiting"}
         \/ kind[c] = "login"
         \/ to = "ok" /\ kind[c] # "logout"
         \/ SigningOut(c)' /\ to # "error"
  PROVE  Quiet'
  <1>0. DOMAIN pc = Call
    BY DEF Serene, SInv, Base, TypeOK
  <1>1. Known'
    BY DEF Serene, Quiet, Known, Live
  <1>2. ASSUME NEW d \in Call
        PROVE  Exchanging(d)' /\ GivenUp(d)' /\ SigningIn(d)' /\ SigningOut(d)'
    <2>1. Exchanging(d)'
      BY DEF Serene, Quiet, Exchanging, Live
    <2>2. GivenUp(d)' /\ SigningIn(d)'
      BY <1>0 DEF Serene, Quiet, GivenUp, SigningIn
    <2>3. CASE d = c
      <3>1. SigningOut(d)'
        BY <1>0, <2>3 DEF SigningOut
      <3> QED
        BY <2>1, <2>2, <3>1
    <2>4. CASE d # c
      <3>1. SigningOut(d)'
        BY <1>0, <2>4 DEF Serene, Quiet, SigningOut, Live
      <3> QED
        BY <2>1, <2>2, <3>1
    <2> QED
      BY <2>3, <2>4
  <1> QED
    BY <1>1, <1>2 DEF Quiet

\* The steps of logout.
LEMMA QuietLogout ==
  ASSUME Serene, NEW c \in Call, LogoutLoad(c) \/ LogoutCommit(c)
  PROVE  Quiet'
  <1>0. /\ DOMAIN pc = Call /\ DOMAIN work = Call /\ body[c] \in {0} \cup Pair
        /\ 0 \notin Pair /\ TypeOK /\ Kinds
    BY DEF Serene, SInv, Base, TypeOK, Pair
  <1>1. CASE LogoutLoad(c)
    <2>1. /\ kind[c] = "logout" /\ pc[c] # "idle" /\ pc' = [pc EXCEPT ![c] = "revoking"]
          /\ UNCHANGED <<stored, exchange, presented, got, kind, body, row, age, outlived>>
      BY <1>1 DEF LogoutLoad, server, browser, request, refresh
    <2>2. /\ \A d \in Call \ {c} : work'[d] = work[d]
          /\ \A i \in Pair : Live(i) /\ (body[c] = 0 \/ i = body[c]) => i \in work'[c].revoke
      BY <1>0, <1>1 DEF LogoutLoad, Revoking, Live
    <2>3. pc'[c] = "revoking"
      BY <1>0, <2>1
    <2>4. SigningOut(c)'
      BY <2>1, <2>2, <2>3 DEF SigningOut, Live
    <2> QED
      BY <2>1, <2>2, <2>4, QuietMove
  <1>2. CASE LogoutCommit(c)
    <2>1. /\ pc[c] = "revoking" /\ pc' = [pc EXCEPT ![c] = "ok"]
          /\ work' = [work EXCEPT ![c] = NoWork]
          /\ row' = [i \in Pair |-> IF i \in work[c].revoke THEN "revoked" ELSE row[i]]
          /\ UNCHANGED <<stored, exchange, presented, got, kind, body, age, outlived>>
      BY <1>2 DEF LogoutCommit, Goto, browser, request, refresh
    <2>2. kind[c] = "logout"
      BY <1>0, <2>1 DEF Kinds
    <2>3. \A i \in Pair : Live(i)' => Live(i) /\ i \notin work[c].revoke
      BY <2>1 DEF Live
    <2>4. Known'
      BY <2>1, <2>3 DEF Serene, Quiet, Known
    <2>5. ASSUME NEW d \in Call
          PROVE  Exchanging(d)' /\ GivenUp(d)' /\ SigningIn(d)' /\ SigningOut(d)'
      <3>1. Exchanging(d)'
        BY <1>0, <2>1, <2>3 DEF Serene, Quiet, Exchanging, TypeOK
      <3>2. GivenUp(d)' /\ SigningIn(d)'
        BY <1>0, <2>1 DEF Serene, Quiet, GivenUp, SigningIn
      <3>3. CASE d = c
        <4>1. pc'[d] = "ok"
          BY <1>0, <2>1, <3>3
        <4>2. \A i \in Pair : body[c] = 0 \/ i = body[c] => ~Live(i)'
          BY <2>1, <2>2, <2>3 DEF Serene, Quiet, SigningOut
        <4>3. SigningOut(d)'
          BY <2>1, <3>3, <4>1, <4>2 DEF SigningOut
        <4> QED
          BY <3>1, <3>2, <4>3
      <3>4. CASE d # c
        <4>1. pc'[d] = pc[d] /\ work'[d] = work[d]
          BY <1>0, <2>1, <3>4
        <4>2. SigningOut(d)'
          BY <2>1, <2>3, <4>1 DEF Serene, Quiet, SigningOut
        <4> QED
          BY <3>1, <3>2, <4>2
      <3> QED
        BY <3>3, <3>4
    <2> QED
      BY <2>4, <2>5 DEF Quiet
  <1> QED
    BY <1>1, <1>2

\* The other steps of the server that issue nothing.
LEMMA QuietServer ==
  ASSUME Serene, NEW c \in Call,
         Deny(c) \/ Serve(c) \/ VerifyLoad(c) \/ VerifyRefuse(c) \/ VerifyCommit(c)
  PROVE  Quiet'
  <1>0. DOMAIN pc = Call /\ DOMAIN work = Call /\ Fresh
    BY DEF Serene, SInv, Base, TypeOK
  <1>1. CASE Deny(c)
    <2>1. pc[c] # "resent"
      BY <1>0, <1>1 DEF Deny, Accepted, Fresh
    <2>2. /\ pc[c] # "idle" /\ pc' = [pc EXCEPT ![c] = "refused"]
          /\ UNCHANGED <<stored, exchange, presented, got, kind, body, row, age, outlived, work>>
      BY <1>1, <2>1 DEF Deny, Goto, server, browser, request, refresh
    <2> QED
      BY <2>2, QuietMove
  <1>2. CASE Serve(c)
    <2>1. /\ pc[c] # "idle" /\ pc' = [pc EXCEPT ![c] = "ok"] /\ kind[c] # "logout"
          /\ UNCHANGED <<stored, exchange, presented, got, kind, body, row, age, outlived, work>>
      BY <1>2 DEF Serve, server, browser, request, refresh
    <2> QED
      BY <2>1, QuietMove
  <1>3. CASE VerifyLoad(c) \/ VerifyRefuse(c)
    <2>1. /\ pc[c] # "idle" /\ kind[c] = "login"
          /\ \E to : pc' = [pc EXCEPT ![c] = to]
      BY <1>3 DEF VerifyLoad, VerifyRefuse, Goto
    <2>2. /\ UNCHANGED <<stored, exchange, presented, got, kind, body, row, age, outlived>>
          /\ \A d \in Call \ {c} : work'[d] = work[d]
      BY <1>0, <1>3 DEF VerifyLoad, VerifyRefuse, server, browser, request, refresh
    <2> QED
      BY <2>1, <2>2, QuietMove
  <1>4. CASE VerifyCommit(c)
    <2>1. /\ pc[c] = "checked" /\ \E to : pc' = [pc EXCEPT ![c] = to]
          /\ UNCHANGED <<stored, exchange, presented, got, kind, body, row, age, outlived, work>>
      BY <1>4 DEF VerifyCommit, Goto, browser, request, refresh
    <2>2. kind[c] = "login"
      BY <2>1 DEF Serene, Kinds
    <2> QED
      BY <2>1, <2>2, QuietMove
  <1> QED
    BY <1>1, <1>2, <1>3, <1>4

\* The steps of refresh_session: no other request has a hand in the session.
LEMMA QuietRefresh ==
  ASSUME Serene, NEW c \in Call, RefreshCheck(c) \/ RefreshCommit(c)
  PROVE  Quiet'
  <1>0. /\ TypeOK /\ Sharing /\ OnTheWay /\ DOMAIN exchange = Call /\ DOMAIN got = Call
        /\ stored \in {0} \cup Pair /\ 0 \notin Pair /\ issued \in Nat /\ Pair \subseteq Nat
    BY DEF Serene, SInv, Base, TypeOK, Pair
  <1>1. /\ exchange[c] \in {"sent", "checked"} /\ pc' = pc /\ exchange'[c] # "none"
        /\ \A d \in Call \ {c} : exchange'[d] = exchange[d]
        /\ UNCHANGED <<stored, presented, kind, body, work, age, outlived>>
    BY <1>0 DEF RefreshCheck, RefreshCommit, Exchange, server, browser, request
  <1>2. presented[c] = stored /\ stored # 0
    BY <1>1 DEF Serene, Quiet, Exchanging
  <1>3. \A d \in Call : GivenUp(d)' /\ SigningIn(d)'
    BY <1>1 DEF Serene, Quiet, GivenUp, SigningIn
  <1>4. CASE RefreshCheck(c)
    <2>1. row' = row /\ got' = got /\ exchange'[c] # "granted"
          /\ (exchange'[c] = "refused" => ~Live(stored))
      BY <1>0, <1>2, <1>4 DEF RefreshCheck, server, Live
    <2>2. Known' /\ \A d \in Call : SigningOut(d)'
      BY <1>1, <2>1 DEF Serene, Quiet, Known, SigningOut, Live
    <2>3. ASSUME NEW d \in Call PROVE Exchanging(d)'
      BY <1>1, <1>2, <2>1 DEF Serene, Quiet, Exchanging, Live
    <2> QED
      BY <1>3, <2>2, <2>3 DEF Quiet
  <1>5. CASE RefreshCommit(c)
    <2> DEFINE n == issued + 1
    <2>1. /\ exchange[c] = "checked" /\ got' = [got EXCEPT ![c] = n]
          /\ row' = [row EXCEPT ![n] = "valid", ![stored] = "revoked"]
      BY <1>2, <1>5 DEF RefreshCommit, Exchange, Issue
    <2>2. n \in Pair
      <3>1. c \in MayIssue
        BY <2>1 DEF MayIssue
      <3> QED
        BY <3>1, IssueBudget DEF Serene, SInv, Base
    <2>3. \A i \in Pair : Live(i)' => i # stored /\ (i = n \/ Live(i))
      BY <1>0, <1>1, <1>2, <2>1 DEF Live, TypeOK
    <2> HIDE DEF n
    <2>4. got'[c] = n /\ got[c] = 0 /\ \A d \in Call \ {c} : got'[d] = got[d]
      <3>1. got[c] = 0
        <4>1. pc[c] = "waiting"
          BY <1>0, <2>1 DEF Sharing
        <4> QED
          BY <2>1, <4>1 DEF Serene
      <3> QED
        BY <1>0, <2>1, <3>1
    <2>5. Known'
      <3> SUFFICES ASSUME ~outlived, NEW i \in Pair, Live(i)'
                   PROVE  \E d \in Call : got'[d] = i
        BY <1>1 DEF Known
      <3>1. CASE i = n
        BY <2>4, <3>1
      <3>2. CASE i # n
        <4>1. \E d \in Call : got[d] = i
          BY <2>3, <3>2 DEF Serene, Quiet, Known
        <4> QED
          BY <1>0, <2>4, <4>1
      <3> QED
        BY <3>1, <3>2
    <2>6. ASSUME NEW d \in Call PROVE Exchanging(d)' /\ SigningOut(d)'
      <3>1. c \in Hands /\ pc[c] = "waiting"
        BY <1>0, <2>1 DEF Hands, Sharing
      <3>2. Exchanging(d)'
        <4>1. CASE d = c
          <5>1. ~Live(stored)'
            BY <1>0, <1>1, <1>2, <2>3 DEF TypeOK
          <5> QED
            BY <1>1, <1>2, <4>1, <5>1 DEF Exchanging
        <4>2. CASE d # c
          <5>1. exchange[d] = "none"
            BY <1>0, <3>1, <4>2 DEF Serene, Hands, Sharing
          <5> QED
            BY <1>1, <4>2, <5>1 DEF Exchanging
        <4> QED
          BY <4>1, <4>2
      <3>3. kind[d] = "logout" => pc[d] \notin {"revoking", "ok"}
        BY <3>1 DEF Serene, Hands
      <3>4. SigningOut(d)'
        BY <1>1, <3>3 DEF SigningOut
      <3> QED
        BY <3>2, <3>4
    <2> QED
      BY <1>3, <2>5, <2>6 DEF Quiet
  <1> QED
    BY <1>4, <1>5

\* The second commit of verify_otp: who signs in has no tokens.
LEMMA QuietIssue ==
  ASSUME Serene, NEW c \in Call, VerifyIssue(c)
  PROVE  Quiet'
  <1> DEFINE n == issued + 1
  <1>0. TypeOK /\ Sharing /\ DOMAIN pc = Call /\ DOMAIN got = Call /\ 0 \notin Pair
    BY DEF Serene, SInv, Base, TypeOK, Pair
  <1>1. /\ pc[c] = "issuing" /\ pc' = [pc EXCEPT ![c] = "ok"]
        /\ got' = [got EXCEPT ![c] = n] /\ row' = [row EXCEPT ![n] = "valid"]
        /\ UNCHANGED <<stored, exchange, presented, kind, body, work, age, outlived>>
    BY DEF VerifyIssue, Goto, Issue, browser, request, refresh
  <1>2. kind[c] = "login" /\ stored = 0 /\ c \in Hands
    BY <1>1 DEF Serene, Quiet, Kinds, SigningIn, Hands
  <1>3. \A i \in Pair : Live(i)' => i = n \/ Live(i)
    BY <1>0, <1>1 DEF Live, TypeOK
  <1> HIDE DEF n
  <1>4. got'[c] = n /\ got[c] = 0 /\ \A d \in Call \ {c} : got'[d] = got[d]
    <2>1. got[c] = 0
      BY <1>0, <1>1 DEF Serene, Sharing
    <2> QED
      BY <1>0, <1>1, <2>1
  <1>5. Known'
    <2> SUFFICES ASSUME ~outlived, NEW i \in Pair, Live(i)'
                 PROVE  \E d \in Call : got'[d] = i
      BY <1>1 DEF Known
    <2>1. CASE i = n
      BY <1>4, <2>1
    <2>2. CASE i # n
      <3>1. \E d \in Call : got[d] = i
        BY <1>0, <1>2, <1>3, <2>2 DEF Serene, Quiet, Known
      <3> QED
        BY <1>0, <1>4, <3>1
    <2> QED
      BY <2>1, <2>2
  <1>6. ASSUME NEW d \in Call
        PROVE  Exchanging(d)' /\ GivenUp(d)' /\ SigningIn(d)' /\ SigningOut(d)'
    <2>1. Exchanging(d)'
      BY <1>1, <1>2 DEF Serene, Quiet, Exchanging
    <2>2. GivenUp(d)' /\ SigningIn(d)'
      BY <1>1, <1>2 DEF GivenUp, SigningIn
    <2>3. kind[d] = "logout" => d # c /\ pc[d] = "idle"
      BY <1>2 DEF Serene, Hands
    <2>4. SigningOut(d)'
      BY <1>0, <1>1, <2>3 DEF SigningOut
    <2> QED
      BY <2>1, <2>2, <2>4
  <1> QED
    BY <1>5, <1>6 DEF Quiet

LEMMA QuietSend ==
  ASSUME Serene, NEW c \in Call, NEW t \in Tab, NEW k \in {"api", "boot", "logout", "login"},
         Send(c, t, k)
  PROVE  Quiet'
  <1>0. DOMAIN pc = Call /\ DOMAIN kind = Call
    BY DEF Serene, SInv, Base, TypeOK
  <1>1. /\ pc' = [pc EXCEPT ![c] = "sent"] /\ kind' = [kind EXCEPT ![c] = k]
        /\ k = "login" => stored = 0
        /\ UNCHANGED <<stored, exchange, presented, got, work, row, age, outlived>>
        /\ \A d \in Call \ {c} : body'[d] = body[d]
    BY <1>0 DEF Send, Goto, server, browser, refresh
  <1>2. Known'
    BY <1>1 DEF Serene, Quiet, Known, Live
  <1>3. ASSUME NEW d \in Call
        PROVE  Exchanging(d)' /\ GivenUp(d)' /\ SigningIn(d)' /\ SigningOut(d)'
    <2>1. Exchanging(d)'
      BY <1>1 DEF Serene, Quiet, Exchanging, Live
    <2>2. CASE d = c
      <3>1. pc'[d] = "sent" /\ kind'[d] = k
        BY <1>0, <1>1, <2>2
      <3>2. GivenUp(d)' /\ SigningIn(d)' /\ SigningOut(d)'
        BY <1>1, <3>1 DEF GivenUp, SigningIn, SigningOut
      <3> QED
        BY <2>1, <3>2
    <2>3. CASE d # c
      <3>1. pc'[d] = pc[d] /\ kind'[d] = kind[d] /\ body'[d] = body[d]
        BY <1>0, <1>1, <2>3
      <3>2. GivenUp(d)' /\ SigningIn(d)'
        BY <1>1, <3>1 DEF Serene, Quiet, GivenUp, SigningIn
      <3>3. SigningOut(d)'
        BY <1>1, <3>1 DEF Serene, Quiet, SigningOut, Live
      <3> QED
        BY <2>1, <3>2, <3>3
    <2> QED
      BY <2>2, <2>3
  <1> QED
    BY <1>2, <1>3 DEF Quiet

\* The browser stores the pair of a login, and forgets what was revoked or is no use.
LEMMA QuietFinish ==
  ASSUME Serene, NEW c \in Call, Finish(c)
  PROVE  Quiet'
  <1>0. /\ TypeOK /\ Sharing /\ DOMAIN pc = Call /\ DOMAIN got = Call /\ DOMAIN kind = Call
        /\ DOMAIN body = Call /\ DOMAIN work = Call
        /\ 0 \notin Pair /\ stored \in {0} \cup Pair
    BY DEF Serene, SInv, Base, TypeOK, Pair
  <1>1. /\ pc[c] \in {"ok", "error"} /\ exchange[c] = "none"
        /\ UNCHANGED <<row, age, exchange, presented>>
        /\ got'[c] = 0 /\ pc'[c] = "idle" /\ kind'[c] = "api"
    BY <1>0 DEF Finish, Done, server, refresh, Sharing
  <1>2. /\ \A d \in Call \ {c} : pc'[d] = pc[d] /\ got'[d] = got[d] /\ kind'[d] = kind[d]
        /\ \A d \in Call \ {c} : body'[d] = body[d] /\ work'[d] = work[d]
    BY <1>0 DEF Finish, Done
  <1>3. /\ kind[c] = "logout" => stored' = 0
        /\ kind[c] = "login" /\ pc[c] = "ok" => stored' = got[c]
        /\ kind[c] = "api" => stored' = stored
        /\ kind[c] = "login" /\ pc[c] = "error" => stored' = stored
        /\ kind[c] = "boot" => stored' \in {0, stored} /\ (pc[c] = "ok" => stored' = stored)
        /\ ~outlived' => ~outlived /\ (kind[c] = "logout" => stored = body[c])
    BY <1>1 DEF Finish
  <1>4. kind[c] = "boot" => stored' = stored
    BY <1>1, <1>3 DEF Serene, Quiet, GivenUp
  <1>5. got[c] # 0 => kind[c] = "login" /\ pc[c] = "ok"
    BY <1>1 DEF Serene
  <1>6. kind[c] = "login" => stored = 0
    BY <1>1 DEF Serene, Quiet, SigningIn
  <1>7. stored' # stored =>
          \A d \in Call \ {c} : exchange[d] = "none" /\ (pc[d] = "idle" \/ kind[d] = "api")
    <2>1. stored' # stored => c \in Hands
      BY <1>0, <1>1, <1>3, <1>4 DEF Hands, TypeOK
    <2>2. \A d \in Call : exchange[d] # "none" => d \in Hands
      BY <1>0 DEF Hands, Sharing
    <2> QED
      BY <2>1, <2>2 DEF Serene, Hands
  <1>8. Known'
    <2> SUFFICES ASSUME ~outlived', NEW i \in Pair, Live(i)
                 PROVE  i = stored' \/ \E d \in Call : got'[d] = i
      BY <1>1 DEF Known, Live
    <2>1. i = stored \/ \E d \in Call : got[d] = i
      BY <1>3 DEF Serene, Quiet, Known
    <2>2. CASE kind[c] = "logout"
      <3>1. stored = body[c]
        BY <1>3, <2>2
      <3>2. i # stored
        <4>1. CASE pc[c] = "ok"
          BY <2>2, <3>1, <4>1 DEF Serene, Quiet, SigningOut
        <4>2. CASE pc[c] = "error"
          BY <1>0, <2>2, <4>2 DEF Serene, Quiet, GivenUp
        <4> QED
          BY <1>1, <4>1, <4>2
      <3> QED
        BY <1>0, <1>2, <1>5, <2>1, <2>2, <3>2
    <2>3. CASE kind[c] = "login" /\ pc[c] = "ok"
      BY <1>0, <1>2, <1>3, <1>6, <2>1, <2>3
    <2>4. CASE kind[c] # "logout" /\ ~(kind[c] = "login" /\ pc[c] = "ok")
      <3>1. stored' = stored
        BY <1>0, <1>1, <1>3, <1>4, <2>4 DEF TypeOK
      <3> QED
        BY <1>0, <1>2, <1>5, <2>1, <2>4, <3>1
    <2> QED
      BY <2>2, <2>3, <2>4
  <1>9. ASSUME NEW d \in Call
        PROVE  Exchanging(d)' /\ GivenUp(d)' /\ SigningIn(d)' /\ SigningOut(d)'
    <2>1. CASE d = c
      BY <1>1, <2>1 DEF Exchanging, GivenUp, SigningIn, SigningOut
    <2>2. CASE d # c
      <3>1. SigningOut(d)'
        BY <1>1, <1>2, <2>2 DEF Serene, Quiet, SigningOut, Live
      <3>2. CASE stored' = stored
        <4>1. Exchanging(d)'
          BY <1>1, <2>2, <3>2 DEF Serene, Quiet, Exchanging, Live
        <4>2. GivenUp(d)' /\ SigningIn(d)'
          BY <1>2, <2>2, <3>2 DEF Serene, Quiet, GivenUp, SigningIn
        <4> QED
          BY <3>1, <4>1, <4>2
      <3>3. CASE stored' # stored
        <4>1. exchange[d] = "none" /\ (pc[d] = "idle" \/ kind[d] = "api")
          BY <1>7, <2>2, <3>3
        <4>2. Exchanging(d)' /\ GivenUp(d)' /\ SigningIn(d)'
          BY <1>1, <1>2, <2>2, <4>1 DEF Exchanging, GivenUp, SigningIn
        <4> QED
          BY <3>1, <4>2
      <3> QED
        BY <3>2, <3>3
    <2> QED
      BY <2>1, <2>2
  <1> QED
    BY <1>8, <1>9 DEF Quiet

\* The first 401 starts a refresh of what is stored, unless this leaves a tab wedged.
LEMMA QuietRefused ==
  ASSUME Serene, NEW c \in Call, Refused(c), Calm'
  PROVE  Quiet'
  <1>0. /\ TypeOK /\ Sharing /\ DOMAIN pc = Call /\ DOMAIN exchange = Call
        /\ DOMAIN presented = Call
    BY DEF Serene, SInv, Base, TypeOK
  <1>1. /\ pc[c] = "refused" /\ tab[c] # Nobody /\ tab[c] \in Tab
        /\ UNCHANGED <<got, kind, body, work, row, age, outlived>>
    BY <1>0 DEF Refused, RefreshTokens, server, request, TypeOK
  <1>2. CASE /\ pc' = [pc EXCEPT ![c] = "waiting"]
             /\ UNCHANGED <<exchange, presented, stored>>
    BY <1>1, <1>2, QuietMove
  <1>3. CASE /\ pc' = [pc EXCEPT ![c] = "waiting"] /\ stored # 0 /\ stored' = stored
             /\ exchange' = [exchange EXCEPT ![c] = "sent"]
             /\ presented' = [presented EXCEPT ![c] = stored]
    <2>1. /\ pc'[c] = "waiting" /\ exchange'[c] = "sent" /\ presented'[c] = stored
          /\ \A d \in Call \ {c} : /\ pc'[d] = pc[d] /\ exchange'[d] = exchange[d]
                                   /\ presented'[d] = presented[d]
      BY <1>0, <1>3
    <2>2. Known'
      BY <1>1, <1>3 DEF Serene, Quiet, Known, Live
    <2>3. ASSUME NEW d \in Call
          PROVE  Exchanging(d)' /\ GivenUp(d)' /\ SigningIn(d)' /\ SigningOut(d)'
      <3>1. CASE d = c
        <4>1. Exchanging(d)' /\ GivenUp(d)' /\ SigningOut(d)'
          BY <1>3, <2>1, <3>1 DEF Exchanging, GivenUp, SigningOut
        <4>2. SigningIn(d)'
          BY <1>1, <3>1 DEF Serene, Kinds, SigningIn
        <4> QED
          BY <4>1, <4>2
      <3>2. CASE d # c
        <4>1. Exchanging(d)' /\ GivenUp(d)' /\ SigningIn(d)'
          BY <1>1, <1>3, <2>1, <3>2 DEF Serene, Quiet, Exchanging, GivenUp, SigningIn, Live
        <4>2. SigningOut(d)'
          BY <1>1, <2>1, <3>2 DEF Serene, Quiet, SigningOut, Live
        <4> QED
          BY <4>1, <4>2
      <3> QED
        BY <3>1, <3>2
    <2> QED
      BY <2>2, <2>3 DEF Quiet
  <1>4. CASE inFlight' = [inFlight EXCEPT ![tab[c]] = "wedged"]
    <2>1. inFlight'[tab[c]] = "wedged"
      BY <1>0, <1>1, <1>4 DEF TypeOK
    <2> QED
      BY <1>1, <2>1 DEF Calm
  <1> QED
    BY <1>2, <1>3, <1>4 DEF Refused, RefreshTokens, refresh

\* The answer of a refresh replaces a pair that is no longer good, or clears it.
LEMMA QuietAnswer ==
  ASSUME Serene, NEW c \in Call, ExchangeEnds(c)
  PROVE  Quiet'
  <1>0. /\ TypeOK /\ Sharing /\ DOMAIN got = Call /\ DOMAIN exchange = Call
        /\ stored \in {0} \cup Pair /\ 0 \notin Pair
    BY DEF Serene, SInv, Base, TypeOK, Pair
  <1>1. /\ exchange[c] \in {"granted", "refused"}
        /\ exchange' = [exchange EXCEPT ![c] = "none"] /\ got' = [got EXCEPT ![c] = 0]
        /\ presented' = [presented EXCEPT ![c] = 0]
        /\ UNCHANGED <<kind, body, work, row, age, outlived>>
        /\ \/ stored' = 0
           \/ /\ exchange[c] = "granted" /\ stored' = got[c]
              /\ \A d \in Call : pc'[d] = pc[d] \/ pc'[d] = "resent"
        /\ exchange[c] = "granted" => stored' = got[c]
        /\ \A d \in Call : pc'[d] = pc[d] \/ (pc[d] = "waiting" /\ pc'[d] \in {"resent", "error"})
    BY DEF ExchangeEnds, Answered, Waiting, server
  <1>2. /\ exchange'[c] = "none" /\ got'[c] = 0
        /\ \A d \in Call \ {c} : exchange'[d] = exchange[d] /\ got'[d] = got[d]
    BY <1>0, <1>1
  <1>3. stored # 0 /\ ~Live(stored)
    BY <1>1 DEF Serene, Quiet, Exchanging
  <1>4. pc[c] = "waiting" /\ kind[c] # "login" /\ c \in Hands
    BY <1>0, <1>1 DEF Serene, Kinds, Sharing, Hands
  <1>5. got[c] # 0 => exchange[c] = "granted"
    BY <1>4 DEF Serene
  <1>6. \A d \in Call \ {c} : exchange[d] = "none" /\ (pc[d] = "idle" \/ kind[d] = "api")
    BY <1>0, <1>4 DEF Serene, Hands, Sharing
  <1>7. Known'
    <2> SUFFICES ASSUME ~outlived, NEW i \in Pair, Live(i)
                 PROVE  i = stored' \/ \E d \in Call : got'[d] = i
      BY <1>1 DEF Known, Live
    <2>1. PICK d \in Call : got[d] = i
      BY <1>3 DEF Serene, Quiet, Known
    <2> QED
      BY <1>0, <1>1, <1>2, <1>5, <2>1
  <1>8. ASSUME NEW d \in Call
        PROVE  Exchanging(d)' /\ GivenUp(d)' /\ SigningIn(d)' /\ SigningOut(d)'
    <2>1. Exchanging(d)'
      BY <1>2, <1>6 DEF Exchanging
    <2>2. GivenUp(d)'
      BY <1>1, <1>4, <1>6 DEF GivenUp
    <2>3. SigningIn(d)'
      BY <1>1, <1>4, <1>6 DEF SigningIn
    <2>4. SigningOut(d)'
      BY <1>1 DEF Serene, Quiet, SigningOut, Live
    <2> QED
      BY <2>1, <2>2, <2>3, <2>4
  <1> QED
    BY <1>7, <1>8 DEF Quiet

LEMMA QuietlyStep ==
  ASSUME SInv, OneHand, Heard, Kinds, Fresh, Quietly, [Next]_vars
  PROVE  Quietly'
  <1> SUFFICES ASSUME Calm'
               PROVE  Quiet'
    BY DEF Quietly
  <1>0. Calm /\ faults \in Nat /\ faults' = 0
    BY CalmStep, BoundAssumption DEF SInv, Base, TypeOK, Calm
  <1>1. Serene
    BY <1>0 DEF Serene, Quietly, Calm, OneHand, Heard
  <1>2. CASE UNCHANGED vars
    <2>1. UNCHANGED <<stored, exchange, presented, got, kind, body, work, pc, outlived, row, age>>
      BY <1>2 DEF vars, server, browser, request, refresh
    <2> QED
      BY <1>1, <2>1, QuietAside DEF Live
  <1>3. CASE RequestOtp
    <2>1. UNCHANGED <<stored, exchange, presented, got, kind, body, work, pc, outlived, row, age>>
      BY <1>3 DEF RequestOtp, browser, request, refresh
    <2> QED
      BY <1>1, <2>1, QuietAside DEF Live
  <1>4. ASSUME NEW i \in Pair, Expire(i) \/ Lapse(i)
        PROVE  Quiet'
    <2>1. /\ UNCHANGED <<stored, exchange, presented, got, kind, body, work, pc, outlived, row>>
          /\ \E to \in {"stale", "dead"} : age' = [age EXCEPT ![i] = to]
          /\ age[i] # "dead"
      BY <1>4 DEF Expire, Lapse, server, browser, request, refresh
    <2>2. \A j \in Pair : Live(j)' => Live(j)
      BY <2>1 DEF Live, SInv, Base, TypeOK
    <2> QED
      BY <1>1, <2>1, <2>2, QuietAside
  <1>5. ASSUME NEW c \in Call, Fail(c) \/ FailExchange(c) \/ Unheard(c)
        PROVE  FALSE
    BY <1>0, <1>1, <1>5 DEF Fail, FailExchange, Unheard, Serene
  <1>6. ASSUME NEW t \in Tab, Reload(t)
        PROVE  FALSE
    BY <1>0, <1>6 DEF Reload
  <1> QED
    BY <1>1, <1>2, <1>3, <1>4, <1>5, <1>6, QuietLogout, QuietServer, QuietRefresh, QuietIssue,
       QuietSend, QuietFinish, QuietRefused, QuietAnswer, StepKinds DEF Steady

QInv == SInv /\ OneHand /\ Heard /\ Kinds /\ Fresh /\ Quietly

LEMMA QInvIsInvariant == Spec => []QInv
  <1>1. Init => QInv
    <2> SUFFICES ASSUME Init PROVE QInv
      OBVIOUS
    <2>1. SInv
      BY SInvInit
    <2>2. issued \in {0, 1} /\ stored = issued
      BY DEF Init
    <2>3. /\ \A c \in Call : /\ pc[c] = "idle" /\ exchange[c] = "none" /\ got[c] = 0
                             /\ kind[c] = "api" /\ bearer[c] = 0
          /\ \A i \in Pair : age[i] = "fresh" /\ (row[i] = "valid" => i <= issued)
      BY DEF Init
    <2>4. OneHand /\ Heard /\ Kinds
      BY <2>3 DEF OneHand, Hands, Heard, Kinds
    <2>5. Fresh
      BY <2>2, <2>3, BoundAssumption DEF Init, Fresh, Pair
    <2>6. Known
      BY <2>2, <2>3 DEF Known, Live, Pair
    <2>7. Quietly
      BY <2>3, <2>6 DEF Quietly, Quiet, Exchanging, GivenUp, SigningIn, SigningOut
    <2> QED
      BY <2>1, <2>4, <2>5, <2>7 DEF QInv
  <1>2. QInv /\ [Next]_vars => QInv'
    BY BaseStep, LiveStep, OneHandStep, KindsStep, HeardStep, FreshStep, QuietlyStep
       DEF QInv, SInv, Base
  <1> QED
    BY <1>1, <1>2, PTL DEF Spec

\* When nothing is under way and the browser has no tokens, none of its pairs can be
\* exchanged any more, unless something failed, two hands met, a tab was wedged or a
\* sign-out named an older pair (logout, refresh_session, signOut, api.logout).
THEOREM SignOutIsComplete == Spec => []NothingLeftBehind
  <1>1. QInv => NothingLeftBehind
    <2> SUFFICES ASSUME QInv, \A c \in Call : pc[c] = "idle", stored = 0, Calm, ~outlived,
                        NEW i \in 1..issued
                 PROVE  row[i] = "revoked" \/ age[i] = "dead"
      BY DEF NothingLeftBehind, Calm, QInv, SInv, Base, TypeOK
    <2>1. i \in Pair /\ i # 0 /\ row[i] \in {"valid", "revoked"}
      BY BoundAssumption DEF QInv, Fresh, SInv, Base, TypeOK, Pair
    <2>2. \A c \in Call : got[c] = 0
      BY DEF QInv, SInv, Base, Sharing, Heard, Calm
    <2>3. ~Live(i)
      BY <2>1, <2>2 DEF QInv, Quietly, Quiet, Known
    <2> QED
      BY <2>1, <2>3 DEF Live
  <1> QED
    BY <1>1, QInvIsInvariant, PTL

\* A good session ends for the browser only by a sign-out, as long as nothing fails, no
\* two hands meet and no tab is wedged (Finish: boot and login; refreshTokens: a refusal).
THEOREM SessionsAreKept == Spec => KeepsSession
  <1>1. ASSUME QInv, [Next]_vars, SessionGood, stored' = 0, Calm,
               \A c \in Call : ~(kind[c] = "logout" /\ pc[c] \in {"ok", "error"})
        PROVE  FALSE
    <2>0. /\ stored # 0 /\ Live(stored) /\ Quiet /\ SInv /\ Fresh
      BY <1>1 DEF SessionGood, Live, QInv, Quietly
    <2>1. CASE UNCHANGED vars
      BY <1>1, <2>0, <2>1 DEF vars, browser
    <2>2. CASE Steady
      BY <1>1, <2>0, <2>2, SteadySteps
    <2>3. ASSUME NEW c \in Call,
                 \/ Unheard(c) \/ RefreshCheck(c) \/ RefreshCommit(c) \/ FailExchange(c)
                 \/ \E t \in Tab, k \in {"api", "boot", "logout", "login"} : Send(c, t, k)
          PROVE  stored' = stored
      BY <2>3 DEF Unheard, RefreshCheck, RefreshCommit, Exchange, FailExchange, Send, browser
    <2>4. ASSUME NEW t \in Tab, Reload(t)
          PROVE  stored' = stored
      BY <2>4 DEF Reload
    <2>5. ASSUME NEW c \in Call, Finish(c)
          PROVE  FALSE
      <3>1. pc[c] \in {"ok", "error"} /\ kind[c] # "logout"
        BY <1>1, <2>5 DEF Finish
      <3>2. ~(kind[c] = "boot" /\ pc[c] = "error") /\ kind[c] # "login"
        BY <2>0, <3>1 DEF Quiet, GivenUp, SigningIn
      <3>3. stored' = stored
        BY <2>5, <3>1, <3>2 DEF Finish
      <3> QED
        BY <1>1, <2>0, <3>3
    <2>6. ASSUME NEW c \in Call, Refused(c)
          PROVE  FALSE
      <3>1. tab[c] \in Tab
        BY <2>0, <2>6 DEF Refused, RefreshTokens, SInv, Base, TypeOK
      <3> QED
        BY <1>1, <2>0, <2>6, <3>1 DEF Refused, RefreshTokens, Calm
    <2>7. ASSUME NEW c \in Call, ExchangeEnds(c)
          PROVE  FALSE
      <3>1. exchange[c] \in {"granted", "refused"} /\ (exchange[c] = "granted" => stored' = got[c])
        BY <2>7 DEF ExchangeEnds, Answered
      <3>2. presented[c] = stored /\ ~Live(stored)
        BY <2>0, <3>1 DEF Quiet, Exchanging
      <3> QED
        BY <2>0, <3>2
    <2> QED
      BY <1>1, <2>0, <2>1, <2>2, <2>3, <2>4, <2>5, <2>6, <2>7, StepKinds
  <1>2. QInv /\ [Next]_vars =>
          [SessionGood /\ stored' = 0 /\ faults = 0 /\ ~crossed =>
             \/ \E c \in Call : kind[c] = "logout" /\ pc[c] \in {"ok", "error"}
             \/ \E t \in Tab : inFlight[t] = "wedged"]_vars
    BY <1>1 DEF Calm
  <1> QED
    BY <1>2, QInvIsInvariant, PTL DEF Spec, KeepsSession
=============================================================================
