---------------------------- MODULE AuthSessions ----------------------------
(***************************************************************************)
(* The sessions of ONE account in ONE browser: auth_service.py on the      *)
(* server, the token store and the shared refresh of frontend/lib/api.ts   *)
(* and the callers that clear the tokens (boot, signOut, the login page).  *)
(*                                                                         *)
(* All tabs share localStorage; each tab has a refreshInFlight of its own, *)
(* which a reload forgets.  A pair (access and refresh token) is a number. *)
(* Access tokens are stateless: only their age counts.  A handler has one  *)
(* step per transaction or stale read.  Reading or writing both entries of *)
(* localStorage is one step, and so are microtasks that follow each other. *)
(***************************************************************************)
EXTENDS Naturals, FiniteSets

CONSTANTS
  Tab,
  Call,       \* slots for requests of the browser that are under way
  Nobody,     \* stands for a tab that was reloaded meanwhile
  MaxPairs,   \* bound of the model: no request begins if the pairs might run out
  MaxCodes,   \* bound of the model: codes requested
  MaxFaults   \* bound of the model: failures, lost answers and reloads

ASSUME NobodyAssumption == Nobody \notin Tab
ASSUME CallAssumption   == IsFiniteSet(Call) /\ "none" \notin Call /\ "wedged" \notin Call
ASSUME BoundAssumption  == MaxPairs \in Nat \ {0} /\ MaxCodes \in Nat /\ MaxFaults \in Nat

VARIABLES
  \* the database
  issued,     \* how many pairs were ever issued
  row,        \* refresh_tokens: what became of each pair
  age,        \* fresh; stale: the access token expired; dead: the refresh token too
  codes,      \* how many codes were ever requested
  open,       \* otp_requests that are not consumed
  account,    \* does the user exist?
  \* the browser
  stored,     \* the pair in localStorage, 0 if there is none
  inFlight,   \* refreshInFlight: a pending exchange, none, or resolved for ever
  tab, kind, pc, bearer, body,    \* a request: who sent it, what, with which tokens
  exchange, presented,            \* POST /auth/refresh made on behalf of a request
  got,        \* the pair issued to a request
  work,       \* what its handler has loaded
  \* history
  origin,     \* the pair or the code a pair was issued for
  contested,  \* pairs and codes that two handlers had checked at the same time
  lost,       \* pairs exchanged for an answer that nobody got
  ended,      \* pairs revoked by a logout
  crossed,    \* did two requests have a hand in the session at the same time?
  outlived,   \* did a sign-out name another pair than the one it cleared?
  faults

server  == <<issued, row, codes, open, account, origin>>
browser == <<stored, inFlight>>
request == <<tab, kind, bearer, body>>
refresh == <<exchange, presented>>
vars == <<server, age, browser, request, pc, refresh, got, work,
          contested, lost, ended, crossed, outlived, faults>>

Pair == 1..MaxPairs
Source == [pair : {0} \cup Pair, code : 0..MaxCodes]
Neither == [pair |-> 0, code |-> 0]
OfPair(p) == [pair |-> p, code |-> 0]
OfCode(k) == [pair |-> 0, code |-> k]

TypeOK ==
  /\ issued \in {0} \cup Pair
  /\ row \in [Pair -> {"none", "valid", "revoked"}]
  /\ age \in [Pair -> {"fresh", "stale", "dead"}]
  /\ codes \in 0..MaxCodes
  /\ open \subseteq 1..MaxCodes
  /\ account \in BOOLEAN
  /\ stored \in {0} \cup Pair
  /\ inFlight \in [Tab -> Call \cup {"none", "wedged"}]
  /\ tab \in [Call -> Tab \cup {Nobody}]
  /\ kind \in [Call -> {"api", "boot", "logout", "login"}]
  /\ pc \in [Call -> {"idle", "sent", "resent", "refused", "waiting", "revoking",
                      "checked", "issuing", "ok", "error"}]
  /\ bearer \in [Call -> {0} \cup Pair]
  /\ body \in [Call -> {0} \cup Pair]
  /\ exchange \in [Call -> {"none", "sent", "checked", "granted", "refused"}]
  /\ presented \in [Call -> {0} \cup Pair]
  /\ got \in [Call -> {0} \cup Pair]
  /\ work \in [Call -> [revoke : SUBSET Pair, code : 0..MaxCodes, newUser : BOOLEAN]]
  /\ origin \in [Pair -> Source]
  /\ contested \in SUBSET Source
  /\ lost \subseteq Pair
  /\ ended \subseteq Pair
  /\ crossed \in BOOLEAN
  /\ outlived \in BOOLEAN
  /\ faults \in 0..MaxFaults

NoWork == [revoke |-> {}, code |-> 0, newUser |-> FALSE]

\* Either nobody has signed up yet, or the browser kept a session.
Init ==
  /\ account \in BOOLEAN
  /\ issued = IF account THEN 1 ELSE 0
  /\ stored = issued
  /\ row = [i \in Pair |-> IF i <= issued THEN "valid" ELSE "none"]
  /\ age = [i \in Pair |-> "fresh"]
  /\ codes = 0 /\ open = {}
  /\ inFlight = [t \in Tab |-> "none"]
  /\ tab = [c \in Call |-> Nobody]
  /\ kind = [c \in Call |-> "api"]
  /\ pc = [c \in Call |-> "idle"]
  /\ bearer = [c \in Call |-> 0] /\ body = [c \in Call |-> 0]
  /\ exchange = [c \in Call |-> "none"] /\ presented = [c \in Call |-> 0]
  /\ got = [c \in Call |-> 0]
  /\ work = [c \in Call |-> NoWork]
  /\ origin = [i \in Pair |-> Neither]
  /\ contested = {} /\ lost = {} /\ ended = {}
  /\ crossed = FALSE /\ outlived = FALSE
  /\ faults = 0

Goto(c, from, to) ==
  /\ pc[c] = from
  /\ pc' = [pc EXCEPT ![c] = to]

\* Requests that may yet change what is stored.
Hands == {c \in Call : pc[c] # "idle" /\ (exchange[c] # "none" \/ kind[c] # "api")}

\* Every step that can set the second hand to the session records it.
NoteCrossing ==
  crossed' = (crossed \/ Cardinality(Hands') > 1)

-----------------------------------------------------------------------------
\* Time passes.

\* The access token expires: it lives longer than its way to the browser and the
\* one request that is resent with it. A pair that nobody holds need not age.
Expire(i) ==
  /\ age[i] = "fresh"
  /\ i = stored \/ \E c \in Call : bearer[c] = i
  /\ \A c \in Call : got[c] # i /\ (pc[c] = "resent" => bearer[c] # i)
  /\ age' = [age EXCEPT ![i] = "stale"]
  /\ UNCHANGED <<server, browser, request, pc, refresh, got, work,
                 contested, lost, ended, crossed, outlived, faults>>

\* And a week later the refresh token: no request takes that long.
Lapse(i) ==
  /\ age[i] = "stale" /\ i = stored
  /\ \A c \in Call : pc[c] = "idle"
  /\ age' = [age EXCEPT ![i] = "dead"]
  /\ UNCHANGED <<server, browser, request, pc, refresh, got, work,
                 contested, lost, ended, crossed, outlived, faults>>

-----------------------------------------------------------------------------
\* Requests of the browser (request in api.ts and its callers).

\* The access token goes into the header and, for a logout, the refresh token
\* into the body. Signing in is for who has no tokens, on a page of its own; boot
\* comes first on its page, and asks for nothing without them.
Send(c, t, k) ==
  /\ issued + Cardinality({d \in Call : pc[d] # "idle"}) < MaxPairs
  /\ k = "login" => stored = 0 /\ \A d \in Call : tab[d] = t => kind[d] # "boot"
  /\ k = "boot" => stored # 0 /\ \A d \in Call : tab[d] = t => pc[d] = "idle"
  /\ Goto(c, "idle", "sent")
  /\ tab' = [tab EXCEPT ![c] = t]
  /\ kind' = [kind EXCEPT ![c] = k]
  /\ bearer' = [bearer EXCEPT ![c] = IF k = "login" THEN 0 ELSE stored]
  /\ body' = [body EXCEPT ![c] = IF k = "logout" THEN stored ELSE 0]
  /\ UNCHANGED <<server, age, browser, refresh, got, work, contested, lost, ended,
                 outlived, faults>>
  /\ NoteCrossing

\* A request is over, at the server or in the browser.
Done(c) ==
  /\ pc' = [pc EXCEPT ![c] = "idle"]
  /\ bearer' = [bearer EXCEPT ![c] = 0]
  /\ body' = [body EXCEPT ![c] = 0]
  /\ got' = [got EXCEPT ![c] = 0]
  /\ work' = [work EXCEPT ![c] = NoWork]
  /\ tab' = [tab EXCEPT ![c] = Nobody]
  /\ kind' = [kind EXCEPT ![c] = "api"]

\* What the callers do in the end: signOut clears the tokens whatever came back,
\* boot when anything failed; the login page stores the pair.
Finish(c) ==
  /\ pc[c] \in {"ok", "error"} /\ tab[c] # Nobody
  /\ Done(c)
  /\ stored' = CASE kind[c] = "logout"                  -> 0
                 [] kind[c] = "boot" /\ pc[c] = "error" -> 0
                 [] kind[c] = "login" /\ pc[c] = "ok"   -> got[c]
                 [] OTHER -> stored
  /\ outlived' = (outlived \/ (kind[c] = "logout" /\ stored # body[c]))
  /\ UNCHANGED <<server, age, inFlight, refresh, contested, lost, ended, crossed, faults>>

\* The first 401 joins the refresh under way in its tab, or starts one with token p.
\* Without a token the promise is resolved before the try, so it is kept for ever.
RefreshTokens(c, p) ==
  LET t == tab[c]
      none == inFlight[t] = "none"
  IN  /\ pc[c] = "refused" /\ t # Nobody
      /\ \/ /\ none /\ p # 0
            /\ inFlight' = [inFlight EXCEPT ![t] = c]
            /\ exchange' = [exchange EXCEPT ![c] = "sent"]
            /\ presented' = [presented EXCEPT ![c] = p]
            /\ pc' = [pc EXCEPT ![c] = "waiting"]
            /\ UNCHANGED stored
         \/ /\ inFlight[t] \in Call
            /\ pc' = [pc EXCEPT ![c] = "waiting"]
            /\ UNCHANGED <<inFlight, refresh, stored>>
         \/ /\ inFlight[t] = "wedged" \/ (none /\ p = 0)
            /\ inFlight' = [inFlight EXCEPT ![t] = "wedged"]
            /\ stored' = 0
            /\ pc' = [pc EXCEPT ![c] = "error"]
            /\ UNCHANGED refresh
      /\ UNCHANGED <<server, age, request, got, work, contested, lost, ended,
                     outlived, faults>>
      /\ NoteCrossing

\* Mutant of Refused: the token the request was sent with is presented.
RefusedOld(c) == RefreshTokens(c, bearer[c])

Refused(c) == RefreshTokens(c, stored)

\* The answer of an exchange: tokens are stored and the requests in woken are sent
\* again with them, or both end.
Answered(c, tokens, woken, again) ==
  /\ exchange[c] \in {"granted", "refused"} /\ tab[c] # Nobody
  /\ exchange' = [exchange EXCEPT ![c] = "none"]
  /\ presented' = [presented EXCEPT ![c] = 0]
  /\ inFlight' = [inFlight EXCEPT ![tab[c]] = "none"]
  /\ got' = [got EXCEPT ![c] = 0]
  /\ IF exchange[c] = "granted"
     THEN /\ stored' = tokens
          /\ bearer' = [d \in Call |-> IF d \in woken THEN tokens ELSE bearer[d]]
          /\ pc' = [d \in Call |-> IF d \in woken THEN again ELSE pc[d]]
     ELSE /\ stored' = 0
          /\ pc' = [d \in Call |-> IF d \in woken THEN "error" ELSE pc[d]]
          /\ UNCHANGED bearer
  /\ UNCHANGED <<server, age, tab, kind, body, work, contested, lost, ended, crossed,
                 outlived, faults>>

\* Every request of the tab that waits for the exchange of c.
Waiting(c) == {d \in Call : tab[d] = tab[c] /\ pc[d] = "waiting"}

\* Mutants of ExchangeEnds: only the request that asked for it goes on; the new pair
\* is not stored.
ExchangeEndsForOne(c)  == Answered(c, got[c], {c}, "resent")
ExchangeEndsUnstored(c) == Answered(c, presented[c], Waiting(c), "resent")

\* The tab stores the new pair and sends what was waiting once more, with the
\* tokens of now and the body of then; or it clears its tokens.
ExchangeEnds(c) == Answered(c, got[c], Waiting(c), "resent")

-----------------------------------------------------------------------------
\* The server.

\* current_user: any request with a token that has not expired is let in.
Accepted(c) == bearer[c] # 0 /\ age[bearer[c]] = "fresh"

Deny(c) ==
  /\ kind[c] # "login" /\ ~Accepted(c)
  /\ \/ Goto(c, "sent", "refused")
     \/ Goto(c, "resent", "error")
  /\ UNCHANGED <<server, age, browser, request, refresh, got, work,
                 contested, lost, ended, crossed, outlived, faults>>

\* A request that has nothing to do with sessions.
Serve(c) ==
  /\ kind[c] \in {"api", "boot"} /\ Accepted(c)
  /\ pc[c] \in {"sent", "resent"}
  /\ pc' = [pc EXCEPT ![c] = "ok"]
  /\ UNCHANGED <<server, age, browser, request, refresh, got, work,
                 contested, lost, ended, crossed, outlived, faults>>

\* What logout holds of the rows it is about to revoke.
Revoking(rows) == [revoke |-> rows, code |-> 0, newUser |-> FALSE]

\* logout: the row of the token it was given, or every valid row without one.
LogoutLoad(c) ==
  /\ kind[c] = "logout" /\ Accepted(c)
  /\ pc[c] \in {"sent", "resent"}
  /\ LET valid == {i \in Pair : row[i] = "valid"}
         rows  == IF body[c] = 0 THEN valid
                  ELSE IF age[body[c]] = "dead" THEN {} ELSE {body[c]}
     IN  work' = [work EXCEPT ![c] = Revoking(rows)]
  /\ pc' = [pc EXCEPT ![c] = "revoking"]
  /\ UNCHANGED <<server, age, browser, request, refresh, got,
                 contested, lost, ended, crossed, outlived, faults>>

\* Mutant of LogoutCommit: the flag is set and never committed.
LogoutCommitLost(c) ==
  /\ Goto(c, "revoking", "ok")
  /\ work' = [work EXCEPT ![c] = NoWork]
  /\ UNCHANGED <<server, age, browser, request, refresh, got, contested, lost, ended,
                 crossed, outlived, faults>>

LogoutCommit(c) ==
  /\ Goto(c, "revoking", "ok")
  /\ row' = [i \in Pair |-> IF i \in work[c].revoke THEN "revoked" ELSE row[i]]
  /\ ended' = ended \cup work[c].revoke
  /\ work' = [work EXCEPT ![c] = NoWork]
  /\ UNCHANGED <<issued, codes, open, account, origin, age, browser, request, refresh,
                 got, contested, lost, crossed, outlived, faults>>

\* _issue_tokens, in the transaction of its caller.
Issue(c, from) ==
  /\ issued' = issued + 1
  /\ got' = [got EXCEPT ![c] = issued + 1]
  /\ origin' = [origin EXCEPT ![issued + 1] = from]

\* refresh_session up to the commit: known, not revoked, not expired.
RefreshCheck(c) ==
  LET p == presented[c]
      good == row[p] = "valid" /\ age[p] # "dead"
      rival == \E d \in Call \ {c} : exchange[d] = "checked" /\ presented[d] = p
  IN  /\ exchange[c] = "sent"
      /\ exchange' = [exchange EXCEPT ![c] = IF good THEN "checked" ELSE "refused"]
      /\ contested' = contested \cup
           (IF good /\ rival THEN {OfPair(p)} ELSE {})
      /\ UNCHANGED <<server, age, browser, request, pc, presented, got, work,
                     lost, ended, crossed, outlived, faults>>

\* One transaction revokes the pair old and inserts the new one.
Exchange(c, old) ==
  /\ exchange[c] = "checked"
  /\ exchange' = [exchange EXCEPT ![c] = "granted"]
  /\ Issue(c, OfPair(presented[c]))
  /\ row' = [row EXCEPT ![issued + 1] = "valid", ![old] = "revoked"]
  /\ UNCHANGED <<codes, open, account, age, browser, request, pc, presented, work,
                 contested, lost, ended, crossed, outlived, faults>>

\* Mutant of RefreshCommit: the presented pair is not revoked.
RefreshCommitKeep(c) == Exchange(c, 0)

RefreshCommit(c) == Exchange(c, presented[c])

-----------------------------------------------------------------------------
\* Signing in.

\* request_otp, of the login page.
RequestOtp ==
  /\ codes < MaxCodes /\ stored = 0
  /\ codes' = codes + 1
  /\ open' = open \cup {codes + 1}
  /\ UNCHANGED <<issued, row, account, origin, age, browser, request, pc, refresh, got,
                 work, contested, lost, ended, crossed, outlived, faults>>

\* What verify_otp holds of a code and of the user it belongs to.
Challenge(code) == [revoke |-> {}, code |-> code, newUser |-> ~account]

\* verify_otp: the latest code that is not consumed, and is there a user?
VerifyLoad(c) ==
  \E code \in open :
      /\ \A k \in open : k <= code
      /\ kind[c] = "login"
      /\ Goto(c, "sent", "checked")
      /\ work' = [work EXCEPT ![c] = Challenge(code)]
      /\ contested' = contested \cup
           (IF \E d \in Call \ {c} : pc[d] = "checked" /\ work[d].code = code
            THEN {OfCode(code)} ELSE {})
      /\ UNCHANGED <<server, age, browser, request, refresh, got,
                     lost, ended, crossed, outlived, faults>>

\* No code was requested, or it has expired, or it is another one.
VerifyRefuse(c) ==
  /\ kind[c] = "login"
  /\ Goto(c, "sent", "error")
  /\ UNCHANGED <<server, age, browser, request, refresh, got, work,
                 contested, lost, ended, crossed, outlived, faults>>

\* The first commit consumes the code and creates the user; the phone number is
\* unique, so the second of two new users fails and keeps its code.
VerifyCommit(c) ==
  /\ IF work[c].newUser /\ account
     THEN /\ Goto(c, "checked", "error")
          /\ UNCHANGED <<open, account>>
     ELSE /\ Goto(c, "checked", "issuing")
          /\ open' = open \ {work[c].code}
          /\ account' = TRUE
  /\ UNCHANGED <<issued, row, codes, origin, age, browser, request, refresh, got, work,
                 contested, lost, ended, crossed, outlived, faults>>

\* The second commit issues the pair.
VerifyIssue(c) ==
  /\ Goto(c, "issuing", "ok")
  /\ Issue(c, OfCode(work[c].code))
  /\ row' = [row EXCEPT ![issued + 1] = "valid"]
  /\ UNCHANGED <<codes, open, account, age, browser, request, refresh, work,
                 contested, lost, ended, crossed, outlived, faults>>

-----------------------------------------------------------------------------
\* What goes wrong.

\* A request, its handler or its answer is lost, or the answer is a 500: what is
\* not committed is rolled back.
Fail(c) ==
  /\ faults < MaxFaults /\ faults' = faults + 1
  /\ pc[c] \notin {"idle", "waiting", "error"} /\ tab[c] # Nobody
  /\ pc' = [pc EXCEPT ![c] = "error"]
  /\ UNCHANGED <<server, age, browser, request, refresh, got, work,
                 contested, lost, ended, crossed, outlived>>

\* The same for an exchange.
FailExchange(c) ==
  /\ faults < MaxFaults /\ faults' = faults + 1
  /\ exchange[c] \in {"sent", "checked", "granted"} /\ tab[c] # Nobody
  /\ exchange' = [exchange EXCEPT ![c] = "refused"]
  /\ lost' = lost \cup (IF exchange[c] = "granted" THEN {presented[c]} ELSE {})
  /\ got' = [got EXCEPT ![c] = 0]
  /\ UNCHANGED <<server, age, browser, request, pc, presented, work,
                 contested, ended, crossed, outlived>>

\* A tab is reloaded or closed: the module starts anew, what it has sent goes on.
Reload(t) ==
  /\ faults < MaxFaults /\ faults' = faults + 1
  /\ inFlight' = [inFlight EXCEPT ![t] = "none"]
  /\ tab' = [c \in Call |-> IF tab[c] = t /\ pc[c] # "idle" THEN Nobody ELSE tab[c]]
  /\ UNCHANGED <<server, age, stored, kind, bearer, body, pc, refresh, got, work,
                 contested, lost, ended, outlived>>
  /\ NoteCrossing

\* An answer for a tab that is gone.
Unheard(c) ==
  /\ tab[c] = Nobody
  /\ pc[c] \in {"refused", "waiting", "ok", "error"}
  /\ exchange[c] \notin {"sent", "checked"}
  /\ lost' = lost \cup (IF exchange[c] = "granted" THEN {presented[c]} ELSE {})
  /\ exchange' = [exchange EXCEPT ![c] = "none"]
  /\ presented' = [presented EXCEPT ![c] = 0]
  /\ Done(c)
  /\ UNCHANGED <<server, age, browser, contested, ended, crossed, outlived, faults>>

-----------------------------------------------------------------------------
Handler(c) ==
  \/ Deny(c) \/ Serve(c) \/ LogoutLoad(c) \/ LogoutCommit(c)
  \/ RefreshCheck(c) \/ RefreshCommit(c)
  \/ VerifyLoad(c) \/ VerifyRefuse(c) \/ VerifyCommit(c) \/ VerifyIssue(c)

Client(c) == Finish(c) \/ Refused(c) \/ ExchangeEnds(c) \/ Unheard(c)

Next ==
  \/ \E i \in Pair : Expire(i) \/ Lapse(i)
  \/ RequestOtp
  \/ \E c \in Call :
       \/ \E t \in Tab, k \in {"api", "boot", "logout", "login"} : Send(c, t, k)
       \/ Handler(c) \/ Client(c) \/ Fail(c) \/ FailExchange(c)
  \/ \E t \in Tab : Reload(t)

Spec == Init /\ [][Next]_vars

-----------------------------------------------------------------------------
(***************************************************************************)
(* Properties                                                              *)
(***************************************************************************)

IssuedFor(s) == {i \in 1..issued : origin[i] = s}

\* "The presented refresh token is revoked as the new pair is issued, so replay
\* fails", and of a code "It is single use": a pair is exchanged once and a code opens
\* one session, unless two requests had both checked it before either consumed it
\* (refresh_session, verify_otp).
UsedOnce ==
  \A s \in Source \ ({Neither} \cup contested) : Cardinality(IssuedFor(s)) <= 1

\* The tokens of the browser are good for an exchange, until they expire: they are
\* replaced by whoever made them useless, or cleared (refreshTokens, signOut),
\* unless the answer that should have done so is lost or still under way.
StoredIsLive ==
  stored # 0 /\ row[stored] # "valid" =>
    \/ stored \in lost \cup ended
    \/ \E c \in Call : exchange[c] = "granted" /\ presented[c] = stored

\* Could the browser go on with what it has stored?
SessionGood == stored # 0 /\ row[stored] = "valid" /\ age[stored] # "dead"

\* A session that is still good ends for the browser only because its user signs
\* out: as long as nothing fails, no two requests meddle with it at the same time and
\* no tab has kept the resolved promise of a refresh without tokens (api.ts).
KeepsSession ==
  [][SessionGood /\ stored' = 0 /\ faults = 0 /\ ~crossed =>
       \/ \E c \in Call : kind[c] = "logout" /\ pc[c] \in {"ok", "error"}
       \/ \E t \in Tab : inFlight[t] = "wedged"]_vars

\* "Logout can actually revoke a session": when nothing is under way and the
\* browser has no tokens, no pair of its is left that could still be exchanged,
\* unless something failed, two hands met, a tab was wedged, or the sign-out named an
\* older pair than the one it cleared (api.logout builds its body before the refresh).
NothingLeftBehind ==
  (\A c \in Call : pc[c] = "idle") /\ stored = 0 =>
    \/ \A i \in 1..issued : row[i] = "revoked" \/ age[i] = "dead"
    \/ faults > 0 \/ crossed \/ outlived
    \/ \E t \in Tab : inFlight[t] = "wedged"

\* "Concurrent 401s share one call": no request waits for an exchange that is over,
\* whoever had asked for it, so none waits for ever (refreshInFlight).
WaitersAreOwed ==
  \A c \in Call :
    pc[c] = "waiting" /\ tab[c] # Nobody =>
      /\ inFlight[tab[c]] \in Call
      /\ exchange[inFlight[tab[c]]] # "none" /\ tab[inFlight[tab[c]]] = tab[c]
=============================================================================
