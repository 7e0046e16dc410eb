---------------------------- MODULE LinkPreviews ----------------------------
(***************************************************************************)
(* Link previews: get_preview, _fetch and validate_url of link_service.py, *)
(* for requests that run concurrently and share the cache.                 *)
(*                                                                         *)
(* What a page says is left out: a preview is the page it was made from    *)
(* and its age.  The web is not a fixed thing: each answer is any of those *)
(* a server may give.  Names resolve to the same addresses every time.     *)
(*                                                                         *)
(* What every module has (Init, Next, Spec, TypeOK) begins with Links      *)
(* here, for ExpiryProofs extends this module beside Retention.            *)
(***************************************************************************)
EXTENDS Naturals, FiniteSets

CONSTANTS
  Request,       \* requests of GET /links/preview, each made again and again
  Url,
  Public,        \* links with a scheme that is allowed and public addresses only
  NoUrl,
  MAX_REDIRECTS,
  Ttl,           \* CACHE_TTL_SECONDS, in ticks of the model's clock
  MaxEntries     \* CACHE_MAX_ENTRIES

ASSUME UrlAssumption   == Public \subseteq Url /\ NoUrl \notin Url
ASSUME LimitAssumption == MAX_REDIRECTS \in Nat /\ Ttl \in Nat \ {0} /\ MaxEntries \in Nat \ {0}

VARIABLES
  cache,     \* _cache: url |-> preview
  stage,     \* idle, fetching, or fetched and not stored yet
  url,       \* the link a request is for
  current,   \* the one _fetch is at
  gets,      \* how many times it has called client.get
  preview,   \* what it came back with
  told,      \* history: for each link the age of the last preview stored
  evicted    \* history: links whose preview was evicted since

handler == <<stage, url, current, gets, preview>>
linksVars == <<cache, handler, told, evicted>>

\* An age stops at Ttl: what is older is no different.
Preview == [page : Url \cup {NoUrl}, age : 0..Ttl]
Nothing == [page |-> NoUrl, age |-> 0]

LinksTypeOK ==
  /\ DOMAIN cache \subseteq Url
  /\ \A u \in DOMAIN cache : cache[u] \in Preview
  /\ stage \in [Request -> {"idle", "fetching", "fetched"}]
  /\ url \in [Request -> Url \cup {NoUrl}]
  /\ current \in [Request -> Url \cup {NoUrl}]
  /\ gets \in [Request -> Nat]
  /\ preview \in [Request -> Preview]
  /\ told \in [Url -> 0..Ttl]
  /\ evicted \subseteq Url

LinksInit ==
  /\ cache = [u \in {} |-> Nothing]
  /\ stage = [r \in Request |-> "idle"]
  /\ url = [r \in Request |-> NoUrl]
  /\ current = [r \in Request |-> NoUrl]
  /\ gets = [r \in Request |-> 0]
  /\ preview = [r \in Request |-> Nothing]
  /\ told = [u \in Url |-> Ttl]
  /\ evicted = {}

\* The request is answered, with a preview or an error.
Answer(r) ==
  /\ stage' = [stage EXCEPT ![r] = "idle"]
  /\ url' = [url EXCEPT ![r] = NoUrl]
  /\ current' = [current EXCEPT ![r] = NoUrl]
  /\ gets' = [gets EXCEPT ![r] = 0]
  /\ preview' = [preview EXCEPT ![r] = Nothing]

\* client.get of a link that validate_url has let pass.
Get(r, u) ==
  /\ current' = [current EXCEPT ![r] = u]
  /\ gets' = [gets EXCEPT ![r] = @ + 1]

Fresh(u) == u \in DOMAIN cache /\ cache[u].age < Ttl

-----------------------------------------------------------------------------
\* The lookup. A link that is cached or not allowed is answered at once, which
\* changes nothing.
Lookup(r, u) ==
  /\ stage[r] = "idle"
  /\ ~Fresh(u) /\ u \in Public
  /\ stage' = [stage EXCEPT ![r] = "fetching"]
  /\ url' = [url EXCEPT ![r] = u]
  /\ Get(r, u)
  /\ UNCHANGED <<cache, preview, told, evicted>>

\* Mutant of Redirected: only the first link is validated.
RedirectedBlindly(r, u) ==
  /\ stage[r] = "fetching"
  /\ IF gets[r] <= MAX_REDIRECTS
     THEN Get(r, u) /\ UNCHANGED <<stage, url, preview>>
     ELSE Answer(r)
  /\ UNCHANGED <<cache, told, evicted>>

\* A redirect: the next hop is validated first, and there are not too many.
Redirected(r, u) ==
  /\ stage[r] = "fetching"
  /\ IF u \in Public /\ gets[r] <= MAX_REDIRECTS
     THEN Get(r, u) /\ UNCHANGED <<stage, url, preview>>
     ELSE Answer(r)
  /\ UNCHANGED <<cache, told, evicted>>

\* What the page says of itself comes from that page, whatever it says.
Parsed(u) == [page |-> u, age |-> 0]

\* A page, or something that is not HTML: LinkPreview takes the time.
Fetched(r) ==
  /\ stage[r] = "fetching"
  /\ stage' = [stage EXCEPT ![r] = "fetched"]
  /\ preview' = [preview EXCEPT ![r] = Parsed(current[r])]
  /\ UNCHANGED <<cache, url, current, gets, told, evicted>>

\* A redirect to nowhere, an error of the server or the network, or the timeout.
Failed(r) ==
  /\ stage[r] = "fetching"
  /\ Answer(r)
  /\ UNCHANGED <<cache, told, evicted>>

\* The entries that might be evicted: none while there is room.
Oldest ==
  IF Cardinality(DOMAIN cache) < MaxEntries THEN {NoUrl}
  ELSE {u \in DOMAIN cache : \A v \in DOMAIN cache : cache[v].age <= cache[u].age}

StoreAs(r, key) ==
  /\ stage[r] = "fetched"
  /\ \E old \in Oldest :
       /\ cache' = [u \in (DOMAIN cache \ {old}) \cup {key} |->
                      IF u = key THEN preview[r] ELSE cache[u]]
       /\ evicted' = (evicted \cup ({old} \ {NoUrl})) \ {url[r]}
  /\ told' = [told EXCEPT ![url[r]] = preview[r].age]
  /\ Answer(r)

\* Mutant of Store: the preview is filed under the page the link leads to.
StoreUnderPage(r) == StoreAs(r, current[r])

\* Mutant of Store: the cache is one entry larger.
StoreBeyond(r) ==
  /\ stage[r] = "fetched"
  /\ cache' = [u \in DOMAIN cache \cup {url[r]} |->
                 IF u = url[r] THEN preview[r] ELSE cache[u]]
  /\ told' = [told EXCEPT ![url[r]] = preview[r].age]
  /\ Answer(r)
  /\ UNCHANGED evicted

\* The oldest entry goes when the cache is full, though the link may have one.
Store(r) == StoreAs(r, url[r])

Older(age) == IF age < Ttl THEN age + 1 ELSE age
Aged(p) == [page |-> p.page, age |-> Older(p.age)]

\* Time passes for what is cached and for what is about to be.
TimePasses ==
  /\ cache' = [u \in DOMAIN cache |-> Aged(cache[u])]
  /\ preview' = [r \in Request |-> IF stage[r] = "fetched"
                                   THEN Aged(preview[r]) ELSE preview[r]]
  /\ told' = [u \in Url |-> Older(told[u])]
  /\ UNCHANGED <<stage, url, current, gets, evicted>>

LinksNext ==
  \/ \E r \in Request :
       \/ \E u \in Url : Lookup(r, u) \/ Redirected(r, u)
       \/ Fetched(r) \/ Failed(r) \/ Store(r)
  \/ TimePasses

LinksSpec == LinksInit /\ [][LinksNext]_linksVars

-----------------------------------------------------------------------------
(***************************************************************************)
(* Properties                                                              *)
(***************************************************************************)

\* However many requests finish at the same time, the cache holds no more than
\* CACHE_MAX_ENTRIES.
CacheBounded == Cardinality(DOMAIN cache) <= MaxEntries

\* "each hop is re-validated", and there are at most MAX_REDIRECTS of them: nothing is
\* requested, and no preview names, what validate_url would refuse (_fetch).
HopsChecked ==
  /\ \A r \in Request : stage[r] = "fetching" =>
       current[r] \in Public /\ gets[r] <= MAX_REDIRECTS + 1
  /\ \A u \in DOMAIN cache : cache[u].page \in Public

\* "fetches each link once": while a preview of the link is not older than the TTL
\* it is fetched again only after an eviction (get_preview), whatever redirects led
\* to the page. Requests that come before it is stored all fetch it.
FetchesOnce ==
  [][\A r \in Request, u \in Url :
       stage[r] = "idle" /\ stage'[r] = "fetching" /\ url'[r] = u
         => told[u] = Ttl \/ u \in evicted]_linksVars
=============================================================================
