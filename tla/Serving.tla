-------------------------------- MODULE Serving --------------------------------
(***************************************************************************)
(* What the server answers, and from where: POST /search                   *)
(* (handlers/search.rs) and POST /contents (handlers/contents.rs) over the *)
(* two caches of crates/cache, one for answers by query and one for page   *)
(* content by URL.  Startup is the process around them: it says which      *)
(* providers have candidates and which must not be cached.                 *)
(*                                                                         *)
(* Handlers run side by side and touch the caches one entry at a time.     *)
(* The executors are in SearchCascade and ContentCascade; here they are an *)
(* answer that may come from any provider the request allows, or none.     *)
(* Between its waits for an executor a handler takes no time.              *)
(*                                                                         *)
(* A page is a normalised URL, a content what a provider returned of it:   *)
(* its body in a format, its snippets, or both.  The parameters of a       *)
(* request that the caches do not look into are one value each: topic for  *)
(* query, language, country and group, tuning for max_snippets and         *)
(* min_score, window for the dates.                                        *)
(***************************************************************************)
EXTENDS Startup

CONSTANTS
  Handler,      \* requests that are handled at the same time
  Search,       \* the searches that may come
  Fetch,        \* the content requests that may come
  Page,         \* normalised URLs
  Entry,        \* entries of include_domains and exclude_domains
  Covers,       \* the pages that each of them covers
  Format,       \* formats of a body
  Supports,     \* the parts of a content that the adapters can fill, by provider
  Nil,          \* what stands where there is no content, entry or request
  DocTtl,       \* DOC_CACHE_TTL_SECS
  MaxTtl,       \* bound on CACHE_TTL_SECS and cache_ttl_secs
  MaxTime       \* bound on the time

Part == {"snippets", "body"}

SearchRequest ==
  [topic : STRING, window : STRING, tuning : STRING,
   wants : SUBSET Part,            \* extra_snippets, full_content
   format : Format,                \* of full_content
   require_enrichment : BOOLEAN, fallback_on_empty : BOOLEAN,
   include : SUBSET Entry, exclude : SUBSET Entry, ttl : 0..MaxTtl]

ContentsRequest == [urls : SUBSET Page, format : Format, fresh : BOOLEAN]

ASSUME ServingAssumption ==
  /\ Search \subseteq SearchRequest
  /\ Fetch \subseteq ContentsRequest
  /\ Covers \in [Entry -> SUBSET Page]
  /\ DOMAIN Supports \subseteq Provider
  /\ \A p \in DOMAIN Supports : Supports[p] \subseteq Part
  /\ None \notin Format /\ None \notin Page
  /\ DocTtl \in Nat \ {0} /\ MaxTtl \in Nat \ {0}
  /\ MaxTime \in Nat

VARIABLES
  cache,      \* QueryCache
  docs,       \* DocCache
  pc,         \* where each handler stands
  request,    \* its request
  winner,     \* the provider whose answer it gets, or got
  results,    \* its answer: the content of each page, if any
  pending,    \* the pages it has still to look at
  stale,      \* the page whose expired entry it is about to remove
  hit,        \* its answer came from the query cache
  now

handler == <<pc, request, winner, results, pending, stale, hit>>
servingVars == <<cache, docs, handler, now>>
vars == <<startupVars, servingVars>>

Content == [body : Format \union {None}, snippets : BOOLEAN, at : Nat]

Nothing == [body |-> None, snippets |-> FALSE, at |-> 0]

Results == [Page -> Content \union {Nil}]

NoResults == [u \in Page |-> Nil]

HasContent(c) == c # Nil /\ (c.body # None \/ c.snippets)

Idle == "idle"

\* Mutant: a plain search does not tell its domains.
KeyOfUnrestrictedPlain(r) ==
  [topic |-> r.topic, window |-> r.window,
   wants |-> r.wants,
   format |-> IF "body" \in r.wants THEN r.format ELSE None,
   tuning |-> IF r.wants = {} THEN None ELSE r.tuning,
   include |-> IF r.wants = {} THEN {} ELSE r.include,
   exclude |-> IF r.wants = {} THEN {} ELSE r.exclude,
   fallback_on_empty |-> r.fallback_on_empty]

\* cache_key with enrichment_cache_key: n, require_enrichment and what the
\* request excludes are no part of it.
CacheKey(r) ==
  [topic |-> r.topic, window |-> r.window,
   wants |-> r.wants,
   format |-> IF "body" \in r.wants THEN r.format ELSE None,
   tuning |-> IF r.wants = {} THEN None ELSE r.tuning,
   include |-> r.include, exclude |-> r.exclude,
   fallback_on_empty |-> r.fallback_on_empty]

Keys == {CacheKey(r) : r \in Search}

CacheEntry == [results : Results, provider : Provider, stored_at : Nat, ttl : Nat]

\* Nothing is remembered of a page that came without content.
DocEntry ==
  {e \in [body : Format \union {None}, snippets : BOOLEAN, at : Nat, stored_at : Nat] :
     e.body # None \/ e.snippets}

ASSUME NilAssumption == Nil \notin Content /\ Nil \notin CacheEntry /\ Nil \notin DocEntry

\* Mutant: an entry outlives its ttl.
OutlivesTtl(e, ttl) == now - e.stored_at > ttl

Expired(e, ttl) == now - e.stored_at >= ttl

LiveDoc(u) == docs[u] # Nil /\ ~Expired(docs[u], DocTtl)

LiveAnswer(k) == cache[k] # Nil /\ ~Expired(cache[k], cache[k].ttl)

\* The providers that have an adapter: rows may be there that have none.
Adapters == DOMAIN Supports

\* The providers that the request may get an answer from: a strict one only from
\* those whose adapter can fill all it wants.
Pool(r) ==
  {p \in candidates \intersect Adapters :
     r.require_enrichment => r.wants \subseteq Supports[p]}

\* The cache is neither read nor written for these.
Bypass(r) == r.ttl = 0 \/ (candidates # {} /\ candidates \subseteq no_cache)

Init ==
  /\ StartupInit
  /\ cache = [k \in Keys |-> Nil] /\ docs = [u \in Page |-> Nil]
  /\ pc = [h \in Handler |-> Idle]
  /\ request = [h \in Handler |-> Nil] /\ winner = [h \in Handler |-> None]
  /\ results = [h \in Handler |-> NoResults]
  /\ pending = [h \in Handler |-> {}] /\ stale = [h \in Handler |-> None]
  /\ hit = [h \in Handler |-> FALSE]
  /\ now = 0
-----------------------------------------------------------------------------
(* handle_search *)

Arrive(h, r) ==
  /\ Called
  /\ pc[h] = Idle
  /\ UNCHANGED <<tables, env, phase, seed, memory, past>>
  /\ request' = [request EXCEPT ![h] = r]

\* The executor is asked, and will answer from a provider of the pool or fail.
AskExecutor(h, r) ==
  /\ pc' = [pc EXCEPT ![h] = "searching"]
  /\ \E w \in Pool(r) \union {None} : winner' = [winner EXCEPT ![h] = w]

SearchMisses(h, r) ==
  /\ Arrive(h, r)
  /\ Bypass(r) \/ cache[CacheKey(r)] = Nil
  /\ AskExecutor(h, r)
  /\ UNCHANGED <<cache, docs, results, pending, stale, hit, now>>

\* Mutant: a reader who wants the answer for a shorter time than it was kept for
\* takes it for expired.
SearchFindsTooOld(h, r) ==
  /\ Arrive(h, r)
  /\ ~Bypass(r) /\ cache[CacheKey(r)] # Nil /\ Expired(cache[CacheKey(r)], r.ttl)
  /\ pc' = [pc EXCEPT ![h] = "evicting"]
  /\ UNCHANGED <<cache, docs, winner, results, pending, stale, hit, now>>

\* QueryCache::get finds an entry that has expired and lets go of it ...
SearchFindsExpired(h, r) ==
  /\ Arrive(h, r)
  /\ ~Bypass(r) /\ cache[CacheKey(r)] # Nil /\ ~LiveAnswer(CacheKey(r))
  /\ pc' = [pc EXCEPT ![h] = "evicting"]
  /\ UNCHANGED <<cache, docs, winner, results, pending, stale, hit, now>>

\* ... and then removes what is under the key by now.
EvictAnswer(h) ==
  /\ pc[h] = "evicting"
  /\ cache' = [cache EXCEPT ![CacheKey(request[h])] = Nil]
  /\ AskExecutor(h, request[h])
  /\ UNCHANGED <<startupVars, docs, request, results, pending, stale, hit, now>>

SearchHits(h, r) ==
  /\ Arrive(h, r)
  /\ ~Bypass(r) /\ LiveAnswer(CacheKey(r))
  /\ pc' = [pc EXCEPT ![h] = "answered"]
  /\ hit' = [hit EXCEPT ![h] = TRUE]
  /\ winner' = [winner EXCEPT ![h] = cache[CacheKey(r)].provider]
  /\ results' = [results EXCEPT ![h] = cache[CacheKey(r)].results]
  /\ UNCHANGED <<cache, docs, pending, stale, now>>

Done(h) ==
  /\ pc' = [pc EXCEPT ![h] = Idle]
  /\ request' = [request EXCEPT ![h] = Nil]
  /\ winner' = [winner EXCEPT ![h] = None]
  /\ results' = [results EXCEPT ![h] = NoResults]
  /\ pending' = [pending EXCEPT ![h] = {}]
  /\ stale' = [stale EXCEPT ![h] = None]
  /\ hit' = [hit EXCEPT ![h] = FALSE]

\* The error of an executor is the answer; or the response is sent.
Finish(h) ==
  /\ \/ pc[h] = "searching" /\ winner[h] = None
     \/ pc[h] \in {"fetching", "answered"}
  /\ Done(h)
  /\ UNCHANGED <<startupVars, cache, docs, now>>

\* A content that provider p may return for request r: only parts that r asks
\* for.  The adapters pass on what the provider's API sends, so this is a demand
\* on the APIs.
ContentFrom(p, r) ==
  {Nothing} \union
  {c \in [body : Format \union {None}, snippets : BOOLEAN, at : {now}] :
     /\ c.body # None => "body" \in r.wants \intersect Supports[p]
     /\ c.snippets => "snippets" \in r.wants \intersect Supports[p]
     /\ c.body # None \/ c.snippets}

\* url_matches
Matches(u, e) == u \in Covers[e]

\* The pages that filter_results leaves.
Permitted(r) ==
  {u \in Page : /\ r.include = {} \/ \E e \in r.include : Matches(u, e)
                /\ \A e \in r.exclude : ~Matches(u, e)}

SearchAnswered(h, answer) ==
  /\ pc[h] = "searching" /\ winner[h] # None
  /\ \A u \in Page : answer[u] \in ContentFrom(winner[h], request[h]) \union {Nil}
  /\ \A u \in Page : answer[u] # Nil => u \in Permitted(request[h])
  /\ request[h].fallback_on_empty => answer # NoResults
  /\ results' = [results EXCEPT ![h] = answer]
  /\ pending' = [pending EXCEPT ![h] =
       IF request[h].wants = {} THEN {} ELSE {u \in Page : answer[u] # Nil}]
  /\ pc' = [pc EXCEPT ![h] = "filling"]
  /\ UNCHANGED <<startupVars, cache, docs, request, winner, stale, hit, now>>

\* The handler, at this stage, has page u in hand.
At(h, stage, u) == pc[h] = stage /\ stale[h] = None /\ u \in pending[h]

Through(h, stage) == pc[h] = stage /\ stale[h] = None /\ pending[h] = {}

Looked(h, u) == pending' = [pending EXCEPT ![h] = @ \ {u}]

\* DocCache::set, which replaces the entry as a whole.
Remember(u, c) ==
  docs' = [docs EXCEPT ![u] = [body |-> c.body, snippets |-> c.snippets,
                               at |-> c.at, stored_at |-> now]]

StashContent(h, u) ==
  /\ At(h, "filling", u)
  /\ HasContent(results[h][u])
  /\ Remember(u, results[h][u])
  /\ Looked(h, u)
  /\ UNCHANGED <<startupVars, cache, pc, request, winner, results, stale, hit, now>>

\* A result that came without content gets what is remembered of its page, in
\* whatever format, and it is not stored again.
Backfill(h, u) ==
  /\ At(h, "filling", u)
  /\ ~HasContent(results[h][u]) /\ LiveDoc(u)
  /\ results' = [results EXCEPT ![h][u] =
       [body |-> docs[u].body, snippets |-> docs[u].snippets, at |-> docs[u].at]]
  /\ Looked(h, u)
  /\ UNCHANGED <<startupVars, cache, docs, pc, request, winner, stale, hit, now>>

NothingToFill(h, u) ==
  /\ At(h, "filling", u)
  /\ ~HasContent(results[h][u]) /\ docs[u] = Nil
  /\ Looked(h, u)
  /\ UNCHANGED <<startupVars, cache, docs, pc, request, winner, results, stale, hit, now>>

\* DocCache::get drops and removes an expired entry like QueryCache::get, for
\* both handlers.
FindExpiredDoc(h, u) ==
  /\ \/ At(h, "filling", u) /\ ~HasContent(results[h][u])
     \/ At(h, "looking", u) /\ ~request[h].fresh
  /\ docs[u] # Nil /\ ~LiveDoc(u)
  /\ stale' = [stale EXCEPT ![h] = u]
  /\ Looked(h, u)
  /\ UNCHANGED <<startupVars, cache, docs, pc, request, winner, results, hit, now>>

EvictDoc(h) ==
  /\ stale[h] # None
  /\ docs' = [docs EXCEPT ![stale[h]] = Nil]
  /\ stale' = [stale EXCEPT ![h] = None]
  /\ UNCHANGED <<startupVars, cache, pc, request, winner, results, pending, hit, now>>

\* Mutant: whoever answered, the answer is cached.
StoreAll(h) ==
  /\ Through(h, "filling")
  /\ cache' = IF request[h].ttl > 0
              THEN [cache EXCEPT ![CacheKey(request[h])] =
                      [results |-> results[h], provider |-> winner[h],
                       stored_at |-> now, ttl |-> request[h].ttl]]
              ELSE cache
  /\ pc' = [pc EXCEPT ![h] = "answered"]
  /\ UNCHANGED <<startupVars, docs, request, winner, results, pending, stale, hit, now>>

\* The answer is cached unless its provider must not be, and sent.
Store(h) ==
  /\ Through(h, "filling")
  /\ cache' = IF request[h].ttl > 0 /\ winner[h] \notin no_cache
              THEN [cache EXCEPT ![CacheKey(request[h])] =
                      [results |-> results[h], provider |-> winner[h],
                       stored_at |-> now, ttl |-> request[h].ttl]]
              ELSE cache
  /\ pc' = [pc EXCEPT ![h] = "answered"]
  /\ UNCHANGED <<startupVars, docs, request, winner, results, pending, stale, hit, now>>
-----------------------------------------------------------------------------
(* handle_contents *)

Demand(h, r) ==
  /\ Arrive(h, r)
  /\ pc' = [pc EXCEPT ![h] = "looking"]
  /\ pending' = [pending EXCEPT ![h] = r.urls]
  /\ UNCHANGED <<cache, docs, winner, results, stale, hit, now>>

\* A body in the format asked for is served from the cache.
ServeDoc(h, u) ==
  /\ At(h, "looking", u)
  /\ ~request[h].fresh /\ LiveDoc(u) /\ docs[u].body = request[h].format
  /\ results' = [results EXCEPT ![h][u] =
       [body |-> docs[u].body, snippets |-> FALSE, at |-> docs[u].at]]
  /\ Looked(h, u)
  /\ UNCHANGED <<startupVars, cache, docs, pc, request, winner, stale, hit, now>>

MissDoc(h, u) ==
  /\ At(h, "looking", u)
  /\ \/ request[h].fresh \/ docs[u] = Nil
     \/ LiveDoc(u) /\ docs[u].body # request[h].format
  /\ Looked(h, u)
  /\ UNCHANGED <<startupVars, cache, docs, pc, request, winner, results, stale, hit, now>>

\* What is missing is fetched; it may come in another format.
SendFetch(h) ==
  /\ Through(h, "looking")
  /\ pc' = [pc EXCEPT ![h] = "fetching"]
  /\ UNCHANGED <<startupVars, cache, docs, request, winner, results, pending, stale, hit, now>>

\* Mutant: what the executor could not fetch is remembered with the rest.
FetchedAll(h, bodies) ==
  /\ pc[h] = "fetching"
  /\ DOMAIN bodies = {u \in request[h].urls : results[h][u] = Nil}
  /\ results' = [results EXCEPT ![h] = [u \in Page |->
       IF u \notin DOMAIN bodies THEN results[h][u]
       ELSE IF bodies[u] = None THEN Nothing
       ELSE [body |-> bodies[u], snippets |-> FALSE, at |-> now]]]
  /\ pending' = [pending EXCEPT ![h] = DOMAIN bodies]
  /\ pc' = [pc EXCEPT ![h] = "stashing"]
  /\ UNCHANGED <<startupVars, cache, docs, request, winner, stale, hit, now>>

Fetched(h, bodies) ==
  /\ pc[h] = "fetching"
  /\ DOMAIN bodies = {u \in request[h].urls : results[h][u] = Nil}
  /\ results' = [results EXCEPT ![h] = [u \in Page |->
       IF u \notin DOMAIN bodies THEN results[h][u]
       ELSE IF bodies[u] = None THEN Nothing
       ELSE [body |-> bodies[u], snippets |-> FALSE, at |-> now]]]
  /\ pending' = [pending EXCEPT ![h] = {u \in DOMAIN bodies : bodies[u] # None}]
  /\ pc' = [pc EXCEPT ![h] = "stashing"]
  /\ UNCHANGED <<startupVars, cache, docs, request, winner, stale, hit, now>>

StashBody(h, u) ==
  /\ At(h, "stashing", u)
  /\ Remember(u, results[h][u])
  /\ Looked(h, u)
  /\ UNCHANGED <<startupVars, cache, pc, request, winner, results, stale, hit, now>>

EndContents(h) ==
  /\ Through(h, "stashing")
  /\ pc' = [pc EXCEPT ![h] = "answered"]
  /\ UNCHANGED <<startupVars, cache, docs, request, winner, results, pending, stale, hit, now>>
-----------------------------------------------------------------------------
(* The process around them, time, and the specification *)

\* What happens at the start and in the tables leaves the caches alone.
Around == StartupNext /\ UNCHANGED servingVars

\* The caches and the handlers die with the process.
Die ==
  /\ Crash
  /\ cache' = [k \in Keys |-> Nil] /\ docs' = [u \in Page |-> Nil]
  /\ pc' = [h \in Handler |-> Idle]
  /\ request' = [h \in Handler |-> Nil] /\ winner' = [h \in Handler |-> None]
  /\ results' = [h \in Handler |-> NoResults]
  /\ pending' = [h \in Handler |-> {}] /\ stale' = [h \in Handler |-> None]
  /\ hit' = [h \in Handler |-> FALSE]
  /\ UNCHANGED <<now>>

\* Time passes while handlers wait for an executor.
Tick ==
  /\ phase = "serving" /\ now < MaxTime /\ now' = now + 1
  /\ \A h \in Handler : pc[h] \in {Idle, "searching", "fetching"}
  /\ UNCHANGED <<startupVars, cache, docs, handler>>

SearchStep(h) ==
  \/ \E r \in Search : SearchMisses(h, r) \/ SearchFindsExpired(h, r) \/ SearchHits(h, r)
  \/ EvictAnswer(h) \/ Finish(h) \/ Store(h) \/ EvictDoc(h)
  \/ \E answer \in [Page -> (IF pc[h] = "searching" /\ winner[h] # None
                            THEN ContentFrom(winner[h], request[h]) ELSE {})
                           \union {Nil}] : SearchAnswered(h, answer)
  \/ \E u \in Page : \/ StashContent(h, u) \/ Backfill(h, u) \/ NothingToFill(h, u)
                     \/ FindExpiredDoc(h, u)

ContentsStep(h) ==
  \/ \E r \in Fetch : Demand(h, r)
  \/ \E u \in Page : ServeDoc(h, u) \/ MissDoc(h, u) \/ StashBody(h, u)
  \/ SendFetch(h) \/ EndContents(h)
  \/ \E urls \in SUBSET Page : \E bodies \in [urls -> Format \union {None}] :
       Fetched(h, bodies)

Next ==
  \/ Around \/ Die \/ Tick
  \/ \E h \in Handler : SearchStep(h) \/ ContentsStep(h)

Spec == Init /\ [][Next]_vars
-----------------------------------------------------------------------------
(* Properties *)

TypeOK ==
  /\ StartupTypeOK
  /\ cache \in [Keys -> CacheEntry \union {Nil}]
  /\ docs \in [Page -> DocEntry \union {Nil}]
  /\ pc \in [Handler -> {Idle, "searching", "evicting", "filling", "looking",
                         "fetching", "stashing", "answered"}]
  /\ request \in [Handler -> Search \union Fetch \union {Nil}]
  /\ \A h \in Handler :
       \/ pc[h] = Idle /\ request[h] = Nil
       \/ pc[h] \in {"searching", "evicting", "filling", "answered"} /\ request[h] \in Search
       \/ pc[h] \in {"looking", "fetching", "stashing", "answered"} /\ request[h] \in Fetch
  /\ winner \in [Handler -> Provider \union {None}]
  /\ results \in [Handler -> Results]
  /\ pending \in [Handler -> SUBSET Page] /\ stale \in [Handler -> Page \union {None}]
  /\ hit \in [Handler -> BOOLEAN]
  /\ now \in Nat

Answered(h) == pc[h] = "answered" /\ request[h] \in Search

\* A page's content is remembered for DOC_CACHE_TTL_SECS and an answer for its
\* own ttl: one may be filled from the other, but content that was filled in is
\* not stored anew, so that no answer ever shows content older than both
\* together (an age below a ttl is at most ttl - 1 ticks).
ContentFresh ==
  \A h \in Handler, u \in Page :
    Answered(h) /\ HasContent(results[h][u])
      => now - results[h][u].at <= (DocTtl - 1) + (MaxTtl - 1)

\* "the per-query SERP cache never crosses a plain request with an enriched,
\* domain-restricted or date-restricted one" (search.rs:80): wherever an answer
\* comes from, its pages lie inside the domains asked for, a plain search is
\* given no content, and one that falls back on empty answers is given none.
AnswerFitsRequest ==
  \A h \in Handler : Answered(h) =>
    /\ \A u \in Page : results[h][u] # Nil => u \in Permitted(request[h])
    /\ request[h].wants = {} => \A u \in Page : ~HasContent(results[h][u])
    /\ request[h].fallback_on_empty => results[h] # NoResults

\* An answer of a provider marked no_cache is served from the cache by no
\* process but the one that registered the provider.
HitsCacheable ==
  \A h \in Handler :
    Answered(h) /\ hit[h] /\ winner[h] \in marked => winner[h] \in registered

\* An entry that has not expired goes away in three ways: the process ends, a
\* new answer replaces it, or a reader found an expired one before it was set
\* and removes it now.
LiveEntryLostToRace ==
  [][\A k \in Keys :
       LiveAnswer(k) /\ cache'[k] = Nil
         => \/ phase' = "down"
            \/ \E h \in Handler : pc[h] = "evicting" /\ CacheKey(request[h]) = k
                                  /\ cache[k].stored_at = now]_vars

\* "true (default) keeps the strict behaviour - the candidate pool is filtered
\* to providers that can actually deliver it" (search.rs:51): an answer to such
\* a request comes from a provider that supports what it wants.
StrictAnswerEnriched ==
  \A h \in Handler :
    Answered(h) /\ request[h].require_enrichment
      => request[h].wants \subseteq Supports[winner[h]]
=============================================================================
