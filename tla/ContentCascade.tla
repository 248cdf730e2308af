---------------------------- MODULE ContentCascade ----------------------------
(***************************************************************************)
(* One POST /contents through ContentExecutor::fetch in                    *)
(* server/src/content_executor.rs: the URLs not yet resolved go to one key *)
(* after the other, in chunks of what its provider takes, until none is    *)
(* left or no key is.                                                      *)
(*                                                                         *)
(* The keys' cooldowns and budgets are one set that the rest of the system *)
(* changes between any two steps, and of the keys that pass the filters of *)
(* the selector any may be the best.  Which URLs make up a chunk is left   *)
(* open; their order in the request has no other effect.                   *)
(***************************************************************************)
EXTENDS Integers, FiniteSets

CONSTANTS
  Key, Url,
  Elsewhere,       \* a page under an address that was not asked for
  TierOf,          \* effective_priority of each key
  MaxBatch,        \* max_batch of each key's provider
  Misconfigured,   \* keys whose key_ref does not resolve
  MaxFallbacks     \* params.max_fallbacks

None == "none"

ASSUME ContentAssumption ==
  /\ IsFiniteSet(Key) /\ IsFiniteSet(Url)
  /\ None \notin Key /\ Elsewhere \notin Url
  /\ TierOf \in [Key -> Int]
  /\ MaxBatch \in [Key -> Nat \ {0}]
  /\ Misconfigured \subseteq Key
  /\ MaxFallbacks \in Nat

VARIABLES
  urls,          \* params.urls
  pool,          \* the candidates
  pc,
  tier,          \* the priority of tiers[tier_idx]
  key,           \* the candidate in hand
  excluded,      \* `excluded': keys this request is done with
  attempts,      \* `real_attempts'
  unresolved,    \* `unresolved'
  batch,         \* the URLs of the batch that no answer came for yet
  chunk,         \* those of the call in progress
  source,        \* `resolved': the key each page came from
  reason,        \* `last_reason': the key each failure came from
  gotAny,        \* `got_any'
  unavailable,   \* keys in cooldown, parked, or with a budget exhausted
  offered,       \* history: how often each key was sent each URL
  praised,       \* history: keys reported successful
  blamed,        \* history: keys reported failing
  barred         \* history: keys that were unavailable at some time

outcome == <<offered, praised, blamed>>
vars == <<urls, pool, pc, tier, key, excluded, attempts, unresolved, batch, chunk,
          source, reason, gotAny, unavailable, barred, outcome>>

Resolved == {u \in Url : source[u] # None}

Tiers == {TierOf[k] : k \in pool}

\* The request goes on with the lowest of these tiers.
FirstOf(tiers) == tier' \in {t \in tiers : \A u \in tiers : t <= u}

\* The hard filters of Selector::select on the current tier.
Eligible(k) == k \in pool \ (excluded \union unavailable) /\ TierOf[k] = tier

Init ==
  /\ urls \in SUBSET Url
  /\ pool \in SUBSET Key
  /\ pc = "start" /\ tier = 0 /\ key = None
  /\ excluded = {} /\ attempts = 0
  /\ unresolved = urls
  /\ batch = {} /\ chunk = {}
  /\ source = [u \in Url |-> None] /\ reason = [u \in Url |-> None]
  /\ gotAny = FALSE
  /\ unavailable \in SUBSET Key
  /\ offered = [k \in Key |-> [u \in Url |-> 0]]
  /\ praised = {} /\ blamed = {} /\ barred = unavailable
-----------------------------------------------------------------------------
(* The loop over the keys *)

\* No URL is left to the pool when the cache had them all; no candidate is a 503.
Start ==
  /\ pc = "start"
  /\ IF urls = {} \/ pool = {}
     THEN pc' = "done" /\ UNCHANGED tier
     ELSE pc' = "select" /\ FirstOf(Tiers)
  /\ UNCHANGED <<urls, pool, key, excluded, attempts, unresolved, batch, chunk,
                 source, reason, gotAny, unavailable, barred, outcome>>

Enough == unresolved = {} \/ attempts > MaxFallbacks

Stop ==
  /\ pc = "select" /\ Enough
  /\ pc' = "done"
  /\ UNCHANGED <<urls, pool, tier, key, excluded, attempts, unresolved, batch, chunk,
                 source, reason, gotAny, unavailable, barred, outcome>>

Choosing == pc = "select" /\ ~Enough

\* Mutant: a tier that has nobody left is asked again.
AdvanceTierNever ==
  /\ Choosing /\ ~\E k \in Key : Eligible(k)
  /\ UNCHANGED vars

AdvanceTier ==
  /\ Choosing /\ ~\E k \in Key : Eligible(k)
  /\ LET after == {t \in Tiers : t > tier} IN
     IF after = {}
     THEN pc' = "done" /\ UNCHANGED tier
     ELSE FirstOf(after) /\ UNCHANGED pc
  /\ UNCHANGED <<urls, pool, key, excluded, attempts, unresolved, batch, chunk,
                 source, reason, gotAny, unavailable, barred, outcome>>

\* The best key takes all URLs left, unless its credential does not resolve.
Select(k) ==
  /\ Choosing /\ Eligible(k)
  /\ attempts' = attempts + 1
  /\ key' = k /\ excluded' = excluded \union {k}
  /\ IF k \in Misconfigured
     THEN UNCHANGED <<pc, batch, unresolved, gotAny>>
     ELSE /\ pc' = "send"
          /\ batch' = unresolved /\ unresolved' = {}
          /\ gotAny' = FALSE
  /\ UNCHANGED <<urls, pool, tier, chunk, source, reason, unavailable, barred,
                 outcome>>
-----------------------------------------------------------------------------
(* The loop over the chunks *)

\* Mutant: the chunks are cut from all that was requested.
IsChunkOfRequest(c) ==
  /\ c \subseteq urls /\ c # {}
  /\ Cardinality(c) <= MaxBatch[key]

\* chunks(max_batch): full chunks, and what is left.
IsChunk(c) ==
  /\ c \subseteq batch /\ c # {}
  /\ c = batch \/ Cardinality(c) = MaxBatch[key]
  /\ Cardinality(c) <= MaxBatch[key]

Send(c) ==
  /\ pc = "send" /\ IsChunk(c)
  /\ chunk' = c
  /\ offered' = [offered EXCEPT ![key] =
                   [u \in Url |-> @[u] + IF u \in c THEN 1 ELSE 0]]
  /\ pc' = "calling"
  /\ UNCHANGED <<urls, pool, tier, key, excluded, attempts, unresolved, batch,
                 source, reason, gotAny, unavailable, barred, praised, blamed>>

\* Mutant: the pages another chunk brought are not taken out.
RemainingAll(missing, src) == missing

\* What goes on to the next key: each URL once, none of those resolved.
Remaining(missing, src) == {u \in missing : src[u] = None}

\* report_success after the last chunk, when some page came.
Praise(got, left) ==
  praised' = IF got /\ left = {} THEN praised \union {key} ELSE praised

\* Mutant: pages that are missing without a word are not asked for again.
MissingReported(docs) == {}

\* Adapters report as failed what they were asked for and got no page of.
Missing(docs) == chunk \ docs

\* You.com and Parallel answer a chunk with what pages they have, under the
\* addresses they give them.
AnyPages == SUBSET (urls \union {Elsewhere})

\* DeepSeek takes one URL a call.  A page it refuses to fetch (403, 404) or finds
\* empty is a miss of that URL, and no failure of the key.
OnePage == {{}, chunk}

Returned == IF MaxBatch[key] = 1 THEN OnePage ELSE AnyPages

\* The pages in hand after an answer.
Pages(docs) == [u \in Url |-> IF u \in docs THEN key ELSE source[u]]

\* A 2xx answer with these pages.  After the last chunk the key is done.
Answer(docs) ==
  LET got    == gotAny \/ docs # {}
      left   == batch \ chunk
      misses == unresolved \union Missing(docs)
  IN  /\ pc = "calling"
      /\ source' = Pages(docs)
      /\ reason' = [u \in Url |-> IF u \in Missing(docs) THEN key ELSE reason[u]]
      /\ gotAny' = got
      /\ batch' = left /\ chunk' = {}
      /\ IF left = {}
         THEN unresolved' = Remaining(misses, Pages(docs)) /\ pc' = "select"
         ELSE unresolved' = misses /\ pc' = "send"
      /\ Praise(got, left)
      /\ UNCHANGED <<urls, pool, tier, key, excluded, attempts, unavailable, barred,
                     offered, blamed>>

\* Mutant: the URLs never sent keep the reason they had.
FailReasonOfChunk ==
  /\ pc = "calling"
  /\ reason' = [u \in Url |-> IF u \in chunk THEN key ELSE reason[u]]
  /\ batch' = {} /\ chunk' = {}
  /\ unresolved' = Remaining(unresolved \union batch, source)
  /\ pc' = "select"
  /\ blamed' = blamed \union {key}
  /\ unavailable' \in {unavailable, unavailable \union {key}}
  /\ barred' = barred \union unavailable'
  /\ UNCHANGED <<urls, pool, tier, key, excluded, attempts, source, gotAny, offered,
                 praised>>

\* An error, or no answer within timeout_ms.  It stands for the chunks not sent
\* too, and is reported to the key, which report_error may park.
Fail ==
  /\ pc = "calling"
  /\ reason' = [u \in Url |-> IF u \in batch THEN key ELSE reason[u]]
  /\ batch' = {} /\ chunk' = {}
  /\ unresolved' = Remaining(unresolved \union batch, source)
  /\ pc' = "select"
  /\ blamed' = blamed \union {key}
  /\ unavailable' \in {unavailable, unavailable \union {key}}
  /\ barred' = barred \union unavailable'
  /\ UNCHANGED <<urls, pool, tier, key, excluded, attempts, source, gotAny, offered,
                 praised>>

\* assemble_docs: one document per URL of the request, its page or the last
\* failure.  Either is told by the key it came from.
Documents ==
  [u \in urls |-> [page |-> u \in Resolved,
                   from |-> IF u \in Resolved THEN source[u] ELSE reason[u]]]

\* The client hangs up: the future is dropped where it awaits.
Cancel ==
  /\ pc = "calling"
  /\ pc' = "cancelled"
  /\ UNCHANGED <<urls, pool, tier, key, excluded, attempts, unresolved, batch, chunk,
                 source, reason, gotAny, unavailable, barred, outcome>>

\* Other requests and probes park keys, time and probes release them.
Others ==
  /\ \E k \in Key :
       unavailable' \in {unavailable \union {k}, unavailable \ {k}}
  /\ barred' = barred \union unavailable'
  /\ UNCHANGED <<urls, pool, pc, tier, key, excluded, attempts, unresolved, batch,
                 chunk, source, reason, gotAny, outcome>>

Step ==
  \/ Start \/ Stop \/ AdvanceTier
  \/ \E k \in Key : Select(k)
  \/ \E c \in SUBSET Url : Send(c)
  \/ pc = "calling" /\ \E docs \in Returned : Answer(docs)
  \/ Fail

Next == Step \/ Cancel \/ Others

\* tokio runs a task whose future is ready, and the only await of the request,
\* a call, is bounded by timeout_ms.
Spec == Init /\ [][Next]_vars /\ WF_vars(Step)
-----------------------------------------------------------------------------
(* Properties *)

TypeOK ==
  /\ urls \in SUBSET Url /\ pool \in SUBSET Key
  /\ pc \in {"start", "select", "send", "calling", "done", "cancelled"}
  /\ tier \in Int /\ key \in Key \union {None}
  /\ excluded \in SUBSET Key /\ attempts \in Nat
  /\ unresolved \in SUBSET Url /\ batch \in SUBSET Url /\ chunk \in SUBSET batch
  /\ source \in [Url -> Key \union {None}] /\ reason \in [Url -> Key \union {None}]
  /\ gotAny \in BOOLEAN
  /\ unavailable \in SUBSET Key /\ barred \in SUBSET Key
  /\ offered \in [Key -> [Url -> Nat]]
  /\ praised \in SUBSET Key /\ blamed \in SUBSET Key

\* "per-URL fallback" (README): whatever chunks fail and whatever pages an
\* answer leaves out, between two keys each URL is resolved or goes on.
NoUrlForgotten ==
  pc \in {"select", "done"} => urls = unresolved \union (Resolved \intersect urls)

\* A URL is sent to a key only if no other key has resolved it, and to no key twice.
NoUrlPaidTwice ==
  [][\A k \in Key, u \in Url :
       offered'[k][u] > offered[k][u] => offered[k][u] = 0 /\ source[u] \in {None, k}]_vars

\* A page in hand is not lost to the failures that follow.
PagesKept == [][\A u \in Url : source[u] # None => source'[u] # None]_vars

Tried == {k \in Key : \E u \in Url : offered[k][u] > 0}

\* Its loop has come to an end.
Over == pc \in {"done", "cancelled"}

\* MAX_FALLBACKS counts fallbacks: one key more is tried at most.
FallbacksBounded == Cardinality(Tried) <= MaxFallbacks + 1

\* "same rule as the search executor" (content_executor.rs:116): the keys sent
\* anything are the tries of Fallback, however many chunks each of them takes.
Rule == INSTANCE Fallback WITH
          MaxTries <- MaxFallbacks + 1,
          tried    <- Tried,
          charged  <- Tried,
          over     <- Over

ImplementsFallback == Rule!Spec

\* Every document has an owner: a page comes from a key that was reported,
\* successful or failing, so that no key delivers without a trace, and an error
\* document names the last key that was tried, whose batch its URL was in.
DocumentsExplained ==
  pc \in {"select", "done"} =>
    \A u \in urls :
      IF Documents[u].page
      THEN Documents[u].from \in praised \union blamed
      ELSE /\ Tried # {} => Documents[u].from \in Tried
           /\ key \in Tried => Documents[u].from = key

\* A key is not reported successful and failing by one request, and not at all
\* before it was called.
OneVerdictPerKey == praised \intersect blamed = {} /\ praised \union blamed \subseteq Tried

\* "same rule as the search executor": a key is called after each key of an
\* earlier tier was, unless that one is misconfigured or was unavailable.
TiersInOrder ==
  \A k \in Tried, j \in pool \ Misconfigured :
    TierOf[j] < TierOf[k] => j \in Tried \/ j \in barred

\* Every request ends, whatever the others do to the keys meanwhile.
FetchEnds == <>(pc \in {"done", "cancelled"})
=============================================================================
