---------------------------- MODULE SearchCascade ----------------------------
(***************************************************************************)
(* One search through Executor::search_inner and try_candidate in          *)
(* server/src/executor.rs: tiers, selection, pacing, calls, one retry, and *)
(* the verdict.  Everything else that runs, the other searches, the        *)
(* probes and the sliding windows, is an environment that makes keys       *)
(* unavailable and available again between any two steps.                  *)
(*                                                                         *)
(* The scores of the selector are not modelled: of the keys that pass its  *)
(* filters, any may be the best.  What a key's cooldown and budgets say is *)
(* one set: selection and the checks before a call ask for both.           *)
(*                                                                         *)
(* A search that fails leaves an audit row, which Executor::search writes  *)
(* from the attempt records before it returns.                             *)
(***************************************************************************)
EXTENDS Integers, FiniteSets

CONSTANTS
  Key, Provider,
  ProviderOf,        \* the provider of each key
  TierOf,            \* effective_priority, constant for a search without group
  Paced,             \* keys with a pacing_rate
  Ineligible,        \* inactive, or excluded by the request or by a profile
  Misconfigured,     \* no adapter, or a key_ref that does not resolve
  MaxFallbacks,      \* params.max_fallbacks
  FallbackOnEmpty,   \* params.fallback_on_empty
  Timeout,           \* params.timeout_ms, in ticks
  RetryBackoff       \* RETRY_BACKOFF, in ticks

None == "none"

ASSUME CascadeAssumption ==
  /\ IsFiniteSet(Key)
  /\ None \notin Key /\ None \notin Provider
  /\ ProviderOf \in [Key -> Provider] /\ TierOf \in [Key -> Int]
  /\ Paced \subseteq Key /\ Ineligible \subseteq Key
  /\ Misconfigured \subseteq Key
  /\ MaxFallbacks \in Nat /\ FallbackOnEmpty \in BOOLEAN
  /\ Timeout \in Nat \ {0} /\ RetryBackoff \in Nat

VARIABLES
  pool,          \* the candidates
  pc,
  tier,          \* the priority of tiers[tier_idx]
  key,           \* the candidate in hand
  excluded,      \* `excluded': keys this search is done with
  refused,       \* `refused_providers', and req.exclude_provider_slugs
  attempts,      \* `real_attempts'
  records,       \* attempt_records.len()
  failed,        \* the key of the last record that is no skip
  retried,       \* the call in hand is the second one
  left,          \* ticks until the deadline
  verdict,
  audit,         \* the providers named by its audit rows
  unavailable,   \* keys in cooldown, parked, or with a budget exhausted
  called,        \* history: provider calls made with each key
  blamed,        \* history: keys whose failure was reported
  barred         \* history: keys that were unavailable at some time

trail == <<failed, audit>>
request == <<pool, pc, tier, key, excluded, refused, attempts, records, trail,
             retried, verdict, called, blamed>>
vars == <<request, left, unavailable, barred>>

Late == left = 0

Tiers == {TierOf[k] : k \in pool}

\* The search goes on with the lowest of these tiers.
FirstOf(tiers) == tier' \in {t \in tiers : \A u \in tiers : t <= u}

\* The hard filters of Selector::select on the current tier.
Eligible(k) ==
  /\ k \in pool \ (excluded \union Ineligible \union unavailable)
  /\ TierOf[k] = tier
  /\ ProviderOf[k] \notin refused

\* The winner of Selector::select: the score weighs headroom, priority, coverage,
\* latency and traffic of those left, so that any of them may come first.
Winners == {k \in Key : Eligible(k)}

\* The skip decisions that explain a tier without a winner.  A provider that
\* refused the query has its refusal on record already.
Skipped == {k \in pool : TierOf[k] = tier /\ ProviderOf[k] \notin refused}

Init ==
  /\ pool \in SUBSET Key
  /\ pc = "start" /\ tier = 0 /\ key = None
  /\ excluded = {} /\ refused = {}
  /\ attempts = 0 /\ records = 0 /\ failed = None /\ retried = FALSE
  /\ left = Timeout
  /\ verdict = "none" /\ audit = {}
  /\ unavailable \in SUBSET Key
  /\ called = [k \in Key |-> 0] /\ blamed = {} /\ barred = unavailable
-----------------------------------------------------------------------------
(* The loop of search_inner *)

End(v) == pc' = "done" /\ verdict' = v

\* An error: search has yet to write the audit row.
EndWithError(v) == pc' = "audit" /\ verdict' = v

\* Mutant: an empty pool is left to the loop.
StartUnchecked ==
  /\ pc = "start"
  /\ IF pool = {} THEN UNCHANGED tier ELSE FirstOf(Tiers)
  /\ pc' = "select"
  /\ UNCHANGED <<trail, pool, key, excluded, refused, attempts, records,
                 retried, verdict, called, blamed, left, unavailable, barred>>

\* Mutant: the tiers are taken from the last.
StartLast ==
  /\ pc = "start" /\ pool # {}
  /\ tier' \in {t \in Tiers : \A u \in Tiers : t >= u}
  /\ pc' = "select"
  /\ UNCHANGED <<trail, pool, key, excluded, refused, attempts, records,
                 retried, verdict, called, blamed, left, unavailable, barred>>

\* The pool is filtered and sorted in tiers; nothing to try is a 503.  The query
\* is not blank: one that is has been turned down before a pool was read.
Start ==
  /\ pc = "start"
  /\ IF pool = {}
     THEN EndWithError("unavailable") /\ UNCHANGED tier
     ELSE /\ FirstOf(Tiers)
          /\ pc' = "select"
          /\ UNCHANGED verdict
  /\ UNCHANGED <<trail, pool, key, excluded, refused, attempts, records,
                 retried, called, blamed, left, unavailable, barred>>

\* After the loop: 422 when every candidate's provider refused the query.
Conclude ==
  EndWithError(IF \A k \in pool : ProviderOf[k] \in refused
               THEN "refused" ELSE "unavailable")

\* Mutant: the attempts allowed are counted from one.
AttemptsSpentLate == attempts > MaxFallbacks + 1

AttemptsSpent == attempts > MaxFallbacks

Stop ==
  /\ pc = "select" /\ (AttemptsSpent \/ Late)
  /\ Conclude
  /\ UNCHANGED <<trail, pool, tier, key, excluded, refused, attempts, records,
                 retried, called, blamed, left, unavailable, barred>>

Choosing == pc = "select" /\ ~AttemptsSpent /\ ~Late

\* The tier has nobody left: its candidates are put on record, and the next
\* tier is next.
AdvanceTier ==
  /\ Choosing /\ Winners = {}
  /\ records' = records + Cardinality(Skipped)
  /\ LET after == {t \in Tiers : t > tier} IN
     IF after = {}
     THEN Conclude /\ UNCHANGED tier
     ELSE /\ FirstOf(after)
          /\ UNCHANGED <<pc, verdict>>
  /\ UNCHANGED <<trail, pool, key, excluded, refused, attempts, retried, called,
                 blamed, left, unavailable, barred>>

SetAside(k) == excluded' = excluded \union {k}

\* Try the best key; a paced one waits for the slot it reserved.
Select(k) ==
  /\ Choosing /\ k \in Winners
  /\ key' = k /\ retried' = FALSE
  /\ IF k \in Paced
     THEN pc' = "wait" /\ UNCHANGED attempts
     ELSE pc' = "try" /\ attempts' = attempts + 1
  /\ UNCHANGED <<trail, pool, tier, excluded, refused, records, verdict, called,
                 blamed, left, unavailable, barred>>

\* Mutant: a full queue counts as a failure of the key.
OverflowBlamed(k) ==
  /\ Choosing /\ k \in Winners /\ k \in Paced
  /\ SetAside(k)
  /\ records' = records + 1 /\ blamed' = blamed \union {k}
  /\ UNCHANGED <<trail, pool, pc, tier, key, refused, attempts, retried,
                 verdict, called, left, unavailable, barred>>

\* The pacer refuses a slot: on record, but no attempt.
Overflow(k) ==
  /\ Choosing /\ k \in Winners /\ k \in Paced
  /\ SetAside(k)
  /\ records' = records + 1
  /\ UNCHANGED <<trail, pool, pc, tier, key, refused, attempts, retried,
                 verdict, called, blamed, left, unavailable, barred>>

\* Mutant: a call that had to wait is not counted.
WakeUncounted ==
  /\ pc = "wait"
  /\ IF key \in unavailable
     THEN SetAside(key) /\ pc' = "select"
     ELSE pc' = "try" /\ UNCHANGED excluded
  /\ UNCHANGED <<trail, pool, tier, key, refused, attempts, records, retried,
                 verdict, called, blamed, left, unavailable, barred>>

\* The slot is due.  A key that became unavailable meanwhile is put aside
\* without a word.
Wake ==
  /\ pc = "wait"
  /\ IF key \in unavailable
     THEN SetAside(key) /\ pc' = "select" /\ UNCHANGED attempts
     ELSE attempts' = attempts + 1 /\ pc' = "try" /\ UNCHANGED excluded
  /\ UNCHANGED <<trail, pool, tier, key, refused, records, retried, verdict,
                 called, blamed, left, unavailable, barred>>
-----------------------------------------------------------------------------
(* try_candidate, and what the loop makes of its result *)

\* The failure of a candidate is reported (report_error may park the key; an
\* empty answer counts as a success of the key), recorded, and the key put aside.
Fail(t) ==
  /\ IF t = "empty" THEN UNCHANGED <<blamed, unavailable, barred>>
     ELSE /\ blamed' = blamed \union {key}
          /\ unavailable' \in {unavailable, unavailable \union {key}}
          /\ barred' = barred \union unavailable'
  /\ SetAside(key)
  /\ records' = records + 1 /\ failed' = key
  /\ pc' = "select"
  /\ UNCHANGED <<audit, pool, tier, key, refused, attempts, retried, verdict,
                 called, left>>

\* The provider cannot take this query: it is skipped with all its keys, no
\* attempt is charged, no key is blamed.
Refuse ==
  /\ attempts' = attempts - 1
  /\ refused' = refused \union {ProviderOf[key]}
  /\ records' = records + 1
  /\ pc' = "select"
  /\ UNCHANGED <<trail, pool, tier, key, excluded, retried, verdict, called,
                 blamed, left, unavailable, barred>>

\* Neither adapter nor credential: the first try fails before any call.
FailMisconfigured ==
  /\ pc = "try" /\ ~retried /\ key \in Misconfigured
  /\ Fail("error")

\* The adapter's validate_search knows that the query will not do.
RefuseLocally ==
  /\ pc = "try" /\ ~retried /\ key \notin Misconfigured
  /\ Refuse

\* The last checks before a call.
Callable == ~Late /\ (key \in Paced => key \notin unavailable)

\* No time left, or a paced key became unavailable: the last error stands,
\* which is a timeout if there was no call yet.
FailUncalled ==
  /\ pc = "try" /\ (retried \/ key \notin Misconfigured)
  /\ ~Callable
  /\ Fail("error")

Call ==
  /\ pc = "try" /\ (retried \/ key \notin Misconfigured)
  /\ Callable
  /\ called' = [called EXCEPT ![key] = @ + 1]
  /\ pc' = "calling"
  /\ UNCHANGED <<trail, pool, tier, key, excluded, refused, attempts, records,
                 retried, verdict, blamed, left, unavailable, barred>>

Answer ==
  /\ pc = "calling"
  /\ End("ok")
  /\ records' = records + 1
  /\ UNCHANGED <<trail, pool, tier, key, excluded, refused, attempts, retried,
                 called, blamed, left, unavailable, barred>>

\* An empty answer, or one without a result in the requested domains.
AnswerEmpty == pc = "calling" /\ FallbackOnEmpty /\ Fail("empty")

RefuseRemotely == pc = "calling" /\ Refuse

\* A failure a retry cannot cure, or the second one.
CallFails == pc = "calling" /\ Fail("error")

\* A timeout, a network error or a 5xx of the first call, with time for the
\* backoff: the same key gets a second call.
CallFailsFirst ==
  /\ pc = "calling" /\ ~retried /\ left > RetryBackoff
  /\ pc' = "backoff"
  /\ UNCHANGED <<trail, pool, tier, key, excluded, refused, attempts, records,
                 retried, verdict, called, blamed, left, unavailable, barred>>

\* Mutant: a retry that comes too late is not given up.
RetryInTime ==
  /\ pc = "backoff" /\ ~Late
  /\ retried' = TRUE
  /\ pc' = "try"
  /\ UNCHANGED <<trail, pool, tier, key, excluded, refused, attempts, records,
                 verdict, called, blamed, left, unavailable, barred>>

\* After the backoff, and for a paced key after another slot.
Retry ==
  /\ pc = "backoff"
  /\ retried' = TRUE
  /\ pc' = "try"
  /\ UNCHANGED <<trail, pool, tier, key, excluded, refused, attempts, records,
                 verdict, called, blamed, left, unavailable, barred>>

OverflowRetry == pc = "backoff" /\ key \in Paced /\ Fail("error")

\* Mutant: the row names the last candidate, whatever became of it.
AuditRowOfLast == IF key = None THEN None ELSE ProviderOf[key]

\* The row names the provider of the last candidate that failed, if one was tried.
AuditRow == IF failed = None THEN None ELSE ProviderOf[failed]

\* log_search; a row that cannot be written is only warned about.
Log ==
  /\ pc = "audit"
  /\ audit' \in {audit, audit \union {AuditRow}}
  /\ pc' = "done"
  /\ UNCHANGED <<failed, pool, tier, key, excluded, refused, attempts, records,
                 retried, verdict, called, blamed, left, unavailable, barred>>

\* The client hangs up: the future is dropped where it awaits.
Cancel ==
  /\ pc \in {"wait", "calling", "backoff"}
  /\ End("cancelled")
  /\ UNCHANGED <<trail, pool, tier, key, excluded, refused, attempts, records,
                 retried, called, blamed, left, unavailable, barred>>
-----------------------------------------------------------------------------
(* Everything else *)

\* Other searches and probes park keys and use their budgets up, time and
\* probes release them.
Others ==
  /\ \E k \in Key :
       unavailable' \in {unavailable \union {k}, unavailable \ {k}}
  /\ barred' = barred \union unavailable'
  /\ UNCHANGED <<request, left>>

Tick ==
  /\ left > 0
  /\ left' = left - 1
  /\ UNCHANGED <<request, unavailable, barred>>

Step ==
  \/ Start \/ Stop \/ AdvanceTier
  \/ \E k \in Key : Select(k) \/ Overflow(k)
  \/ Wake
  \/ FailMisconfigured \/ RefuseLocally \/ FailUncalled
  \/ Call \/ Answer \/ AnswerEmpty \/ RefuseRemotely \/ CallFails
  \/ CallFailsFirst \/ Retry \/ OverflowRetry
  \/ Log

Next == Step \/ Cancel \/ Others \/ Tick

Spec == Init /\ [][Next]_vars

\* tokio runs a task whose future is ready, and every await of the search is
\* bounded by a timer: a slot, the backoff, the timeout of a call.
FairSpec == Spec /\ WF_vars(Step) /\ WF_vars(Tick)
-----------------------------------------------------------------------------
(* Properties *)

Pc == {"start", "select", "wait", "try", "calling", "backoff", "audit", "done"}

TypeOK ==
  /\ pool \in SUBSET Key /\ pc \in Pc /\ tier \in Int
  /\ key \in Key \union {None}
  /\ excluded \in SUBSET Key /\ refused \in SUBSET Provider
  /\ attempts \in Nat /\ records \in Nat /\ retried \in BOOLEAN
  /\ left \in Nat
  /\ failed \in Key \union {None} /\ audit \in SUBSET (Provider \union {None})
  /\ verdict \in {"none", "ok", "refused", "unavailable", "cancelled"}
  /\ unavailable \in SUBSET Key
  /\ called \in [Key -> Nat]
  /\ blamed \in SUBSET Key /\ barred \in SUBSET Key

\* Its loop has come to an end.
Over == pc \in {"audit", "done"}

Called == {k \in Key : called[k] > 0}

\* Keys whose call cost the search one of its attempts.
Charged == {k \in Key : called[k] > 0 /\ ProviderOf[k] \notin refused}

\* MAX_FALLBACKS counts fallbacks: the search calls at most one key more, not
\* counting the keys of providers that turned the query down, and whatever
\* was skipped on the way (executor.rs:309-312).
FallbacksBounded == Cardinality(Charged) <= MaxFallbacks + 1

\* The keys called are the tries of Fallback, a retry being none: no more than
\* "maximum provider fallback attempts per request" (README) are charged, no tier
\* is gone back to, no key tried anew, and only a refusal "without spending the
\* fallback budget" (executor.rs:492) gives a try back.
Rule == INSTANCE Fallback WITH
          MaxTries <- MaxFallbacks + 1,
          tried    <- Called,
          charged  <- Charged,
          over     <- Over

ImplementsFallback == Rule!Spec

\* A key the search is done with is not called again: two calls at most, the
\* second one the "one short-backoff retry against the same candidate"
\* (executor.rs:659-660).
NoKeyComesBack ==
  [][\A k \in Key : called'[k] > called[k] =>
       k = key /\ called[k] = IF retried THEN 1 ELSE 0]_vars

\* "All candidates in priority tier N are exhausted before tier N+1 is tried"
\* (executor.rs:279-280): when a key is called, each eligible key of an earlier
\* tier has been called, or misconfigured, or set aside because it was
\* unavailable or its queue was full, or its provider refused the query.
TiersInOrder ==
  \A k \in Key, j \in pool \ (Ineligible \union Misconfigured \union Paced) :
    called[k] > 0 /\ TierOf[j] < TierOf[k] =>
      called[j] > 0 \/ j \in barred \/ ProviderOf[j] \in refused

\* A refused query does not cool down the key (README): once its provider
\* turned the query down, no key of it is called or reported.
RefusalHeldAgainstNoKey ==
  [][\A k \in Key : ProviderOf[k] \in refused' =>
       called'[k] = called[k] /\ (k \in blamed' => k \in blamed)]_vars

\* "If every candidate provider refuses, the caller receives HTTP 422"
\* (README), and only then: each of them was asked and turned the query down.
RefusalIsUnanimous ==
  verdict \in {"refused", "unavailable"} =>
    (verdict = "refused" <=> pool # {} /\ \A k \in pool : ProviderOf[k] \in refused)

\* A failure is reported for a key that was called, or that cannot be called
\* as it is configured, or else that the search was too late for: a full queue,
\* a refused query or a cooldown seen while waiting is no failure of the key.
NoBlameWithoutCause ==
  \A k \in blamed : called[k] > 0 \/ k \in Misconfigured \/ k \in barred \/ Late

\* `attempt_records.len() - real_attempts' (executor.rs:566) is unsigned.
SkippedNotNegative == verdict \in {"refused", "unavailable"} => attempts <= records

\* The audit row of a failed search is made of "the last attempt that was not
\* skipped" (executor.rs:195-203): it names a provider exactly when some candidate
\* was tried, and one of whose keys was tried and set aside, however many were
\* skipped or turned the query down after it; a search that succeeds leaves none.
AuditNamesFailure ==
  /\ audit # {} => verdict \notin {"none", "ok"}
  /\ \A p \in audit :
       IF p = None THEN attempts = 0 /\ blamed = {}
       ELSE /\ attempts > 0
            /\ \E k \in excluded :
                 ProviderOf[k] = p /\ (called[k] > 0 \/ k \in blamed)

\* Every search ends, whatever the others do to the keys meanwhile.
SearchEnds == <>(pc = "done")
=============================================================================
