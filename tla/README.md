# ProvizSercilo: TLA+ models, model checks and proofs

This directory is the verification project of ProvizSercilo, the HTTP search
router in `src/`: it takes a search, picks an API key of a search provider,
calls it, and falls back to the next one. The models are translated from the
Rust and Python source; the line ranges each definition stands for are in
`PROJECT.json` under `map`.

## 1. The system

| Component | Source | State | Operations |
|---|---|---|---|
| Key health (`RateLimitState`) | `crates/core/src/rate_limit.rs` | per key, in three separately locked maps: a cooldown entry (deadline, reason, gate, probe mark, generations, counters), a run of transient failures, the auth history | `report_error`, `report_success`, `begin_probe`, `finish_probe`, `due_probes`, `is_limited` |
| Usage budgets (`UsageTracker`) | `crates/core/src/rate_limit.rs` | per key: sliding windows of reservations, calls in flight | `reserve`, `complete`, `*_headroom`, `budget_exhausted`, `sync_rpm` |
| Pacing (`Pacer`) | `server/src/pacing.rs` | per paced key: the next free slot, queue depth, overflow count | `reserve`, `Slot::wait`, `Slot` drop |
| Selection (`Selector`) | `crates/core/src/selector.rs`, `language_profile.rs`, `models.rs` | none | hard filters, scores |
| Search cascade (`Executor`) | `server/src/executor.rs` | per request: tier, excluded keys, refused providers, attempts, deadline | `search`, `try_candidate`, `probe_key` |
| Content cascade (`ContentExecutor`) | `server/src/content_executor.rs`, `handlers/contents.rs` | per request: unresolved URLs, documents, excluded keys | `fetch`, `assemble_docs` |
| Probes (`ProbeRunner`) | `server/src/probes.rs` | permits | `run`, `run_due`, the worker's loop |
| Catalog (`CatalogStore`) and admin API | `server/src/catalog.rs`, `handlers/admin.rs` | an in-memory mirror of four tables | `reload`, `candidates`, the admin writes |
| Storage | `crates/storage-sqlite`, `crates/storage-postgres`, `crates/core/src/storage.rs` | the tables | CRUD, logs, retention |
| Start-up | `server/src/main.rs`, `app.rs`, `seed.rs`, `config.rs` | the set of uncacheable providers | build, seed, reload |
| Caches | `crates/cache/src/lib.rs`, `handlers/search.rs` | two maps with expiry, which nothing bounds | get, insert, evict |
| Reports and health | `server/src/handlers/{report,health,stats}.rs`, `server/src/stats.rs` | counters | `/report`, `/health`, `/stats` |
| Provider adapters | `crates/providers/src/*` | none, except DeepSeek's gate (time of the last call) | search, fetch, error classification |
| ddgs bridge | `bridges/ddgs-bridge/{main,resilience}.py` | per egress: a breaker and a spacing scheduler | breaker, scheduler, search |

How they meet. A handler looks in the cache, asks the `Executor`, which reads
the `CatalogStore`, asks the `Selector` (which reads `RateLimitState` and
`UsageTracker`), takes a slot from the `Pacer`, waits, checks the key again,
records the reservation, calls the provider, and reports the outcome to
`RateLimitState`. `ProbeRunner` takes claims on parked keys and calls the
`Executor` with the probe query. The admin API writes the storage and then
reloads the catalog. All of it runs on tokio's threads, so any two requests, the
probe worker and the admin API interleave at every `await` and between any two
locks. Nothing but the storage survives a restart.

What makes each part correct, and hard:

- *Key health*: a key that needs a probe is opened by a probe that worked and
  was not overtaken by a new failure, and by nothing else; probes of a key
  exclude each other; late failures never weaken a parking; a gated key is
  eventually probed.
- *Budgets*: what is counted is what was sent; the daily limit is not exceeded.
- *Pacing*: slots of a key are an interval apart, whoever takes them; a rejected
  request moves nothing; probe-like traffic cannot push user traffic out.
- *Cascades*: a key is tried at most once, tiers in order, attempts bounded,
  nothing started after the deadline; a query refused by a provider is not held
  against its keys; a URL ends up resolved or unresolved, never both.
- *Catalog*: a reload shows the tables as they are since it began; a request for a
  group is served by that group.
- *Probes*: a permit is given back whatever becomes of a probe; a due key that is
  active gets its probe, whatever other keys do.
- *Caches and start-up*: a request is given pages inside the domains it asked for,
  content only if it asked for it, and none older than the two caches allow; an
  answer of an uncacheable provider is not cached; a seed that was interrupted is
  finished by the next start.
- *Bridge*: one half-open probe at a time; a closed breaker was closed by it.

Hard to test, and modelled where a module is named in `PROJECT.json` under
`hazards`: two actors between two locks of the key health; budgets looked at
before they are used; slots reserved with stale times and abandoned; keys that
come and go while a cascade walks its tiers; refused, failed and skipped keys in
one verdict; chunks of a batch that fail half way; leases of breakers that are
finished by somebody else; reloads that overlap; probes that are refused,
overtaken, deactivated or dropped with a permit in hand; answers filled from the
other cache; expired entries removed after they were replaced; a server that dies
between two inserts of its seed.

## 2. Plan

The modules, in the order of their weight for the router:

| Module | Component | Composed with |
|---|---|---|
| `KeyGate` | what key health promises, abstractly | |
| `KeyHealth` | `RateLimitState` of one key, and its probes | implements `KeyGate` |
| `Pacer` | the reservation clock of one key | |
| `Fallback` | the rule both executors follow, abstractly | |
| `SearchCascade` | `Executor` | implements `Fallback`; keys are an environment |
| `UsageBudget` | `UsageTracker` of one key, and who uses it | |
| `ContentCascade` | `ContentExecutor` | implements `Fallback`; keys are an environment |
| `EgressBreaker` | the bridge's breakers and searches | |
| `Catalog` | the tables, their mirror, the admin API | |
| `ProbeRunner` | the worker, the permits, probes by hand, many keys | each of its keys implements `KeyGate` |
| `Startup` | `main`, `app`, the seed, processes that die | |
| `Serving` | the two caches and both handlers | extends `Startup` |

What is left, for who goes on:

1. The composition of `SearchCascade` and `ContentCascade` with `KeyGate` and
   `UsageBudget` in place of the environment, to show that the environment they
   assume is what these modules do.
2. The weights of `Selector` and `language_profile`, as functions checked over
   bounded inputs.
3. DeepSeek's gate, if its waiting time is ever charged to somebody but the caller.

## 3. What is modelled, and how it corresponds to the code

Every module says in its header what it stands for; `PROJECT.json` gives the
lines of each definition. A `\* Mutant:` comment marks an operator that stands
before the definition it would replace; it is a plausible bug, and no action
uses it.

### KeyHealth and KeyGate

`cooldown`, `run` and `history` are the entries of one key in the maps
`cooldowns`, `transient` and `auth_history`; `caller` and `probe` are program
counters of the requests that report and of the probes. An action is what the
code does under one lock: `ReportError` is the whole of `report_error` for the
errors that visit only the cooldown map; a transient error is `ReportTransient`
and then, if it was one too many, `StrikePending`; a success is `NoteSuccess`,
`ForgetRun`, `ForgetEpisodes`. `finish_probe` is `FinishFailed`, `FinishStale` or
`FinishWorked`; the last one is followed by `RemoveEntry` and `ClearRun`, because
the code drops the entry before `remove_if`. A probe that is
cancelled is a `FinishFailed` too: the claim's `Drop` reports a timeout. Deadlines are ticks left, as the code only ever
compares instants with now.

`KeyGate` has two variables: whether the key is open, cooling or parked, and
whether a claim on it is live or overtaken. `KeyHealth` maps `requires_probe` and
`left` to the first and the claims with their generations to the second.

### Pacer

`next` is `KeyQueue.next`, `depth` the unsigned `queue_depth`. `Arrive` reads the
time, `Reserve` and `Refuse` are what `reserve` does under the key's mutex,
`Serve` and `Cancel` end with `Slot::drop`. A request brings the setting of the
key that it has seen, so that requests from before and after an edit meet.

### SearchCascade, ContentCascade and Fallback

`Fallback` is what the two executors have in common (`content_executor.rs:116`:
"same rule as the search executor"): a request tries keys, each once, no tier
after a later one, while what it is charged for leaves room; refusals may give
tries back. `SearchCascade` maps the keys called to `tried` and those whose
provider did not refuse to `charged`; `ContentCascade` maps the keys that were
sent a chunk to both.

### SearchCascade

One request through `search`, `search_inner` and `try_candidate`. `Start` builds the tiers,
`Select` and `AdvanceTier` are the selection, `Overflow` and `Wake` the two ends
of a reservation, `Call`, `Answer*`, `CallFails*`, `Retry` and the `Refuse*`
actions the call with its retry, `Fail` and `Conclude` the bookkeeping and the
verdict, `Winners` and `Skipped` what the selector returns. `failed` is the key of
the last attempt record that is no skip; from it `Log` writes the audit row of a
search that failed (`AuditRow`), which may itself fail. `Others` makes keys unavailable or available between any two steps:
cooldowns, probes, budgets. `Tick` lets the deadline come.

### UsageBudget

`events` counts the window of each object that `get_or_create` has made, `entry`
is the one in the map. A user finds or inserts the object, checks its headroom,
records a call, returns, and may call again without a look, which is what a retry
of a key without pacing and the next chunk of a content request do.

### ContentCascade

`unresolved`, `source` and `reason` are the collections of `fetch`. `Send` takes a
chunk, `Fail` ends the batch with a reason, `Praise` is the one report of success.
`Answer` resolves what the adapter returned: one page or none for DeepSeek
(`OnePage`), any pages for you.com (`AnyPages`), the ones of the chunk among them
or not. `Documents` is the reply that `assemble_docs` makes of both collections.

### EgressBreaker

The breakers of engines and proxies are shared, everything else is local to the
thread of a search. `AcquireEngine`, `SkipEngine`, `TakeRoute`, `Return`,
`GiveUp`, `FinishEngine` follow `_run_backend`; `FinishProxy`, `FailBreaker`,
`Succeed` and `GiveBack` are what it calls in `resilience.py`.

### Catalog

`db` is the four tables, `mirror` is `CatalogStore.inner`. A write and the reload
after it are `Commit` with `BeginReload`, one `ReadTable` for each of the four
queries, in any order, and `Install`. The member operations look the group up in
the mirror in a step of its own. A group gets a new id each time it is created.
`writes`, `absent` and `joined` are history: the version of the tables, and the
last version at which a group did not exist or a key was in it.

The writes are built from the statements of the storage (`InsertProvider`,
`UpdateKey`, `SoftDeleteKey`, `UpsertGroup`, `DeleteMembersOf` ...): those of SQLite
for providers and keys, those of Postgres for groups, whose `delete_group` takes
two of them.

### ProbeRunner

`pc` says where each call of `ProbeRunner::run` stands: the check against the
mirror, the permit, `begin_probe`, the second look-up in `probe_key`, the call,
`finish_probe` and `remove_if`. `Cancel` is a request by hand that is dropped while
it waits. `Round`, `Spawn` and `Join` are `run_due`: tasks of one round are joined
before the next. `entry` is what the runner can tell of a key's cooldown;
generations, deadlines and streaks are in `KeyHealth`. `HttpReason` is
`ProviderError::error_type`.

### Startup and Serving

`Open`, `Build`, `Seeding` and `Serve` are `main`; each statement of
`seed_from_env` is a step and may fail, `Crash` may come between any two. The rows
of the keys are a sequence that only grows. Once the server serves, administrators
create and switch providers, and create keys under any `key_ref`, rename, delete
and revive them, each statement a step; so a later seed may find a configured key
renamed, doubled or deleted. The set of providers that must not be cached is taken
in `Build`, before the seed, as in the code. `Refresh` loads the mirror in one step:
what a reload may see between its four reads is in `Catalog`, and nothing in
`Serving` depends on it.

In `Serving`, `cache` and `docs` are the two maps of `crates/cache`. A handler
looks up, removes and stores one entry a step, because the maps are locked one
entry at a time: `SearchFindsExpired` and `EvictAnswer` are the two halves of
`get`, `StashContent`, `Backfill` and `Store` the end of a search, `Demand`,
`ServeDoc`, `MissDoc`, `Fetched` and `StashBody` a content request. `CacheKey` says
which requests share an entry, `Permitted` and `Matches` are the filter that
enforces the domains of a request. A content carries the time at which a provider
returned it, so that an answer filled from an old body shows its age. `Die` is a
crash, with the caches. `ContentFrom` assumes of the providers' APIs that they send
only the parts of a content that were asked for: the adapters (`staan.rs:173`,
`tavily.rs:143`) pass on whatever comes, so the second part of `AnswerFitsRequest`,
no content for who asked for none, rests on the APIs too.

## 4. The runs

| Run | What it asks | Instance |
|---|---|---|
| `key_safety` | exclusion of probes, who may open a gate, what late failures may do, refinement of `KeyGate`, release of a gated key | 2 requests, 2 probers, 5 adverse events |
| `key_lease` | finds that a gated key can become unprobeable (finding 1) | the same, 4 events |
| `pacer_safety` | spacing in admitted order, room for main searches | 2 requests, 2 settings, 4 instants |
| `cascade_safety` | refinement of `Fallback`, tiers, refusals, blame, verdict, audit row, termination | every pool of 4 keys, 3 providers, 2 tiers |
| `budget_search` | how far a limit is exceeded, and until when calls go uncounted | a search, a content request, a probe; limit 2 |
| `content_safety` | no URL lost or paid twice, an owner for every document of the reply; termination | every pool of 3 keys, up to 3 URLs, batches of one URL and of several |
| `egress_safety` | exclusive probes, return of leases | 2 threads, 4 engines, 2 proxies, one shared |
| `catalog_safety` | what a reload that ran alone shows, when a search leaves its group | 2 handlers, 3 writes, 2 keys, 1 group |
| `catalog_reload` | finds a write that a slower reload undoes (finding 2) | 2 handlers, 1 write |
| `probe_safety` | permits and claims accounted for, every key a `KeyGate`, no due key passed over | 3 keys (one without credential, one without adapter), rounds of 2, 1 administrator, 4 events |
| `serving_safety` | what an answer may contain, how old, from whom; what the seed leaves; lost entries | 2 handlers, 5 searches, 2 content requests, 2 providers, 4 events, 4 instants |
| `serving_strict` | finds a strict request answered from a best-effort entry (finding 3) | the same, 3 instants |

### Bounds, and why they are enough

- `KeyHealth`: a claim is at stake between two probers and one failure; a second
  caller brings the transient run to its threshold and interleaves with the
  first. `MaxTrouble` = 5 lets a key be parked, fail a probe, be overtaken and
  fail again, and lets a throttle reach a key that two runs of transient errors
  (four events) have gated. The durations keep the order and the ties of the code's: which of
  two deadlines is later is all that matters. The generations need no bound: what
  raises them is an adverse event or a probe that became due after one.
- `Pacer`: two requests that come back meet all orders of reading the time and
  taking the mutex, and may hold, abandon and retake slots any number of times.
  One setting has an aux horizon, the other has none and a longer interval.
  `MaxTime` = 3 is longer than any horizon, so slots come due, and a clock that
  ran away would show.
- `SearchCascade`: the pool is any subset, so every shape of two tiers with up to
  two keys occurs; one provider spans both tiers, one key is paced, one
  misconfigured. The deadline of two ticks falls before, during and after a
  retry. `MaxFallbacks` = 1 is reached and exceeded by skipped keys.
- `UsageBudget`: a limit of two leaves one call to be seen by three users.
- `ContentCascade`: three URLs and batches of one and of several give a chunk that
  succeeds before one that fails, and a page that belongs to another chunk.
- `EgressBreaker`: two threads suffice for a probe and a stale request; two
  engines share a proxy, `MaxAttempts` = 2 is used up within one engine or over
  two. `Rounds` = 1 is why the run stops (`CHECK_DEADLOCK FALSE`): both threads
  have served their search, and a longer one would only meet the same states of
  the breakers again: a search asks up to three engines, two of them behind the
  shared proxy, so breakers open, become half-open and are probed within it.
- `Catalog`: two overlapping handlers, each able to write, and three writes:
  enough to delete a group, create it again and add a member under either id.
- `ProbeRunner`: three keys for two permits, so that the third waits for a join and
  meets a permit that the administrator holds; four events let a key be parked,
  overtaken, deactivated and probed by hand in one behaviour. Of the HTTP answers,
  403 with and without the phrase and 422 give an outcome of each kind together
  with the ones that are no HTTP status.
- `Serving`: the five searches differ in what the key of an entry must tell apart
  (content, domains, whether an empty answer will do) and in strictness and ttl;
  one includes a domain that the page is not in, one excludes such a domain. `DocTtl` = `MaxTtl` = 2 and four instants let
  a body age in one cache and then in the other; two handlers let one of them
  replace the entry that the other is about to remove. `MaxEvents` = 4 is two
  starts, the first of which may die, with one failing statement or edit and a
  request. The run ends when time and events are used up, so the deadlock check is
  off.

### Fairness

Safety needs none. Liveness is stated where the code's scheduling promises it:

- `KeyHealth!FairSpec`: time passes; a report, once begun, ends, since it awaits
  nothing; a probe ends, since `PROBE_TIMEOUT_MS` bounds it; the worker scans
  again and again (`spawn_worker`). User requests owe nothing. `MaxTrouble`
  stands for "failures stop", without which no key need ever be released.
- `SearchCascade!FairSpec`: every `await` of a search is bounded by its deadline,
  so time passes and the search goes on. The other requests owe nothing.
- `ContentCascade!Spec`: the request goes on; each call is bounded by
  `timeout_ms`.
- `EgressBreaker`: a thread inside `_run_backend` proceeds; each call has a
  timeout. Nobody is obliged to start another search.
- `ProbeRunner!FairSpec`: tokio runs every task that can go on; a call is bounded by
  `PROBE_TIMEOUT_MS`; the interval of the worker ticks; deadlines pass. Nobody owes
  a request by hand, an edit or a failure. Weak fairness suffices: a due key stays
  in the list of the round until it is spawned, and a permit it misses is back when
  the worker comes round again, because the administrators can take no more than
  `MaxEvents` of them.

## 5. Findings

1. *A claim that nobody holds* (`key_lease`). `finish_probe` unlocks the entry
   (`rate_limit.rs:380`) before `remove_if`. A failure reported in between bumps
   the generation, so the entry stays, with `probing` set and no probe at work.
   Neither the worker nor the admin can probe the key until a restart.
   `GatedKeyReleased` holds with this exception and no other.
2. *A reload that undoes a later one* (`catalog_reload`). Two reloads overlap and
   the one that read the tables first installs last. An acknowledged write, for
   instance of a leaked key that was deactivated, is gone from the mirror until
   somebody reloads. `LoneReloadRefreshes` says what holds.
3. *A strict request answered from a best-effort entry* (`serving_strict`).
   `enrichment_cache_key` (`search.rs:84`) leaves `require_enrichment` out, so a
   request that insists on content may be served the answer of a provider that
   has none. `AnswerFitsRequest` says what the key does keep apart.

Seen while modelling, without a run:

- `README.md:101` and `pacing.rs:96` promise that an aux flood cannot fill the
  main horizon. The aux horizon bounds the wait of an aux request, not what its
  slot takes: at 10 requests a minute and `max_queue_ms` = 3000 the interval is
  6.3 s and one aux request shuts main requests out for as long as its interval
  leaves more than 3 s. `MainRetainsCapacity` is checked for settings whose aux
  horizon and interval fit in the main horizon, and proved from this condition.
- `resilience.py:57`: a request let in before a breaker opened ends the lease of
  a running probe, so two probes may overlap; `ProbeExclusive` has that exception.
- `rate_limit.rs:367` returns for an overtaken probe before the timeout streak is
  reset, so an answered probe can leave it, against `README.md:288`.
- `README.md:82` calls `rpd_limit` a hard daily cap; the retry of a transient error
  on a key without pacing (`executor.rs:701`) looks at no budget, and neither do the later chunks of a
  content request. `OverrunBounded` says by how much the cap can be exceeded.
- `rate_limit.rs:509`: two first users of a key each insert a window and one of the
  two is lost. `LossOnlyAtFirstUse` says that this is over once they are through.
- `search.rs:271` says that answers of such providers are never cached. The set is
  computed (`app.rs:146`) before the seed registers them (`main.rs:60`), so the
  first process to register a provider caches it; `HitsCacheable` has that
  exception.
- `seed.rs:7` calls the seed fully idempotent: a failed `list_api_keys` makes it
  insert every key again, and `seed.rs:225` overwrites a priority that an operator
  has set. `SeedConverges` has the first exception. It speaks of the seed's own
  steps: an administrator may add a second row of a configured `key_ref`
  (`admin.rs:194`), since nothing in the schema forbids it, or rename one
  (`admin.rs:247`), and the next start inserts what was renamed again.
- `cache/lib.rs:85`: a content stored without a body replaces one that has it, so a
  cheap search can undo what an expensive one left. `evict_expired` is never called.
- A key that is deactivated between the check of `run` and the second look-up of
  `probe_key` is reported as `auth` and parked, a healthy key that an
  administrator probes by hand included.
- `stats_window` of SQLite sums over no rows to NULL and fails; Postgres coalesces.

## 6. Proofs

The theorems hold for every value of the constants that satisfies the ASSUME of
the module; none has an assumption of its own but `MainSurvivesAuxFlood`. TLC
evaluates the assumptions in each run.

| Module | Inductive invariant | Why it is needed |
|---|---|---|
| `KeyHealth_proofs` | types, claims and tokens: a prober that holds the key has the entry's `probe_generation`, and no two hold it | `OneClaim` alone is not inductive: an entry may be replaced while a prober still believes in its token |
| `SearchCascade_proofs` | `CascadeInv`: where the key in hand stands, how its calls relate to it, why keys were set aside, what became of the tiers left behind, how attempts are spent, what the record of the last failure says of them (`TrailKept`) | `TiersInOrder`, `NoBlameWithoutCause` and the audit row look back over the whole request; an attempt may still be given back |
| `Limits_proofs` | for `Pacer`, `ClockInv`: the clock stands one interval after the last reservation, which was within its own horizon; for `UsageBudget`, `OverrunInv`: who holds a window, and, for a full one, that what it holds beyond the limit and what users may still send it add up to no more than all unchecked calls | the bounds on the clock say nothing of who set it; the bound on the calls does not say who has already used its share; a user that looked at a window which another has replaced may call on the new one once |
| `ContentCascade_proofs` | `ContentInv`: where each URL is, what the key in hand was sent, whose failure each reason is, which keys the pages came from | a URL in a batch is in no collection of the request |
| `EgressBreaker_proofs` | `EgressInv`: which breakers a thread holds, and that a lease belongs to one of them | the breaker does not record who acquired it |
| `Catalog_proofs` | `CatalogInv`: mirror and half-read reloads are both views of the tables, each since the version its reload began at | a mirror mixes tables of different times; what it may show has to be said table by table, and before it is complete |
| `ProbeRunner_proofs` | `RunnerInv`: `TypeOK` with `ProbesAccounted` | the range of the semaphore follows only from the sum over all probers, and a claim that stays exclusive needs the mark on the entry |
| `Serving_proofs` | `SeedInv`: how far the process got, what it has inserted, and which rows it has not been told of; `ServingInv`: what is true of a content or an answer is carried with every copy of it, in both caches and in each handler at each stage | an answer is made of what a handler read before, from an entry that has expired or been replaced since |

The refinements are proved step by step: `KeyHealth` implements `KeyGate` (`Spec =>
Abstract!Spec`), `SearchCascade` and `ContentCascade` both implement `Fallback`
(`Spec => Rule!Spec`; a first call is a `Try`, a retry or a further chunk is none), and in `ProbeRunner` every key does, whatever the others do
(`KeysAreGates`). The last steps of all proofs are the same: `Init` establishes the
invariant, each action preserves it, it implies the property. `OverrunBounded` counts
calls as a set of pairs, not as a sum, since TLAPS here has no induction over sets.

Some theorems state what no run checks any more because a deeper property implies
it or stands beside it: the bounds on the pacer's clock, the history of auth
episodes, who opens a gate, the attempts of a search, the refinement, the tiers and
the verdicts of a content request, the counts and leases of the bridge. They were checked by TLC before they were proved.

Model-checked only: the liveness properties (`GatedKeyReleased`, `SearchEnds`,
`FetchEnds`, `LeaseReturns`, `DueKeyProbed`), since TLAPS does not reason about
fairness and ENABLED here. Checked and proved: all other properties of the passing
runs.

## 7. What is not modelled, and why

- The JSON of the providers and the rewriting of queries for each of them:
  translations without state. What a call may end with is in the models
  (`HttpReason`, `OnePage`, `AnyPages`, `Permitted`); the searches take any outcome.
- The scores of the selector: the cascades let any key that passes the filters be
  the best, so what they guarantee does not depend on the scores.
- The SQL of the storage beyond the statements on providers, keys and groups, the
  search log, the counters of `/stats` and `/health`: they decide nothing.
- Configuration and the resolution of credentials: parsing without state, whose
  results are the constants and the outcomes of the modules.
- DeepSeek's gate: one mutex held while asleep. Its only effect is time, which the
  cascades take as a call that ends by its timeout.
- Costs, the audit rows of searches that succeed, traces, wording.

## 8. Running it

`tlc -config X.cfg MCX` for a run of the table (the `.cfg` and the module of each
are in `PROJECT.json`), `tlapm X_proofs.tla` for the proofs. A "violation" run
ends with the counterexample of its finding.
