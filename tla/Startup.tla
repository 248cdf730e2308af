-------------------------------- MODULE Startup --------------------------------
(***************************************************************************)
(* The life of a server process: main.rs opens the storage, builds the     *)
(* state (app.rs), registers the providers and keys that the environment   *)
(* configures (seed.rs), reloads the catalog and serves.  The process may  *)
(* die anywhere; the tables stay, all it had in memory is gone.            *)
(*                                                                         *)
(* Each statement of the seed is a step.  One that fails is not an error:  *)
(* a listing that fails is an empty one, a provider that is not created is *)
(* skipped with its keys, a key that is not created is skipped.  The seed  *)
(* visits the providers in the order of PROVIDERS; what it does for one    *)
(* does not depend on the others, so the order is left open.               *)
(*                                                                         *)
(* Of the tables, what the seed compares and what decides who may serve is *)
(* kept: which rows are there, is_active, no_cache.  The rows of the keys  *)
(* are a sequence, as none is ever removed: a key's id is its index.  The  *)
(* statements are those of the Postgres backend; SQLite's are in Catalog,  *)
(* and so is what other reads of the tables may see between them.          *)
(***************************************************************************)
EXTENDS Naturals, FiniteSets, Sequences

CONSTANTS
  Provider,      \* the slugs of PROVIDERS
  Ref,           \* what key_refs may be: names of environment variables
  SingleRef,     \* DEEPSEEK_API_KEY, which is not numbered
  Environment,   \* what may be configured: values of the refs, by provider
  Uncacheable,   \* the providers whose definition says no_cache
  Seeded,        \* what the tables may hold before the first start
  MaxEvents      \* bound on the starts of the process, the statements that fail
                 \* and what clients and administrators ask for, together

\* The value of a ref that is not set.
Unset == ""

Row == {"absent", "active", "inactive"}

KeyRow == [provider : Provider, key_ref : Ref, is_active : BOOLEAN]

NewKey(p, r) == [provider |-> p, key_ref |-> r, is_active |-> TRUE]

Tables == [providers : [Provider -> Row], marked : SUBSET Provider, keys : Seq(KeyRow)]

\* (provider_id, key_ref) is not UNIQUE: there may be several.
HasRow(rows, p, r) == \E i \in DOMAIN rows : rows[i].provider = p /\ rows[i].key_ref = r

None == "none"

ASSUME StartupAssumption ==
  /\ None \notin Provider
  /\ Environment \subseteq [Provider -> [Ref -> STRING]]
  /\ Uncacheable \subseteq Provider
  /\ \A tables \in Seeded :
       /\ tables \in Tables
       /\ \A p \in tables.marked : tables.providers[p] # "absent"
       /\ \A i \in DOMAIN tables.keys : tables.providers[tables.keys[i].provider] # "absent"
  /\ MaxEvents \in Nat

VARIABLES
  providers,    \* ps_providers: is_active of each row
  marked,       \* ps_providers: the rows with no_cache
  keys,         \* ps_api_keys
  env,          \* the environment of the process
  phase,        \* where main stands
  known,        \* seed: `existing'
  pairs,        \* seed: `existing_key_pairs'
  left,         \* seed: the providers not visited yet
  current,      \* seed: the provider in hand
  refs,         \* seed: its refs not visited yet
  candidates,   \* the mirror: the providers that have a candidate
  no_cache,     \* AppState.no_cache_providers
  events,       \* what MaxEvents has left
  registered,   \* history: the providers this process's seed created
  clean,        \* history: no statement of this process's seed failed
  blind         \* history: this process's listing of the keys failed

tables == <<providers, marked, keys>>
seed == <<known, pairs, left, current, refs>>
memory == <<candidates, no_cache>>
past == <<registered, clean, blind>>
startupVars == <<tables, env, phase, seed, memory, events, past>>

\* PROVIDERS: the row that the seed creates.
Definition(p) == [row |-> "active", no_cache |-> p \in Uncacheable]

\* The refs that the seed takes for keys of p: the single one only if its value
\* is under no number.
KeyRefs(p) ==
  LET numbered == {r \in Ref \ {SingleRef} : env[p][r] # Unset}
  IN numbered \union
     {r \in Ref \intersect {SingleRef} :
        env[p][r] # Unset /\ \A n \in numbered : env[p][n] # env[p][r]}

\* Something happens that is bounded.
Event == events > 0 /\ events' = events - 1

\* list_providers and list_api_keys: deleted keys are listed with the others.
ListedProviders == {p \in Provider : providers[p] # "absent"}

ListedPairs == {pair \in Provider \X Ref : HasRow(keys, pair[1], pair[2])}

NoSeed ==
  known' = {} /\ pairs' = {} /\ left' = {} /\ current' = None /\ refs' = {}

\* The providers of the candidates that the tables hold, without a group.
Servable ==
  {p \in Provider : /\ providers[p] = "active"
                    /\ \E i \in DOMAIN keys : keys[i].provider = p /\ keys[i].is_active}

StartupInit ==
  /\ \E stored \in Seeded :
       /\ providers = stored.providers
       /\ marked = stored.marked
       /\ keys = stored.keys
  /\ env \in Environment
  /\ phase = "down"
  /\ known = {} /\ pairs = {} /\ left = {} /\ current = None /\ refs = {}
  /\ candidates = {} /\ no_cache = {}
  /\ events = MaxEvents
  /\ registered = {} /\ clean = TRUE /\ blind = FALSE
-----------------------------------------------------------------------------
(* main and build_app *)

\* connect creates what is missing of the schema, statement by statement; a
\* start that died among them is completed by the next one.
Open ==
  /\ phase = "down" /\ Event
  /\ phase' = "opened"
  /\ env' \in Environment
  /\ registered' = {} /\ clean' = TRUE /\ blind' = FALSE
  /\ UNCHANGED <<tables, seed, memory>>

\* The mirror is loaded, and the providers that must not be cached are taken
\* from it, once and for all: before the seed.
Build ==
  /\ phase = "opened"
  /\ phase' = "listing"
  /\ candidates' = Servable
  /\ no_cache' = ListedProviders \intersect marked
  /\ UNCHANGED <<tables, env, seed, events, past>>

\* The seed is done: main reloads the mirror and listens.
Serve ==
  /\ phase = "seeding" /\ left = {} /\ current = None
  /\ phase' = "serving"
  /\ candidates' = Servable
  /\ NoSeed
  /\ UNCHANGED <<tables, env, no_cache, events, past>>

\* The process dies, or main returns the error of a statement that it does not
\* ignore.
Crash ==
  /\ phase # "down"
  /\ phase' = "down"
  /\ NoSeed
  /\ candidates' = {} /\ no_cache' = {}
  /\ registered' = {} /\ clean' = TRUE /\ blind' = FALSE
  /\ UNCHANGED <<tables, env, events>>
-----------------------------------------------------------------------------
(* seed_from_env *)

\* A statement of the seed fails.
Fault == Event /\ clean' = FALSE

ListProviders ==
  /\ phase = "listing"
  /\ phase' = "listing_keys"
  /\ \/ known' = ListedProviders
        /\ UNCHANGED <<events, clean>>
     \/ known' = {} /\ Fault
  /\ UNCHANGED <<tables, env, pairs, left, current, refs, memory,
                 registered, blind>>

ListKeys ==
  /\ phase = "listing_keys"
  /\ phase' = "seeding"
  /\ left' = Provider
  /\ \/ pairs' = ListedPairs
        /\ UNCHANGED <<events, clean, blind>>
     \/ pairs' = {} /\ Fault /\ blind' = TRUE
  /\ UNCHANGED <<tables, env, known, current, refs, memory,
                 registered>>

\* The seed turns to the next provider that has keys configured.
Visit(p) == phase = "seeding" /\ current = None /\ p \in left /\ left' = left \ {p}

\* No keys configured: the provider is not even looked at.
SkipProvider(p) ==
  /\ Visit(p) /\ KeyRefs(p) = {}
  /\ UNCHANGED <<tables, env, phase, known, pairs, current, refs, memory, events, past>>

\* A provider that is there has its priority synced, whether that works or not;
\* is_active and no_cache stay.
KnowProvider(p) ==
  /\ Visit(p) /\ KeyRefs(p) # {} /\ p \in known
  /\ current' = p /\ refs' = KeyRefs(p)
  /\ \/ UNCHANGED <<events, clean>>
     \/ Fault
  /\ UNCHANGED <<tables, env, phase, known, pairs, memory,
                 registered, blind>>

\* create_provider: slug is UNIQUE.
InsertProvider(p, definition) ==
  /\ providers[p] = "absent"
  /\ providers' = [providers EXCEPT ![p] = definition.row]
  /\ marked' = IF definition.no_cache THEN marked \union {p} ELSE marked \ {p}
  /\ UNCHANGED keys

RegisterProvider(p) ==
  /\ Visit(p) /\ KeyRefs(p) # {} /\ p \notin known
  /\ InsertProvider(p, Definition(p))
  /\ current' = p /\ refs' = KeyRefs(p)
  /\ registered' = registered \union {p}
  /\ UNCHANGED <<env, phase, known, pairs, memory, events, clean, blind>>

\* The provider is not created, and left alone: the statement failed, or the
\* row was there and the listing had failed.
GiveUpProvider(p) ==
  /\ Visit(p) /\ KeyRefs(p) # {} /\ p \notin known
  /\ \/ providers[p] = "absent" /\ Fault
     \/ providers[p] # "absent" /\ UNCHANGED <<events, clean>>
  /\ UNCHANGED <<tables, env, phase, known, pairs, current, refs, memory, registered, blind>>

\* create_api_key, under a new id.
InsertKey(p, r) ==
  /\ keys' = Append(keys, NewKey(p, r))
  /\ UNCHANGED <<providers, marked>>

\* Mutant: the keys that are there are told apart by their ref alone.
SeedKeyByRef(r) ==
  /\ phase = "seeding" /\ current # None /\ r \in refs
  /\ refs' = refs \ {r}
  /\ \/ /\ \E p \in Provider : <<p, r>> \in pairs
        /\ UNCHANGED <<tables, events, clean>>
     \/ /\ \A p \in Provider : <<p, r>> \notin pairs
        /\ InsertKey(current, r)
        /\ UNCHANGED <<events, clean>>
     \/ <<current, r>> \notin pairs /\ Fault /\ UNCHANGED tables
  /\ UNCHANGED <<env, phase, known, pairs, left, current, memory,
                 registered, blind>>

SeedKey(r) ==
  /\ phase = "seeding" /\ current # None /\ r \in refs
  /\ refs' = refs \ {r}
  /\ \/ <<current, r>> \in pairs /\ UNCHANGED <<tables, events, clean>>
     \/ /\ <<current, r>> \notin pairs
        /\ InsertKey(current, r)
        /\ UNCHANGED <<events, clean>>
     \/ <<current, r>> \notin pairs /\ Fault /\ UNCHANGED tables
  /\ UNCHANGED <<env, phase, known, pairs, left, current, memory,
                 registered, blind>>

LeaveProvider ==
  /\ phase = "seeding" /\ current # None /\ refs = {}
  /\ current' = None
  /\ UNCHANGED <<tables, env, phase, known, pairs, left, refs, memory, events, past>>
-----------------------------------------------------------------------------
(* Administration, while the server serves *)

Called == phase = "serving" /\ Event

\* update_provider_fields with is_active
SetActive(p, row) ==
  /\ Called
  /\ providers[p] # "absent" /\ row # "absent"
  /\ providers' = [providers EXCEPT ![p] = row]
  /\ UNCHANGED <<marked, keys, env, phase, seed, memory, past>>

\* handle_create_provider never marks.
CreateProvider(p) ==
  /\ Called
  /\ InsertProvider(p, [row |-> "active", no_cache |-> FALSE])
  /\ UNCHANGED <<env, phase, seed, memory, past>>

\* handle_create_key takes any key_ref, whether the provider has it or not.
CreateKey(p, r) ==
  /\ Called
  /\ providers[p] # "absent"
  /\ InsertKey(p, r)
  /\ UNCHANGED <<env, phase, seed, memory, past>>

\* An UPDATE of the row of one id.
UpdateKey(i, row) ==
  /\ Called
  /\ keys' = [keys EXCEPT ![i] = row]
  /\ UNCHANGED <<providers, marked, env, phase, seed, memory, past>>

\* soft_delete_api_key
DeleteKey(i) == UpdateKey(i, [keys[i] EXCEPT !.is_active = FALSE])

\* update_api_key_fields with is_active; with FALSE it is DeleteKey.
ReviveKey(i) == UpdateKey(i, [keys[i] EXCEPT !.is_active = TRUE])

\* update_api_key_fields with key_ref, a statement of its own
RenameKey(i, r) == UpdateKey(i, [keys[i] EXCEPT !.key_ref = r])

\* CatalogStore::reload, after a write or whenever it is asked for.
Refresh ==
  /\ phase = "serving"
  /\ candidates' = Servable
  /\ UNCHANGED <<tables, env, phase, seed, no_cache, events, past>>

Seeding ==
  \/ ListProviders \/ ListKeys \/ LeaveProvider
  \/ \E p \in Provider :
       SkipProvider(p) \/ KnowProvider(p) \/ RegisterProvider(p) \/ GiveUpProvider(p)
  \/ \E r \in Ref : SeedKey(r)

Administration ==
  \/ Refresh
  \/ \E p \in Provider :
       \/ CreateProvider(p)
       \/ \E row \in Row : SetActive(p, row)
       \/ \E r \in Ref : CreateKey(p, r)
  \/ \E i \in DOMAIN keys :
       \/ DeleteKey(i) \/ ReviveKey(i)
       \/ \E r \in Ref : RenameKey(i, r)

StartupNext == Open \/ Build \/ Seeding \/ Serve \/ Administration

-----------------------------------------------------------------------------
(* Properties *)

StartupTypeOK ==
  /\ providers \in [Provider -> Row] /\ marked \subseteq Provider
  /\ keys \in Seq(KeyRow)
  /\ env \in Environment
  /\ phase \in {"down", "opened", "listing", "listing_keys", "seeding", "serving"}
  /\ known \subseteq Provider /\ pairs \subseteq Provider \X Ref
  /\ left \subseteq Provider /\ current \in Provider \union {None}
  /\ refs \subseteq Ref
  /\ candidates \subseteq Provider /\ no_cache \subseteq Provider
  /\ events \in Nat
  /\ registered \subseteq Provider /\ clean \in BOOLEAN /\ blind \in BOOLEAN

\* "fully idempotent: existing providers/keys are left untouched" (seed.rs:7).
\* Wherever earlier processes died in their seeds and whatever administrators
\* did to the tables since: when a seed that met no failing statement is done,
\* every configured key has a row under its own provider; and a seed changes the
\* keys only by a row that was missing, unless its listing of them failed.  A
\* configured key that was deleted therefore stays deleted.
SeedConverges ==
  [][/\ phase = "seeding" /\ phase' = "serving" /\ clean =>
          \A p \in Provider : \A r \in KeyRefs(p) :
            providers[p] # "absent" /\ HasRow(keys, p, r)
     /\ phase = "seeding" /\ ~blind /\ keys' # keys =>
          \E p \in Provider : \E r \in KeyRefs(p) :
            ~HasRow(keys, p, r) /\ keys' = Append(keys, NewKey(p, r))
    ]_startupVars
=============================================================================
