---------------------------- MODULE Serving_proofs ----------------------------
(***************************************************************************)
(* Theorems about Startup and Serving, for any providers, environments,    *)
(* requests and ttls.                                                      *)
(*                                                                         *)
(* SeedInv is about the process: what its seed has yet to do is in left,   *)
(* current and refs, and all the rest is done, unless a statement failed.  *)
(*                                                                         *)
(* ServingInv is about the caches and the handlers.  What an answer may    *)
(* contain is decided where its parts are put together, so it is carried   *)
(* along with every copy: in an entry of either cache, and in a handler    *)
(* at each of its stages.                                                  *)
(***************************************************************************)
EXTENDS Serving, SequenceTheorems, TLAPS

(* The process and its seed *)

\* What the seed has been told is there, is there: while it runs no administrator
\* is served, and it remembers nothing afterwards.
ToldIsThere ==
  /\ marked \subseteq ListedProviders /\ known \subseteq ListedProviders
  /\ phase # "seeding" => pairs = {}
  /\ \A pair \in pairs : HasRow(keys, pair[1], pair[2])

\* The provider in hand has its row, and some of its configured keys are to do.
OneInHand ==
  /\ current # None =>
       /\ phase = "seeding" /\ current \notin left
       /\ providers[current] # "absent" /\ refs \subseteq KeyRefs(current)
  /\ current = None => refs = {}

\* A provider that has its row and is still to visit is known.
NoneOverlooked ==
  clean =>
    /\ phase = "listing_keys" => ListedProviders \subseteq known
    /\ phase = "seeding" => \A p \in left : providers[p] # "absent" => p \in known

Configured(p, r) == providers[p] # "absent" /\ HasRow(keys, p, r)

\* What the seed has been through is configured.
SeedProgress ==
  clean /\ phase = "seeding" =>
    \A p \in Provider \ left : \A r \in KeyRefs(p) :
      Configured(p, r) \/ (p = current /\ r \in refs)

\* A row that the seed has not been told of is one that it has made.
RowsAccounted ==
  ~blind /\ phase = "seeding" =>
    \A p \in Provider, r \in Ref :
      HasRow(keys, p, r) =>
        <<p, r>> \in pairs \/ (p \notin left /\ ~(p = current /\ r \in refs))

\* A provider that must not be cached is one of those the process found marked
\* when it started, or one that its seed has created since.
MarkedNotCached ==
  phase \notin {"down", "opened"} => marked \subseteq no_cache \union registered

SeedInv ==
  /\ StartupTypeOK /\ ToldIsThere /\ OneInHand /\ NoneOverlooked
  /\ SeedProgress /\ RowsAccounted /\ MarkedNotCached

\* A new row is there afterwards, and so is every row that was there before.
LEMMA AppendRow ==
  ASSUME NEW rows \in Seq(KeyRow), NEW q \in Provider, NEW s \in Ref
  PROVE  /\ Append(rows, NewKey(q, s)) \in Seq(KeyRow)
         /\ Append(rows, NewKey(q, s)) # rows
         /\ \A p, r : HasRow(Append(rows, NewKey(q, s)), p, r)
                       <=> HasRow(rows, p, r) \/ (p = q /\ r = s)
<1> DEFINE more == Append(rows, NewKey(q, s))
           n == Len(rows)
<1>1. NewKey(q, s) \in KeyRow /\ NewKey(q, s).provider = q /\ NewKey(q, s).key_ref = s
  BY DEF NewKey, KeyRow
<1>2. /\ more \in Seq(KeyRow) /\ Len(more) = n + 1
      /\ \A i \in 1..n : more[i] = rows[i]
      /\ more[n + 1] = NewKey(q, s)
  BY <1>1, AppendProperties
<1>3. n \in Nat /\ DOMAIN rows = 1..n /\ DOMAIN more = 1..(n + 1)
  BY <1>2
<1> HIDE DEF more, n
<1>4. ASSUME NEW p, NEW r
      PROVE  HasRow(more, p, r) <=> HasRow(rows, p, r) \/ (p = q /\ r = s)
  <2>1. ASSUME NEW i \in DOMAIN more, more[i].provider = p, more[i].key_ref = r
        PROVE  HasRow(rows, p, r) \/ (p = q /\ r = s)
    <3>1. CASE i = n + 1
      BY <1>1, <1>2, <2>1, <3>1
    <3>2. CASE i # n + 1
      <4>1. i \in DOMAIN rows /\ more[i] = rows[i]
        BY <1>2, <1>3, <3>2
      <4> QED BY <2>1, <4>1 DEF HasRow
    <3> QED BY <3>1, <3>2
  <2>2. ASSUME NEW i \in DOMAIN rows, rows[i].provider = p, rows[i].key_ref = r
        PROVE  HasRow(more, p, r)
    <3>1. i \in DOMAIN more /\ more[i] = rows[i]
      BY <1>2, <1>3
    <3> QED BY <2>2, <3>1 DEF HasRow
  <2>3. ASSUME p = q, r = s PROVE HasRow(more, p, r)
    <3>1. n + 1 \in DOMAIN more
      BY <1>3
    <3> QED BY <1>1, <1>2, <2>3, <3>1 DEF HasRow
  <2> QED BY <2>1, <2>2, <2>3 DEF HasRow
<1>5. more # rows
  BY <1>2, <1>3 DEF n
<1> QED
  BY <1>2, <1>4, <1>5 DEF more

LEMMA SeedInvInit == StartupInit => SeedInv
<1> SUFFICES ASSUME StartupInit PROVE SeedInv
  OBVIOUS
<1>1. PICK stored \in Seeded :
        providers = stored.providers /\ marked = stored.marked /\ keys = stored.keys
  BY DEF StartupInit
<1>2. /\ stored.providers \in [Provider -> Row] /\ stored.marked \subseteq Provider
      /\ stored.keys \in Seq(KeyRow)
  BY StartupAssumption DEF Tables
<1>3. StartupTypeOK
  BY <1>1, <1>2, StartupAssumption DEF StartupInit, StartupTypeOK
<1>4. \A p \in marked : p \in Provider /\ providers[p] # "absent"
  BY <1>1, <1>2, StartupAssumption
<1>5. ToldIsThere
  BY <1>4 DEF StartupInit, ToldIsThere, ListedProviders
<1>6. OneInHand
  BY DEF StartupInit, OneInHand
<1>7. NoneOverlooked /\ SeedProgress /\ MarkedNotCached
  BY DEF StartupInit, NoneOverlooked, SeedProgress, MarkedNotCached
<1>8. RowsAccounted
  BY DEF StartupInit, RowsAccounted
<1> QED
  BY <1>3, <1>5, <1>6, <1>7, <1>8 DEF SeedInv

\* The refs of a provider change with the environment only, and are refs.
LEMMA KeyRefsKept ==
  /\ \A p : KeyRefs(p) \subseteq Ref
  /\ env' = env => \A p : KeyRefs(p)' = KeyRefs(p)
BY DEF KeyRefs

\* The conjuncts that speak of the tables, when these stay.
LEMMA ListedKept ==
  <<providers, keys>>' = <<providers, keys>> =>
    /\ ListedProviders' = ListedProviders
    /\ \A p, r : Configured(p, r)' = Configured(p, r)
BY DEF ListedProviders, Configured, HasRow

\* A statement that fails counts as an event, and leaves its mark.
LEMMA FaultTypes ==
  ASSUME StartupTypeOK, Fault \/ UNCHANGED <<events, clean>>
  PROVE  events' \in Nat /\ clean' \in BOOLEAN /\ (clean' => clean)
<1>1. events' \in Nat
  BY DEF StartupTypeOK, Fault, Event
<1>2. CASE Fault
  BY <1>1, <1>2, Zenon DEF Fault
<1>3. CASE UNCHANGED <<events, clean>>
  BY <1>1, <1>3, Zenon DEF StartupTypeOK
<1> QED
  BY <1>2, <1>3, Zenon

LEMMA OpenSeed == SeedInv /\ Open => SeedInv'
<1> SUFFICES ASSUME SeedInv, Open PROVE SeedInv'
  OBVIOUS
<1> USE StartupAssumption, KeyRefsKept, ListedKept DEF SeedInv, Open, Event, tables, seed, memory
<1>1. StartupTypeOK'
  <2>1. clean' \in BOOLEAN /\ blind' \in BOOLEAN
    BY Zenon
  <2> QED BY <2>1 DEF StartupTypeOK
<1>2. ToldIsThere' /\ OneInHand'
  BY DEF ToldIsThere, OneInHand, HasRow
<1>3. NoneOverlooked' /\ SeedProgress' /\ MarkedNotCached'
  BY DEF NoneOverlooked, SeedProgress, MarkedNotCached
<1>4. RowsAccounted'
  BY DEF RowsAccounted
<1> QED
  BY <1>1, <1>2, <1>3, <1>4

LEMMA BuildSeed == SeedInv /\ Build => SeedInv'
<1> SUFFICES ASSUME SeedInv, Build PROVE SeedInv'
  OBVIOUS
<1> USE StartupAssumption, KeyRefsKept, ListedKept DEF SeedInv, Build, tables, seed, past
<1>1. StartupTypeOK'
  BY DEF StartupTypeOK, Servable, ListedProviders
<1>2. ToldIsThere' /\ OneInHand'
  BY DEF ToldIsThere, OneInHand, HasRow
<1>3. NoneOverlooked' /\ SeedProgress'
  BY DEF NoneOverlooked, SeedProgress
<1>4. RowsAccounted'
  BY DEF RowsAccounted
<1>5. MarkedNotCached'
  BY DEF MarkedNotCached, ToldIsThere
<1> QED
  BY <1>1, <1>2, <1>3, <1>4, <1>5

LEMMA ServeSeed == SeedInv /\ Serve => SeedInv'
<1> SUFFICES ASSUME SeedInv, Serve PROVE SeedInv'
  OBVIOUS
<1> USE StartupAssumption, KeyRefsKept, ListedKept DEF SeedInv, Serve, NoSeed, tables, past
<1>1. StartupTypeOK'
  BY DEF StartupTypeOK, Servable
<1>2. ToldIsThere' /\ OneInHand'
  BY DEF ToldIsThere, OneInHand
<1>3. NoneOverlooked'
  BY DEF NoneOverlooked
<1>4. SeedProgress'
  BY DEF SeedProgress
<1>5. RowsAccounted' /\ MarkedNotCached'
  BY DEF RowsAccounted, MarkedNotCached
<1> QED
  BY <1>1, <1>2, <1>3, <1>4, <1>5

LEMMA CrashSeed == SeedInv /\ Crash => SeedInv'
<1> SUFFICES ASSUME SeedInv, Crash PROVE SeedInv'
  OBVIOUS
<1> USE StartupAssumption, KeyRefsKept, ListedKept DEF SeedInv, Crash, NoSeed, tables
<1>1. StartupTypeOK'
  BY DEF StartupTypeOK
<1>2. ToldIsThere' /\ OneInHand'
  BY DEF ToldIsThere, OneInHand
<1>3. NoneOverlooked' /\ SeedProgress' /\ RowsAccounted' /\ MarkedNotCached'
  BY DEF NoneOverlooked, SeedProgress, RowsAccounted, MarkedNotCached
<1> QED
  BY <1>1, <1>2, <1>3

LEMMA ListProvidersSeed == SeedInv /\ ListProviders => SeedInv'
<1> SUFFICES ASSUME SeedInv, ListProviders PROVE SeedInv'
  OBVIOUS
<1> USE StartupAssumption, KeyRefsKept, ListedKept
    DEF SeedInv, ListProviders, tables, memory
<1>1. StartupTypeOK'
  <2>1. events' \in Nat /\ clean' \in BOOLEAN
    BY FaultTypes, Zenon
  <2> QED BY <2>1 DEF StartupTypeOK, ListedProviders
<1>2. ToldIsThere' /\ OneInHand'
  BY DEF ToldIsThere, OneInHand
<1>3. NoneOverlooked'
  BY DEF NoneOverlooked, Fault
<1>4. SeedProgress' /\ RowsAccounted' /\ MarkedNotCached'
  BY DEF SeedProgress, RowsAccounted, MarkedNotCached
<1> QED
  BY <1>1, <1>2, <1>3, <1>4

LEMMA ListKeysSeed == SeedInv /\ ListKeys => SeedInv'
<1> SUFFICES ASSUME SeedInv, ListKeys PROVE SeedInv'
  OBVIOUS
<1> USE StartupAssumption, KeyRefsKept, ListedKept
    DEF SeedInv, ListKeys, tables, memory
<1>1. StartupTypeOK'
  <2>1. events' \in Nat /\ clean' \in BOOLEAN
    BY FaultTypes, Zenon
  <2>2. blind' \in BOOLEAN
    BY Zenon DEF StartupTypeOK
  <2>3. pairs' \subseteq Provider \X Ref
    BY DEF ListedPairs
  <2> QED BY <2>1, <2>2, <2>3 DEF StartupTypeOK
<1>2. ToldIsThere' /\ OneInHand'
  BY DEF ToldIsThere, OneInHand, ListedPairs
<1>3. NoneOverlooked'
  BY DEF NoneOverlooked, ListedProviders, Fault
<1>4. SeedProgress' /\ MarkedNotCached'
  BY DEF SeedProgress, MarkedNotCached
<1>5. RowsAccounted'
  BY DEF RowsAccounted, ListedPairs
<1> QED
  BY <1>1, <1>2, <1>3, <1>4, <1>5

LEMMA SkipProviderSeed ==
  ASSUME SeedInv, NEW p \in Provider, SkipProvider(p)
  PROVE  SeedInv'
<1> USE StartupAssumption, KeyRefsKept, ListedKept
    DEF SeedInv, SkipProvider, Visit, tables, memory, past
<1>1. StartupTypeOK'
  BY DEF StartupTypeOK
<1>2. ToldIsThere' /\ OneInHand'
  BY DEF ToldIsThere, OneInHand
<1>3. NoneOverlooked'
  BY DEF NoneOverlooked
<1>4. SeedProgress' /\ MarkedNotCached'
  BY DEF SeedProgress, MarkedNotCached
<1>5. RowsAccounted'
  BY DEF RowsAccounted
<1> QED
  BY <1>1, <1>2, <1>3, <1>4, <1>5

LEMMA KnowProviderSeed ==
  ASSUME SeedInv, NEW p \in Provider, KnowProvider(p)
  PROVE  SeedInv'
<1> USE StartupAssumption, KeyRefsKept, ListedKept
    DEF SeedInv, KnowProvider, Visit, tables, memory
<1>1. StartupTypeOK'
  <2>1. events' \in Nat /\ clean' \in BOOLEAN
    BY FaultTypes, Zenon
  <2> QED BY <2>1 DEF StartupTypeOK
<1>2. ToldIsThere' /\ OneInHand'
  BY DEF ToldIsThere, OneInHand, ListedProviders
<1>3. clean' => clean
  BY FaultTypes, Zenon
<1>4. NoneOverlooked'
  BY <1>3 DEF NoneOverlooked
<1>5. SeedProgress' /\ MarkedNotCached'
  BY <1>3 DEF SeedProgress, MarkedNotCached
<1>6. RowsAccounted'
  BY DEF RowsAccounted
<1> QED
  BY <1>1, <1>2, <1>4, <1>5, <1>6

LEMMA GiveUpProviderSeed ==
  ASSUME SeedInv, NEW p \in Provider, GiveUpProvider(p)
  PROVE  SeedInv'
<1> USE StartupAssumption, KeyRefsKept, ListedKept
    DEF SeedInv, GiveUpProvider, Visit, tables, memory
<1>1. StartupTypeOK'
  <2>1. events' \in Nat /\ clean' \in BOOLEAN
    BY FaultTypes, Zenon
  <2> QED BY <2>1 DEF StartupTypeOK
<1>2. ToldIsThere' /\ OneInHand'
  BY DEF ToldIsThere, OneInHand
<1>3. ~clean'
  BY DEF Fault, NoneOverlooked
<1>4. NoneOverlooked' /\ SeedProgress' /\ MarkedNotCached'
  BY <1>3 DEF NoneOverlooked, SeedProgress, MarkedNotCached
<1>5. RowsAccounted'
  BY DEF RowsAccounted
<1> QED
  BY <1>1, <1>2, <1>4, <1>5

LEMMA RegisterProviderSeed ==
  ASSUME SeedInv, NEW p \in Provider, RegisterProvider(p)
  PROVE  SeedInv'
<1> USE StartupAssumption, KeyRefsKept
    DEF SeedInv, RegisterProvider, InsertProvider, Definition, Visit, memory
<1>1. StartupTypeOK'
  BY DEF StartupTypeOK, Row
<1>2. providers'[p] = "active" /\ \A q \in Provider \ {p} : providers'[q] = providers[q]
  BY DEF StartupTypeOK
<1>3. ListedProviders' = ListedProviders \union {p}
  BY <1>2 DEF ListedProviders
<1>4. ToldIsThere'
  BY <1>3 DEF ToldIsThere, HasRow
<1>5. OneInHand'
  BY <1>2 DEF OneInHand
<1>6. NoneOverlooked'
  BY <1>2 DEF NoneOverlooked, StartupTypeOK
<1>7. SeedProgress'
  BY <1>2 DEF SeedProgress, Configured, HasRow
<1>8. RowsAccounted' /\ MarkedNotCached'
  BY DEF RowsAccounted, MarkedNotCached, HasRow
<1> QED
  BY <1>1, <1>4, <1>5, <1>6, <1>7, <1>8

LEMMA LeaveProviderSeed == SeedInv /\ LeaveProvider => SeedInv'
<1> SUFFICES ASSUME SeedInv, LeaveProvider PROVE SeedInv'
  OBVIOUS
<1> USE StartupAssumption, KeyRefsKept, ListedKept
    DEF SeedInv, LeaveProvider, tables, memory, past
<1>1. StartupTypeOK'
  BY DEF StartupTypeOK
<1>2. ToldIsThere' /\ OneInHand'
  BY DEF ToldIsThere, OneInHand
<1>3. NoneOverlooked'
  BY DEF NoneOverlooked
<1>4. SeedProgress' /\ MarkedNotCached'
  BY DEF SeedProgress, MarkedNotCached
<1>5. RowsAccounted'
  BY DEF RowsAccounted
<1> QED
  BY <1>1, <1>2, <1>3, <1>4, <1>5

\* The seed inserts a row that it has not been told of.
LEMMA InsertKeySeed ==
  ASSUME SeedInv, NEW r \in Ref, SeedKey(r), <<current, r>> \notin pairs,
         InsertKey(current, r), UNCHANGED <<events, clean>>
  PROVE  SeedInv'
<1> USE StartupAssumption, KeyRefsKept DEF SeedInv, SeedKey, memory
<1>1. current \in Provider /\ keys \in Seq(KeyRow)
  BY DEF StartupTypeOK
<1>2. /\ keys' \in Seq(KeyRow)
      /\ \A q, s : HasRow(keys', q, s) <=> HasRow(keys, q, s) \/ (q = current /\ s = r)
  BY <1>1, AppendRow DEF InsertKey
<1>3. \A q, s : HasRow(keys, q, s)' <=> HasRow(keys, q, s) \/ (q = current /\ s = r)
  BY <1>2 DEF HasRow
<1>4. StartupTypeOK'
  BY <1>2 DEF StartupTypeOK, InsertKey
<1>5. ToldIsThere'
  BY <1>3 DEF ToldIsThere, InsertKey, ListedProviders
<1>6. OneInHand' /\ NoneOverlooked' /\ MarkedNotCached'
  BY DEF OneInHand, NoneOverlooked, MarkedNotCached, InsertKey
<1>7. SeedProgress'
  BY <1>1, <1>3 DEF SeedProgress, Configured, InsertKey, OneInHand
<1>8. RowsAccounted'
  BY <1>1, <1>3 DEF RowsAccounted, OneInHand
<1> QED
  BY <1>4, <1>5, <1>6, <1>7, <1>8

LEMMA SeedKeySeed ==
  ASSUME SeedInv, NEW r \in Ref, SeedKey(r)
  PROVE  SeedInv'
<1> USE StartupAssumption, KeyRefsKept, ListedKept DEF SeedInv
<1>1. CASE <<current, r>> \in pairs /\ UNCHANGED <<tables, events, clean>>
  <2> USE <1>1 DEF SeedKey, tables, memory
  <2>1. StartupTypeOK'
    BY DEF StartupTypeOK
  <2>2. ToldIsThere' /\ OneInHand' /\ NoneOverlooked' /\ MarkedNotCached'
    BY DEF ToldIsThere, OneInHand, NoneOverlooked, MarkedNotCached
  <2>3. Configured(current, r)
    BY DEF Configured, ToldIsThere, OneInHand
  <2>4. SeedProgress'
    BY <2>3 DEF SeedProgress
  <2>5. RowsAccounted'
    BY DEF RowsAccounted
  <2> QED BY <2>1, <2>2, <2>4, <2>5
<1>2. CASE <<current, r>> \notin pairs /\ Fault /\ UNCHANGED tables
  <2> USE <1>2 DEF SeedKey, tables, memory
  <2>1. StartupTypeOK'
    <3>1. events' \in Nat /\ clean' \in BOOLEAN
      BY FaultTypes, Zenon
    <3> QED BY <3>1 DEF StartupTypeOK
  <2>2. ~clean'
    BY DEF Fault
  <2>3. ToldIsThere' /\ OneInHand' /\ NoneOverlooked' /\ SeedProgress' /\ MarkedNotCached'
    BY <2>2 DEF ToldIsThere, OneInHand, NoneOverlooked, SeedProgress, MarkedNotCached
  <2>4. RowsAccounted'
    BY DEF RowsAccounted
  <2> QED BY <2>1, <2>3, <2>4
<1>3. CASE <<current, r>> \notin pairs /\ InsertKey(current, r) /\ UNCHANGED <<events, clean>>
  BY <1>3, InsertKeySeed
<1> QED
  BY <1>1, <1>2, <1>3 DEF SeedKey

\* What an administrator asks for takes an event; the seed is over.
LEMMA CalledSeed ==
  ASSUME SeedInv, Called, UNCHANGED <<env, phase, seed, memory, past>>,
         providers' \in [Provider -> Row], marked' \subseteq marked,
         keys' \in Seq(KeyRow),
         \A p \in Provider : providers[p] # "absent" => providers'[p] # "absent"
  PROVE  SeedInv'
<1> USE StartupAssumption, KeyRefsKept DEF SeedInv, seed, memory, past
<1>1. StartupTypeOK'
  <2>1. events' \in Nat
    BY DEF StartupTypeOK, Called, Event
  <2> QED BY <2>1 DEF StartupTypeOK
<1>2. phase = "serving" /\ current = None /\ pairs = {}
  BY DEF Called, OneInHand, ToldIsThere
<1>3. ToldIsThere'
  BY <1>2 DEF ToldIsThere, ListedProviders, StartupTypeOK
<1>4. OneInHand' /\ NoneOverlooked' /\ MarkedNotCached'
  BY <1>2 DEF OneInHand, NoneOverlooked, MarkedNotCached
<1>5. SeedProgress' /\ RowsAccounted'
  BY <1>2 DEF SeedProgress, RowsAccounted
<1> QED
  BY <1>1, <1>3, <1>4, <1>5

\* A row of a key is replaced by another.
LEMMA UpdateKeySeed ==
  ASSUME SeedInv, NEW i \in DOMAIN keys, NEW row \in KeyRow, UpdateKey(i, row)
  PROVE  SeedInv'
<1>1. keys \in Seq(KeyRow) /\ providers \in [Provider -> Row]
  BY DEF SeedInv, StartupTypeOK
<1>2. keys' \in Seq(KeyRow)
  BY <1>1 DEF UpdateKey
<1>3. /\ Called /\ providers' = providers /\ marked' = marked
      /\ UNCHANGED <<env, phase, seed, memory, past>>
  BY DEF UpdateKey
<1> QED
  BY <1>1, <1>2, <1>3, CalledSeed

LEMMA AdministrationSeed == SeedInv /\ Administration => SeedInv'
<1> SUFFICES ASSUME SeedInv, Administration PROVE SeedInv'
  OBVIOUS
<1>1. CASE Refresh
  <2> USE <1>1, KeyRefsKept, ListedKept DEF SeedInv, Refresh, tables, seed, past
  <2>1. StartupTypeOK'
    BY DEF StartupTypeOK, Servable
  <2>2. ToldIsThere' /\ OneInHand' /\ NoneOverlooked' /\ SeedProgress' /\ MarkedNotCached'
    BY DEF ToldIsThere, OneInHand, NoneOverlooked, SeedProgress, MarkedNotCached
  <2>3. RowsAccounted'
    BY DEF RowsAccounted
  <2> QED BY <2>1, <2>2, <2>3
<1>0. providers \in [Provider -> Row] /\ keys \in Seq(KeyRow)
  BY DEF SeedInv, StartupTypeOK
<1>2. ASSUME NEW p \in Provider, CreateProvider(p) PROVE SeedInv'
  <2>1. providers' = [providers EXCEPT ![p] = "active"] /\ marked' = marked \ {p}
    BY <1>2 DEF CreateProvider, InsertProvider
  <2>2. /\ Called /\ keys' = keys
        /\ UNCHANGED <<env, phase, seed, memory, past>>
    BY <1>2 DEF CreateProvider, InsertProvider
  <2>3. /\ providers' \in [Provider -> Row] /\ marked' \subseteq marked
        /\ \A q \in Provider : providers[q] # "absent" => providers'[q] # "absent"
    BY <1>0, <2>1 DEF Row
  <2> QED BY <1>0, <2>2, <2>3, CalledSeed
<1>3. ASSUME NEW p \in Provider, NEW row \in Row, SetActive(p, row) PROVE SeedInv'
  <2>1. /\ Called /\ marked' = marked /\ keys' = keys
        /\ UNCHANGED <<env, phase, seed, memory, past>>
    BY <1>3 DEF SetActive
  <2>2. /\ providers' \in [Provider -> Row]
        /\ \A q \in Provider : providers[q] # "absent" => providers'[q] # "absent"
    BY <1>0, <1>3 DEF SetActive
  <2> QED BY <1>0, <2>1, <2>2, CalledSeed
<1>4. ASSUME NEW p \in Provider, NEW r \in Ref, CreateKey(p, r) PROVE SeedInv'
  <2>1. /\ Called /\ providers' = providers /\ marked' = marked
        /\ UNCHANGED <<env, phase, seed, memory, past>>
    BY <1>4 DEF CreateKey, InsertKey
  <2>2. keys' \in Seq(KeyRow)
    BY <1>0, <1>4, AppendRow DEF CreateKey, InsertKey
  <2> QED BY <1>0, <2>1, <2>2, CalledSeed
<1>5. ASSUME NEW i \in DOMAIN keys,
             DeleteKey(i) \/ ReviveKey(i) \/ \E r \in Ref : RenameKey(i, r)
      PROVE  SeedInv'
  <2>1. keys[i] \in KeyRow
    BY <1>0
  <2>2. /\ [keys[i] EXCEPT !.is_active = FALSE] \in KeyRow
        /\ [keys[i] EXCEPT !.is_active = TRUE] \in KeyRow
        /\ \A r \in Ref : [keys[i] EXCEPT !.key_ref = r] \in KeyRow
    BY <2>1 DEF KeyRow
  <2> QED BY <1>5, <2>2, UpdateKeySeed DEF DeleteKey, ReviveKey, RenameKey
<1> QED
  BY <1>1, <1>2, <1>3, <1>4, <1>5 DEF Administration

LEMMA SeedInvNext == SeedInv /\ StartupNext => SeedInv'
<1> SUFFICES ASSUME SeedInv, StartupNext PROVE SeedInv'
  OBVIOUS
<1>1. CASE Open \/ Build \/ Serve \/ Administration
  BY <1>1, OpenSeed, BuildSeed, ServeSeed, AdministrationSeed
<1>2. CASE Seeding
  BY <1>2, ListProvidersSeed, ListKeysSeed, LeaveProviderSeed, SkipProviderSeed,
     KnowProviderSeed, RegisterProviderSeed, GiveUpProviderSeed, SeedKeySeed DEF Seeding
<1> QED
  BY <1>1, <1>2 DEF StartupNext

LEMMA SeedInvStutters == SeedInv /\ UNCHANGED startupVars => SeedInv'
BY DEF startupVars, tables, seed, memory, past, SeedInv, StartupTypeOK, ToldIsThere,
       OneInHand, NoneOverlooked, SeedProgress, RowsAccounted, MarkedNotCached,
       ListedProviders, Configured, HasRow, KeyRefs
-----------------------------------------------------------------------------
(* The caches and the handlers *)

\* Content c, if it is any, is no older than age at time t.
Aged(c, t, age) == HasContent(c) => c.at <= t /\ t - c.at <= age

\* What AnswerFitsRequest asks of results for request q, or for its key.
Fits(res, q) ==
  /\ \A u \in Page : res[u] # Nil => u \in Permitted(q)
  /\ q.wants = {} => \A u \in Page : ~HasContent(res[u])
  /\ q.fallback_on_empty => res # NoResults

\* Where nothing is served nothing is cached or under way.
Quiet ==
  phase # "serving" =>
    /\ \A h \in Handler : pc[h] = Idle /\ ~hit[h]
    /\ \A k \in Keys : cache[k] = Nil

EntryOK(k) ==
  cache[k] # Nil =>
    /\ cache[k].provider \notin no_cache
    /\ cache[k].stored_at <= now /\ cache[k].ttl <= MaxTtl
    /\ Fits(cache[k].results, k)
    /\ \A u \in Page : Aged(cache[k].results[u], cache[k].stored_at, DocTtl - 1)

\* Content is remembered when it comes, so that its age is that of the entry.
DocOK(u) == docs[u] # Nil => docs[u].at = docs[u].stored_at /\ docs[u].stored_at <= now

\* An answer that is being filled, and what of it is still to be stashed.
Filling(h) ==
  pc[h] = "filling" =>
    /\ winner[h] # None
    /\ Fits(results[h], request[h])
    /\ request[h].wants = {} => pending[h] = {}
    /\ \A u \in pending[h] : results[h][u] # Nil /\ Aged(results[h][u], now, 0)
    /\ \A u \in Page : Aged(results[h][u], now, DocTtl - 1)

Stashing(h) ==
  pc[h] = "stashing" =>
    \A u \in pending[h] : HasContent(results[h][u]) /\ results[h][u].at = now

Answering(h) ==
  /\ hit[h] => pc[h] = "answered" /\ winner[h] \notin no_cache
  /\ Answered(h) =>
       /\ Fits(results[h], request[h])
       /\ \A u \in Page : Aged(results[h][u], now, (DocTtl - 1) + (MaxTtl - 1))

HandlerOK(h) == Filling(h) /\ Stashing(h) /\ Answering(h)

\* What a reader is about to remove has expired, or is as new as the moment.
Evicting(h) ==
  pc[h] = "evicting" /\ LiveAnswer(CacheKey(request[h]))
    => cache[CacheKey(request[h])].stored_at = now

ServingInv ==
  /\ SeedInv /\ TypeOK /\ Quiet
  /\ \A k \in Keys : EntryOK(k)
  /\ \A u \in Page : DocOK(u)
  /\ \A h \in Handler : HandlerOK(h) /\ Evicting(h)

\* A search is no content request: it has a topic.
LEMMA Apart == \A r \in Search : r \notin Fetch
<1> SUFFICES ASSUME NEW r \in Search, r \in Fetch PROVE FALSE
  OBVIOUS
<1>1. "topic" \in DOMAIN r
  BY ServingAssumption DEF SearchRequest
<1>2. DOMAIN r = {"urls", "format", "fresh"}
  BY ServingAssumption DEF ContentsRequest
<1> QED
  BY <1>1, <1>2

\* The key of a search tells all that what fits it depends on.
LEMMA KeyTells ==
  ASSUME NEW r \in Search
  PROVE  /\ CacheKey(r) \in Keys
         /\ \A res : Fits(res, CacheKey(r)) <=> Fits(res, r)
<1>1. /\ CacheKey(r).wants = r.wants /\ CacheKey(r).include = r.include
      /\ CacheKey(r).exclude = r.exclude
      /\ CacheKey(r).fallback_on_empty = r.fallback_on_empty
  BY DEF CacheKey
<1>2. Permitted(CacheKey(r)) = Permitted(r)
  BY <1>1 DEF Permitted
<1>3. \A res : Fits(res, CacheKey(r)) <=> Fits(res, r)
  BY <1>1, <1>2 DEF Fits
<1> QED
  BY <1>3 DEF Keys

LEMMA RequestTypes ==
  /\ \A r \in Search : r.ttl \in 0..MaxTtl /\ r.ttl \in Nat /\ r.ttl <= MaxTtl
  /\ \A r \in Fetch : r.urls \subseteq Page
<1>1. \A r \in Search : r.ttl \in 0..MaxTtl
  BY ServingAssumption DEF SearchRequest
<1>2. \A r \in Fetch : r.urls \in SUBSET Page
  BY ServingAssumption DEF ContentsRequest
<1> QED
  BY <1>1, <1>2, ServingAssumption

\* What an executor may answer for a request that wants nothing has nothing.
LEMMA ContentFromTypes ==
  ASSUME now \in Nat, NEW p, NEW r, NEW c \in ContentFrom(p, r)
  PROVE  /\ c \in Content /\ c # Nil
         /\ HasContent(c) => c.at = now
         /\ r.wants = {} => ~HasContent(c)
<1>1. CASE c = Nothing
  <2>1. Nothing \in Content
    BY DEF Nothing, Content
  <2>2. ~HasContent(Nothing)
    BY DEF HasContent, Nothing
  <2> QED BY <1>1, <2>1, <2>2, NilAssumption
<1>2. CASE c # Nothing
  <2>1. /\ c \in [body : Format \union {None}, snippets : BOOLEAN, at : {now}]
        /\ c.body # None => "body" \in r.wants \intersect Supports[p]
        /\ c.snippets => "snippets" \in r.wants \intersect Supports[p]
    BY <1>2 DEF ContentFrom
  <2>2. c \in Content /\ c.at = now
    BY <2>1 DEF Content
  <2>3. r.wants = {} => ~HasContent(c)
    BY <2>1 DEF HasContent
  <2> QED BY <2>2, <2>3, NilAssumption
<1> QED
  BY <1>1, <1>2

LEMMA NothingTypes ==
  /\ Nothing \in Content /\ Nothing # Nil
  /\ ~HasContent(Nothing) /\ ~HasContent(Nil)
  /\ NoResults \in Results /\ \A u \in Page : NoResults[u] = Nil
<1>1. Nothing \in Content
  BY DEF Nothing, Content
<1>2. ~HasContent(Nothing) /\ ~HasContent(Nil)
  BY DEF HasContent, Nothing
<1>3. NoResults \in Results /\ \A u \in Page : NoResults[u] = Nil
  BY DEF NoResults, Results
<1> QED
  BY <1>1, <1>2, <1>3, NilAssumption

\* What is true of a handler stays true while it does nothing.
Unmoved(h) ==
  /\ pc'[h] = pc[h] /\ request'[h] = request[h] /\ winner'[h] = winner[h]
  /\ results'[h] = results[h] /\ pending'[h] = pending[h] /\ hit'[h] = hit[h]

\* It may also have dealt with a page.
LookedAt(h) ==
  /\ pc'[h] = pc[h] /\ request'[h] = request[h] /\ winner'[h] = winner[h]
  /\ results'[h] = results[h] /\ pending'[h] \subseteq pending[h] /\ hit'[h] = hit[h]

LEMMA LookedAtOK ==
  ASSUME NEW h \in Handler, HandlerOK(h), LookedAt(h), UNCHANGED <<no_cache, now>>
  PROVE  HandlerOK(h)'
<1>1. Filling(h)'
  BY DEF HandlerOK, LookedAt, Filling, Aged, Fits, Permitted, Matches, HasContent
<1>2. Stashing(h)'
  BY DEF HandlerOK, LookedAt, Stashing
<1>3. Answering(h)'
  BY DEF HandlerOK, LookedAt, Answering, Answered, Aged, Fits, Permitted, Matches, HasContent
<1> QED
  BY <1>1, <1>2, <1>3 DEF HandlerOK

LEMMA UnmovedOK ==
  ASSUME NEW h \in Handler, HandlerOK(h), Unmoved(h), UNCHANGED <<no_cache, now>>
  PROVE  HandlerOK(h)'
<1>1. LookedAt(h)
  BY DEF LookedAt, Unmoved
<1> QED
  BY <1>1, LookedAtOK

LEMMA UnmovedEvicting ==
  ASSUME NEW h \in Handler, Evicting(h), Unmoved(h), UNCHANGED <<cache, now>>
  PROVE  Evicting(h)'
BY DEF Unmoved, Evicting, LiveAnswer, Expired, CacheKey

LEMMA EntriesKept ==
  ASSUME \A k \in Keys : EntryOK(k), UNCHANGED <<cache, no_cache, now>>
  PROVE  \A k \in Keys : EntryOK(k)'
BY DEF EntryOK, Aged, Fits, Permitted, Matches, HasContent

\* A step of one handler that leaves the query cache alone.
LEMMA HandlerStep ==
  ASSUME ServingInv, NEW h \in Handler,
         phase = "serving" \/ UNCHANGED <<pc, hit>>, SeedInv', TypeOK',
         UNCHANGED <<phase, no_cache, cache, now>>,
         \A u \in Page : DocOK(u)',
         \A g \in Handler \ {h} : Unmoved(g),
         HandlerOK(h)', Evicting(h)'
  PROVE  ServingInv'
<1>1. Quiet'
  BY DEF ServingInv, Quiet
<1>2. \A k \in Keys : EntryOK(k)'
  BY EntriesKept DEF ServingInv
<1>3. \A g \in Handler : HandlerOK(g)' /\ Evicting(g)'
  <2> SUFFICES ASSUME NEW g \in Handler, g # h PROVE HandlerOK(g)' /\ Evicting(g)'
    OBVIOUS
  <2>1. HandlerOK(g) /\ Evicting(g) /\ Unmoved(g)
    BY DEF ServingInv
  <2> QED BY <2>1, UnmovedOK, UnmovedEvicting
<1> QED
  BY <1>1, <1>2, <1>3 DEF ServingInv

LEMMA DocsKept ==
  ASSUME ServingInv, UNCHANGED <<docs, now>>
  PROVE  \A u \in Page : DocOK(u)'
BY DEF ServingInv, DocOK

\* A handler that has a request stands in a process that serves.
LEMMA AtWork ==
  ASSUME ServingInv, NEW h \in Handler, pc[h] # Idle
  PROVE  phase = "serving"
BY DEF ServingInv, Quiet

\* A request that comes in disturbs nothing of the process.
LEMMA ArriveSeed ==
  ASSUME ServingInv, NEW h \in Handler, NEW r, Arrive(h, r)
  PROVE  /\ SeedInv' /\ phase = "serving" /\ phase' = phase /\ no_cache' = no_cache
         /\ pc[h] = Idle /\ ~hit[h]
<1>1. Called /\ UNCHANGED <<tables, env, phase, seed, memory, past>> /\ pc[h] = Idle
  BY DEF Arrive
<1>2. providers \in [Provider -> Row] /\ keys \in Seq(KeyRow)
  BY DEF ServingInv, SeedInv, StartupTypeOK
<1>3. providers' = providers /\ marked' = marked /\ keys' = keys
  BY <1>1 DEF tables
<1>4. SeedInv'
  BY <1>1, <1>2, <1>3, CalledSeed DEF ServingInv
<1>5. ~hit[h]
  BY <1>1 DEF ServingInv, HandlerOK, Answering, Idle
<1> QED
  BY <1>1, <1>4, <1>5 DEF Called, memory

\* The steps that leave the process alone.
LEMMA ProcessKept ==
  ASSUME ServingInv, UNCHANGED startupVars
  PROVE  /\ SeedInv' /\ StartupTypeOK' /\ UNCHANGED <<phase, no_cache>>
<1>1. SeedInv'
  BY SeedInvStutters DEF ServingInv
<1> QED
  BY <1>1 DEF SeedInv, startupVars, memory

LEMMA SearchMissesStep ==
  ASSUME ServingInv, NEW h \in Handler, NEW r \in Search, SearchMisses(h, r)
  PROVE  ServingInv'
<1> USE DEF SearchMisses, AskExecutor
<1>1. /\ SeedInv' /\ phase = "serving" /\ UNCHANGED <<phase, no_cache, cache, now>>
      /\ ~hit[h] /\ StartupTypeOK'
  BY ArriveSeed DEF SeedInv
<1>2. TypeOK'
  BY <1>1 DEF ServingInv, TypeOK, Arrive, Pool, StartupTypeOK
<1>3. \A g \in Handler \ {h} : Unmoved(g)
  BY DEF ServingInv, TypeOK, Arrive, Unmoved
<1>4. pc'[h] = "searching" /\ hit'[h] = hit[h]
  BY DEF ServingInv, TypeOK
<1>5. HandlerOK(h)' /\ Evicting(h)'
  BY <1>1, <1>4 DEF HandlerOK, Filling, Stashing, Answering, Answered, Evicting
<1> QED
  BY <1>1, <1>2, <1>3, <1>5, DocsKept, HandlerStep

LEMMA SearchFindsExpiredStep ==
  ASSUME ServingInv, NEW h \in Handler, NEW r \in Search, SearchFindsExpired(h, r)
  PROVE  ServingInv'
<1> USE DEF SearchFindsExpired
<1>1. /\ SeedInv' /\ phase = "serving" /\ UNCHANGED <<phase, no_cache, cache, now>>
      /\ ~hit[h] /\ StartupTypeOK'
  BY ArriveSeed DEF SeedInv
<1>2. TypeOK'
  BY <1>1 DEF ServingInv, TypeOK, Arrive
<1>3. \A g \in Handler \ {h} : Unmoved(g)
  BY DEF ServingInv, TypeOK, Arrive, Unmoved
<1>4. pc'[h] = "evicting" /\ hit'[h] = hit[h] /\ request'[h] = r
  BY DEF ServingInv, TypeOK, Arrive
<1>5. HandlerOK(h)'
  BY <1>1, <1>4 DEF HandlerOK, Filling, Stashing, Answering, Answered
<1>6. Evicting(h)'
  <2>1. LiveAnswer(CacheKey(r))' = LiveAnswer(CacheKey(r))
    BY <1>1 DEF LiveAnswer, Expired, CacheKey
  <2>2. CacheKey(request[h])' = CacheKey(r)
    BY <1>4 DEF CacheKey
  <2> QED BY <2>1, <2>2 DEF Evicting, LiveAnswer, Expired
<1> QED
  BY <1>1, <1>2, <1>3, <1>5, <1>6, DocsKept, HandlerStep

LEMMA SearchHitsStep ==
  ASSUME ServingInv, NEW h \in Handler, NEW r \in Search, SearchHits(h, r)
  PROVE  ServingInv'
<1> USE DEF SearchHits
<1> DEFINE k == CacheKey(r)
<1>1. /\ SeedInv' /\ phase = "serving" /\ UNCHANGED <<phase, no_cache, cache, now>>
      /\ StartupTypeOK'
  BY ArriveSeed DEF SeedInv
<1>2. /\ k \in Keys /\ cache[k] \in CacheEntry /\ cache[k] # Nil /\ EntryOK(k)
      /\ \A res : Fits(res, k) <=> Fits(res, r)
  BY KeyTells DEF LiveAnswer, ServingInv, TypeOK
<1>3. /\ cache[k].results \in Results /\ cache[k].provider \in Provider
      /\ cache[k].stored_at \in Nat /\ cache[k].ttl \in Nat
  BY <1>2 DEF CacheEntry
<1>4. TypeOK'
  <2> HIDE DEF k
  <2>1. /\ winner' = [winner EXCEPT ![h] = cache[k].provider]
        /\ results' = [results EXCEPT ![h] = cache[k].results]
    BY DEF k
  <2>2. winner' \in [Handler -> Provider \union {None}] /\ results' \in [Handler -> Results]
    BY <2>1, <1>3 DEF ServingInv, TypeOK
  <2> QED BY <1>1, <2>2 DEF ServingInv, TypeOK, Arrive
<1>5. \A g \in Handler \ {h} : Unmoved(g)
  BY DEF ServingInv, TypeOK, Arrive, Unmoved
<1>6. /\ pc'[h] = "answered" /\ hit'[h] = TRUE /\ request'[h] = r
      /\ winner'[h] = cache[k].provider /\ results'[h] = cache[k].results
  BY DEF ServingInv, TypeOK, Arrive
<1>7. \A u \in Page : Aged(cache[k].results[u], now, (DocTtl - 1) + (MaxTtl - 1))
  <2> SUFFICES ASSUME NEW u \in Page, HasContent(cache[k].results[u])
               PROVE  /\ cache[k].results[u].at <= now
                      /\ now - cache[k].results[u].at <= (DocTtl - 1) + (MaxTtl - 1)
    BY DEF Aged
  <2> HIDE DEF k
  <2>1. cache[k].results[u] \in Content
    BY <1>3 DEF Results, HasContent
  <2>2. cache[k].results[u].at \in Nat
    BY <2>1 DEF Content
  <2>3. /\ cache[k].results[u].at <= cache[k].stored_at
        /\ cache[k].stored_at - cache[k].results[u].at <= DocTtl - 1
        /\ cache[k].stored_at <= now /\ cache[k].ttl <= MaxTtl
    BY <1>2 DEF EntryOK, Aged
  <2>4. now - cache[k].stored_at < cache[k].ttl
    BY <1>3 DEF LiveAnswer, Expired, k, ServingInv, TypeOK
  <2> QED BY <1>3, <2>2, <2>3, <2>4, ServingAssumption DEF ServingInv, TypeOK
<1>8. HandlerOK(h)'
  <2> HIDE DEF k
  <2>1. cache[k].provider \notin no_cache /\ Fits(cache[k].results, r)
    BY <1>2 DEF EntryOK
  <2>2. Answering(h)'
    BY <1>1, <1>6, <1>7, <2>1
    DEF Answering, Answered, Fits, Aged, Permitted, Matches, HasContent
  <2> QED BY <1>6, <2>2 DEF HandlerOK, Filling, Stashing
<1>9. Evicting(h)'
  BY <1>6 DEF Evicting
<1> QED
  BY <1>1, <1>4, <1>5, <1>8, <1>9, DocsKept, HandlerStep

LEMMA FinishStep ==
  ASSUME ServingInv, NEW h \in Handler, Finish(h)
  PROVE  ServingInv'
<1> USE DEF Finish, Done
<1>1. SeedInv' /\ StartupTypeOK' /\ UNCHANGED <<phase, no_cache, cache, now>>
  BY ProcessKept
<1>2. phase = "serving"
  BY AtWork DEF Idle
<1>3. TypeOK'
  BY <1>1, NothingTypes DEF ServingInv, TypeOK
<1>4. \A g \in Handler \ {h} : Unmoved(g)
  BY DEF ServingInv, TypeOK, Unmoved
<1>5. pc'[h] = Idle /\ hit'[h] = FALSE
  BY DEF ServingInv, TypeOK
<1>6. HandlerOK(h)' /\ Evicting(h)'
  BY <1>5 DEF HandlerOK, Filling, Stashing, Answering, Answered, Evicting, Idle
<1> QED
  BY <1>1, <1>2, <1>3, <1>4, <1>6, DocsKept, HandlerStep

LEMMA SearchAnsweredStep ==
  ASSUME ServingInv, NEW h \in Handler, NEW answer \in [Page ->
           ContentFrom(winner[h], request[h]) \union {Nil}], SearchAnswered(h, answer)
  PROVE  ServingInv'
<1> USE DEF SearchAnswered
<1>1. SeedInv' /\ StartupTypeOK' /\ UNCHANGED <<phase, no_cache, cache, now>>
  BY ProcessKept
<1>2. phase = "serving"
  BY AtWork DEF Idle
<1>3. now \in Nat /\ request[h] \in Search
  BY DEF ServingInv, TypeOK, Idle
<1>4. \A u \in Page :
        /\ answer[u] \in Content \union {Nil}
        /\ HasContent(answer[u]) => answer[u].at = now
        /\ request[h].wants = {} => ~HasContent(answer[u])
  BY <1>3, ContentFromTypes, NothingTypes
<1>5. answer \in Results
  BY <1>4 DEF Results
<1>6. TypeOK'
  BY <1>1, <1>3, <1>5 DEF ServingInv, TypeOK
<1>7. \A g \in Handler \ {h} : Unmoved(g)
  BY DEF ServingInv, TypeOK, Unmoved
<1>8. /\ pc'[h] = "filling" /\ hit'[h] = hit[h] /\ request'[h] = request[h]
      /\ winner'[h] = winner[h] /\ results'[h] = answer
      /\ pending'[h] = IF request[h].wants = {} THEN {} ELSE {u \in Page : answer[u] # Nil}
  BY DEF ServingInv, TypeOK
<1>9. Fits(answer, request[h])
  BY <1>4 DEF Fits
<1>10. \A u \in Page : Aged(answer[u], now, 0) /\ Aged(answer[u], now, DocTtl - 1)
  BY <1>3, <1>4, ServingAssumption DEF Aged
<1>11. Filling(h)'
  BY <1>1, <1>8, <1>9, <1>10 DEF Filling, Fits, Permitted, Matches, HasContent, Aged
<1>12. ~hit[h]
  BY DEF ServingInv, HandlerOK, Answering
<1>13. HandlerOK(h)' /\ Evicting(h)'
  BY <1>8, <1>11, <1>12 DEF HandlerOK, Stashing, Answering, Answered, Evicting
<1> QED
  BY <1>1, <1>2, <1>6, <1>7, <1>13, DocsKept, HandlerStep

\* A content that is remembered when it comes makes a sound entry.
LEMMA RememberDocs ==
  ASSUME ServingInv, NEW u \in Page, NEW c \in Content, HasContent(c),
         c.at = now, Remember(u, c), now' = now
  PROVE  /\ docs' \in [Page -> DocEntry \union {Nil}]
         /\ \A v \in Page : DocOK(v)'
<1> DEFINE e == [body |-> c.body, snippets |-> c.snippets, at |-> c.at, stored_at |-> now]
<1>1. docs \in [Page -> DocEntry \union {Nil}] /\ now \in Nat
  BY DEF ServingInv, TypeOK
<1>2. e \in DocEntry /\ e.at = now /\ e.stored_at = now
  BY <1>1 DEF DocEntry, Content, HasContent
<1>3. docs' = [docs EXCEPT ![u] = e]
  BY DEF Remember
<1> HIDE DEF e
<1>4. docs' \in [Page -> DocEntry \union {Nil}]
  BY <1>1, <1>2, <1>3
<1>5. \A v \in Page : docs'[v] = IF v = u THEN e ELSE docs[v]
  BY <1>1, <1>3
<1>6. ASSUME NEW v \in Page PROVE DocOK(v)'
  BY <1>1, <1>2, <1>5 DEF ServingInv, DocOK
<1> QED
  BY <1>4, <1>6

LEMMA StashContentStep ==
  ASSUME ServingInv, NEW h \in Handler, NEW u \in Page, StashContent(h, u)
  PROVE  ServingInv'
<1> USE DEF StashContent, At, Looked
<1>1. SeedInv' /\ StartupTypeOK' /\ UNCHANGED <<phase, no_cache, cache, now>>
  BY ProcessKept
<1>2. phase = "serving"
  BY AtWork DEF Idle
<1>3. results[h][u] \in Content /\ now \in Nat
  BY DEF ServingInv, TypeOK, Results, HasContent
<1>4. results[h][u].at = now
  BY <1>3 DEF ServingInv, HandlerOK, Filling, Aged, Content
<1>5. /\ docs' \in [Page -> DocEntry \union {Nil}]
      /\ \A v \in Page : DocOK(v)'
  BY <1>3, <1>4, RememberDocs
<1>6. TypeOK'
  BY <1>1, <1>5 DEF ServingInv, TypeOK
<1>7. \A g \in Handler \ {h} : Unmoved(g)
  BY DEF ServingInv, TypeOK, Unmoved
<1>8. LookedAt(h)
  BY DEF ServingInv, TypeOK, LookedAt
<1>9. HandlerOK(h)'
  BY <1>1, <1>8, LookedAtOK DEF ServingInv
<1>10. Evicting(h)'
  BY DEF Evicting
<1> QED
  BY <1>1, <1>2, <1>5, <1>6, <1>7, <1>9, <1>10, HandlerStep

LEMMA BackfillStep ==
  ASSUME ServingInv, NEW h \in Handler, NEW u \in Page, Backfill(h, u)
  PROVE  ServingInv'
<1> USE DEF Backfill, At, Looked
<1> DEFINE c == [body |-> docs[u].body, snippets |-> docs[u].snippets, at |-> docs[u].at]
<1>1. SeedInv' /\ StartupTypeOK' /\ UNCHANGED <<phase, no_cache, cache, now>>
  BY ProcessKept
<1>2. phase = "serving"
  BY AtWork DEF Idle
<1>3. docs[u] \in DocEntry /\ now \in Nat
  BY DEF LiveDoc, ServingInv, TypeOK
<1>4. c \in Content /\ c # Nil
  BY <1>3, NilAssumption DEF DocEntry, Content
<1>5. Aged(c, now, DocTtl - 1)
  <2>1. docs[u].at \in Nat /\ docs[u].stored_at \in Nat /\ c.at = docs[u].at
    BY <1>3 DEF DocEntry
  <2>2. docs[u].at = docs[u].stored_at /\ docs[u].stored_at <= now
    BY DEF ServingInv, DocOK, LiveDoc
  <2>3. now - docs[u].stored_at < DocTtl
    BY <1>3, <2>1, ServingAssumption DEF LiveDoc, Expired
  <2> QED BY <1>3, <2>1, <2>2, <2>3, ServingAssumption DEF Aged
<1>6. results' = [results EXCEPT ![h] = [results[h] EXCEPT ![u] = c]]
  OBVIOUS
<1>7. Filling(h) /\ results[h] \in Results /\ results \in [Handler -> Results]
  BY DEF ServingInv, HandlerOK, TypeOK
<1> HIDE DEF c
<1> DEFINE res == [results[h] EXCEPT ![u] = c]
<1>8. res \in Results /\ \A v \in Page : res[v] = IF v = u THEN c ELSE results[h][v]
  BY <1>4, <1>7 DEF Results
<1>9. results' = [results EXCEPT ![h] = res]
  BY <1>6
<1> HIDE DEF res
<1>10. TypeOK'
  BY <1>1, <1>8, <1>9 DEF ServingInv, TypeOK
<1>11. \A g \in Handler \ {h} : Unmoved(g)
  BY <1>9 DEF ServingInv, TypeOK, Unmoved
<1>12. /\ pc'[h] = "filling" /\ hit'[h] = hit[h] /\ request'[h] = request[h]
       /\ winner'[h] = winner[h] /\ results'[h] = res
       /\ pending'[h] = pending[h] \ {u}
  BY <1>7, <1>9 DEF ServingInv, TypeOK
<1>13. Fits(res, request[h]) /\ request[h].wants # {}
  <2>1. results[h][u] # Nil /\ request[h].wants # {}
    BY <1>7 DEF Filling
  <2>2. u \in Permitted(request[h])
    BY <1>7, <2>1 DEF Filling, Fits
  <2>3. res # NoResults
    BY <1>4, <1>8, NothingTypes
  <2> QED BY <1>7, <1>8, <2>1, <2>2, <2>3 DEF Filling, Fits
<1>14. /\ \A v \in pending[h] \ {u} : res[v] # Nil /\ Aged(res[v], now, 0)
       /\ \A v \in Page : Aged(res[v], now, DocTtl - 1)
  <2>1. pending[h] \subseteq Page
    BY DEF ServingInv, TypeOK
  <2> QED BY <1>5, <1>7, <1>8, <2>1 DEF Filling
<1>15. Filling(h)'
  BY <1>1, <1>7, <1>12, <1>13, <1>14 DEF Filling, Fits, Permitted, Matches, HasContent, Aged
<1>16. ~hit[h]
  BY DEF ServingInv, HandlerOK, Answering
<1>17. HandlerOK(h)' /\ Evicting(h)'
  BY <1>12, <1>15, <1>16 DEF HandlerOK, Stashing, Answering, Answered, Evicting
<1> QED
  BY <1>1, <1>2, <1>10, <1>11, <1>17, DocsKept, HandlerStep

\* A handler that has looked at a page and found nothing to do.
LEMMA LookedStep ==
  ASSUME ServingInv, NEW h \in Handler, NEW u \in Page, pc[h] # "evicting",
         Looked(h, u), stale' \in [Handler -> Page \union {None}],
         UNCHANGED <<startupVars, cache, docs, pc, request, winner, results, hit, now>>
  PROVE  ServingInv'
<1> USE DEF Looked
<1>1. SeedInv' /\ StartupTypeOK' /\ UNCHANGED <<phase, no_cache, cache, now>>
  BY ProcessKept
<1>2. TypeOK'
  BY <1>1 DEF ServingInv, TypeOK
<1>3. \A g \in Handler \ {h} : Unmoved(g)
  BY DEF ServingInv, TypeOK, Unmoved
<1>4. LookedAt(h)
  BY DEF ServingInv, TypeOK, LookedAt
<1>5. HandlerOK(h)'
  BY <1>1, <1>4, LookedAtOK DEF ServingInv
<1>6. Evicting(h)'
  BY DEF Evicting
<1> QED
  BY <1>1, <1>2, <1>3, <1>5, <1>6, DocsKept, HandlerStep

LEMMA LookedSteps ==
  ASSUME ServingInv, NEW h \in Handler, NEW u \in Page,
         NothingToFill(h, u) \/ FindExpiredDoc(h, u) \/ MissDoc(h, u)
  PROVE  ServingInv'
<1>1. pc[h] # "evicting" /\ Looked(h, u)
  BY DEF NothingToFill, FindExpiredDoc, MissDoc, At
<1>2. stale' \in [Handler -> Page \union {None}]
  BY DEF NothingToFill, FindExpiredDoc, MissDoc, ServingInv, TypeOK
<1>3. UNCHANGED <<startupVars, cache, docs, pc, request, winner, results, hit, now>>
  BY DEF NothingToFill, FindExpiredDoc, MissDoc
<1> QED
  BY <1>1, <1>2, <1>3, LookedStep

LEMMA EvictDocStep ==
  ASSUME ServingInv, NEW h \in Handler, EvictDoc(h)
  PROVE  ServingInv'
<1> USE DEF EvictDoc
<1>1. SeedInv' /\ StartupTypeOK' /\ UNCHANGED <<phase, no_cache, cache, now>>
  BY ProcessKept
<1>2. stale[h] \in Page /\ docs \in [Page -> DocEntry \union {Nil}]
  BY DEF ServingInv, TypeOK
<1>3. /\ docs' \in [Page -> DocEntry \union {Nil}]
      /\ \A u \in Page : docs'[u] = Nil \/ docs'[u] = docs[u]
  BY <1>2
<1>4. \A u \in Page : DocOK(u)'
  BY <1>3 DEF ServingInv, DocOK
<1>5. TypeOK'
  BY <1>1, <1>3 DEF ServingInv, TypeOK
<1>6. \A g \in Handler : Unmoved(g)
  BY DEF Unmoved
<1>7. HandlerOK(h)' /\ Evicting(h)'
  BY <1>1, <1>6, UnmovedOK, UnmovedEvicting DEF ServingInv
<1> QED
  BY <1>1, <1>4, <1>5, <1>6, <1>7, HandlerStep

\* The step that puts an answer into the cache, or sends it uncached.
LEMMA StoreStep ==
  ASSUME ServingInv, NEW h \in Handler, Store(h)
  PROVE  ServingInv'
<1> USE DEF Store, Through
<1> DEFINE k == CacheKey(request[h])
           e == [results |-> results[h], provider |-> winner[h],
                 stored_at |-> now, ttl |-> request[h].ttl]
<1>1. SeedInv' /\ StartupTypeOK' /\ UNCHANGED <<phase, no_cache, now>>
  BY ProcessKept
<1>2. phase = "serving"
  BY AtWork DEF Idle
<1>3. request[h] \in Search /\ now \in Nat /\ cache \in [Keys -> CacheEntry \union {Nil}]
  BY DEF ServingInv, TypeOK, Idle
<1>4. /\ k \in Keys /\ \A res : Fits(res, k) <=> Fits(res, request[h])
      /\ request[h].ttl \in Nat /\ request[h].ttl <= MaxTtl
  BY <1>3, KeyTells, RequestTypes
<1>5. Filling(h) /\ winner[h] \in Provider /\ results[h] \in Results
  BY DEF ServingInv, HandlerOK, Filling, TypeOK
<1>6. /\ e \in CacheEntry /\ e # Nil
      /\ e.results = results[h] /\ e.provider = winner[h]
      /\ e.stored_at = now /\ e.ttl = request[h].ttl
  BY <1>3, <1>4, <1>5, NilAssumption DEF CacheEntry
<1>7. \/ cache' = cache
      \/ winner[h] \notin no_cache /\ cache' = [cache EXCEPT ![k] = e]
  OBVIOUS
<1> HIDE DEF k, e
<1>8. /\ cache' \in [Keys -> CacheEntry \union {Nil}]
      /\ \A j \in Keys :
           \/ cache'[j] = cache[j]
           \/ j = k /\ cache'[j] = e /\ winner[h] \notin no_cache
  BY <1>3, <1>4, <1>6, <1>7
<1>9. TypeOK'
  BY <1>1, <1>3, <1>8 DEF ServingInv, TypeOK
<1>10. ASSUME NEW j \in Keys PROVE EntryOK(j)'
  <2>1. CASE cache'[j] = cache[j]
    BY <2>1, <1>1 DEF ServingInv, EntryOK, Aged, Fits, Permitted, Matches, HasContent
  <2>2. CASE j = k /\ cache'[j] = e /\ winner[h] \notin no_cache
    <3>1. Fits(e.results, k)
      BY <1>4, <1>5, <1>6 DEF Filling
    <3>2. \A u \in Page : Aged(e.results[u], e.stored_at, DocTtl - 1)
      BY <1>5, <1>6 DEF Filling
    <3>3. e.provider \notin no_cache /\ e.stored_at <= now /\ e.ttl <= MaxTtl
      BY <1>3, <1>4, <1>6, <2>2
    <3> QED
      BY <1>1, <2>2, <3>1, <3>2, <3>3
      DEF EntryOK, Aged, Fits, Permitted, Matches, HasContent
  <2> QED BY <1>8, <2>1, <2>2
<1>11. /\ pc'[h] = "answered" /\ hit'[h] = hit[h] /\ request'[h] = request[h]
       /\ winner'[h] = winner[h] /\ results'[h] = results[h]
  BY DEF ServingInv, TypeOK
<1>12. ~hit[h]
  BY DEF ServingInv, HandlerOK, Answering
<1>13. \A u \in Page : Aged(results[h][u], now, (DocTtl - 1) + (MaxTtl - 1))
  <2> SUFFICES ASSUME NEW u \in Page, HasContent(results[h][u])
               PROVE  /\ results[h][u].at <= now
                      /\ now - results[h][u].at <= (DocTtl - 1) + (MaxTtl - 1)
    BY DEF Aged
  <2>1. results[h][u].at \in Nat
    BY <1>5 DEF Results, Content, HasContent
  <2>2. results[h][u].at <= now /\ now - results[h][u].at <= DocTtl - 1
    BY <1>5 DEF Filling, Aged
  <2> QED BY <1>3, <2>1, <2>2, ServingAssumption
<1>14. Answering(h)'
  BY <1>1, <1>5, <1>11, <1>12, <1>13
  DEF Filling, Answering, Answered, Fits, Permitted, Matches, HasContent, Aged
<1>15. ASSUME NEW g \in Handler PROVE HandlerOK(g)'
  <2>1. CASE g = h
    BY <2>1, <1>11, <1>14 DEF HandlerOK, Filling, Stashing
  <2>2. CASE g # h
    <3>1. Unmoved(g)
      BY <2>2 DEF ServingInv, TypeOK, Unmoved
    <3> QED BY <3>1, <1>1, UnmovedOK DEF ServingInv
  <2> QED BY <2>1, <2>2
<1>16. ASSUME NEW g \in Handler PROVE Evicting(g)'
  <2> SUFFICES ASSUME pc'[g] = "evicting", LiveAnswer(CacheKey(request[g]))'
               PROVE  cache'[CacheKey(request[g])].stored_at = now
    BY <1>1 DEF Evicting, CacheKey
  <2>1. pc[g] = "evicting"
    BY <1>11 DEF ServingInv, TypeOK
  <2>2. request[g] \in Search /\ CacheKey(request[g]) \in Keys
    BY <2>1, KeyTells DEF ServingInv, TypeOK, Idle
  <2> DEFINE j == CacheKey(request[g])
  <2>3. LiveAnswer(j)'
    BY DEF LiveAnswer, CacheKey, Expired
  <2> HIDE DEF j
  <2>4. CASE cache'[j] = cache[j]
    BY <2>1, <2>3, <2>4, <1>1 DEF ServingInv, Evicting, LiveAnswer, Expired, j
  <2>5. CASE cache'[j] = e
    BY <2>5, <1>6 DEF j
  <2> QED BY <2>2, <2>4, <2>5, <1>8 DEF j
<1>17. \A u \in Page : DocOK(u)'
  BY DocsKept
<1>18. Quiet'
  BY <1>1, <1>2 DEF Quiet
<1> QED
  BY <1>1, <1>9, <1>10, <1>15, <1>16, <1>17, <1>18 DEF ServingInv

LEMMA EvictAnswerStep ==
  ASSUME ServingInv, NEW h \in Handler, EvictAnswer(h)
  PROVE  ServingInv'
<1> USE DEF EvictAnswer, AskExecutor
<1> DEFINE k == CacheKey(request[h])
<1>1. SeedInv' /\ StartupTypeOK' /\ UNCHANGED <<phase, no_cache, now>>
  BY ProcessKept
<1>2. phase = "serving"
  BY AtWork DEF Idle
<1>3. request[h] \in Search /\ cache \in [Keys -> CacheEntry \union {Nil}]
  BY DEF ServingInv, TypeOK, Idle
<1>4. k \in Keys
  BY <1>3, KeyTells
<1> HIDE DEF k
<1>5. /\ cache' \in [Keys -> CacheEntry \union {Nil}]
      /\ \A j \in Keys : cache'[j] = cache[j] \/ cache'[j] = Nil
  BY <1>3, <1>4 DEF k
<1>6. TypeOK'
  BY <1>1, <1>3, <1>5 DEF ServingInv, TypeOK, Pool, SeedInv, StartupTypeOK
<1>7. ASSUME NEW j \in Keys PROVE EntryOK(j)'
  BY <1>1, <1>5 DEF ServingInv, EntryOK, Aged, Fits, Permitted, Matches, HasContent
<1>8. pc'[h] = "searching" /\ hit'[h] = hit[h] /\ ~hit[h]
  BY DEF ServingInv, TypeOK, HandlerOK, Answering
<1>9. ASSUME NEW g \in Handler PROVE HandlerOK(g)'
  <2>1. CASE g = h
    BY <2>1, <1>8 DEF HandlerOK, Filling, Stashing, Answering, Answered
  <2>2. CASE g # h
    <3>1. Unmoved(g)
      BY <2>2 DEF ServingInv, TypeOK, Unmoved
    <3> QED BY <3>1, <1>1, UnmovedOK DEF ServingInv
  <2> QED BY <2>1, <2>2
<1>10. ASSUME NEW g \in Handler PROVE Evicting(g)'
  <2> SUFFICES ASSUME pc'[g] = "evicting", LiveAnswer(CacheKey(request[g]))'
               PROVE  cache'[CacheKey(request[g])].stored_at = now
    BY <1>1 DEF Evicting, CacheKey
  <2>1. pc[g] = "evicting"
    BY <1>8 DEF ServingInv, TypeOK
  <2> DEFINE j == CacheKey(request[g])
  <2>2. j \in Keys
    BY <2>1, KeyTells DEF ServingInv, TypeOK, Idle
  <2>3. LiveAnswer(j)'
    BY DEF LiveAnswer, CacheKey, Expired
  <2> HIDE DEF j
  <2>4. cache'[j] = cache[j]
    BY <2>2, <2>3, <1>5 DEF LiveAnswer, j, CacheKey
  <2> QED
    BY <2>1, <2>3, <2>4, <1>1 DEF ServingInv, Evicting, LiveAnswer, Expired, j
<1>11. \A u \in Page : DocOK(u)'
  BY DocsKept
<1>12. Quiet'
  BY <1>1, <1>2 DEF Quiet
<1> QED
  BY <1>1, <1>6, <1>7, <1>9, <1>10, <1>11, <1>12 DEF ServingInv

LEMMA DemandStep ==
  ASSUME ServingInv, NEW h \in Handler, NEW r \in Fetch, Demand(h, r)
  PROVE  ServingInv'
<1> USE DEF Demand
<1>1. /\ SeedInv' /\ phase = "serving" /\ UNCHANGED <<phase, no_cache, cache, now>>
      /\ ~hit[h] /\ StartupTypeOK'
  BY ArriveSeed DEF SeedInv
<1>2. TypeOK'
  BY <1>1, RequestTypes DEF ServingInv, TypeOK, Arrive
<1>3. \A g \in Handler \ {h} : Unmoved(g)
  BY DEF ServingInv, TypeOK, Arrive, Unmoved
<1>4. pc'[h] = "looking" /\ hit'[h] = hit[h]
  BY DEF ServingInv, TypeOK
<1>5. HandlerOK(h)' /\ Evicting(h)'
  BY <1>1, <1>4 DEF HandlerOK, Filling, Stashing, Answering, Answered, Evicting
<1> QED
  BY <1>1, <1>2, <1>3, <1>5, DocsKept, HandlerStep

LEMMA ServeDocStep ==
  ASSUME ServingInv, NEW h \in Handler, NEW u \in Page, ServeDoc(h, u)
  PROVE  ServingInv'
<1> USE DEF ServeDoc, At, Looked
<1> DEFINE c == [body |-> docs[u].body, snippets |-> FALSE, at |-> docs[u].at]
<1>1. SeedInv' /\ StartupTypeOK' /\ UNCHANGED <<phase, no_cache, cache, now>>
  BY ProcessKept
<1>2. phase = "serving"
  BY AtWork DEF Idle
<1>3. docs[u] \in DocEntry
  BY DEF LiveDoc, ServingInv, TypeOK
<1>4. c \in Content
  BY <1>3 DEF DocEntry, Content
<1>5. results' = [results EXCEPT ![h] = [results[h] EXCEPT ![u] = c]]
  OBVIOUS
<1>6. results[h] \in Results /\ results \in [Handler -> Results]
  BY DEF ServingInv, TypeOK
<1> HIDE DEF c
<1>7. [results[h] EXCEPT ![u] = c] \in Results
  BY <1>4, <1>6 DEF Results
<1>8. results' \in [Handler -> Results] /\ \A g \in Handler \ {h} : results'[g] = results[g]
  BY <1>5, <1>6, <1>7
<1>9. TypeOK'
  BY <1>1, <1>8 DEF ServingInv, TypeOK
<1>10. \A g \in Handler \ {h} : Unmoved(g)
  BY <1>8 DEF ServingInv, TypeOK, Unmoved
<1>11. pc'[h] = "looking" /\ ~hit'[h]
  BY DEF ServingInv, HandlerOK, Answering
<1>12. HandlerOK(h)' /\ Evicting(h)'
  BY <1>11 DEF HandlerOK, Filling, Stashing, Answering, Answered, Evicting
<1> QED
  BY <1>1, <1>2, <1>9, <1>10, <1>12, DocsKept, HandlerStep

LEMMA SendFetchStep ==
  ASSUME ServingInv, NEW h \in Handler, SendFetch(h) \/ EndContents(h)
  PROVE  ServingInv'
<1> USE DEF SendFetch, EndContents, Through
<1>1. SeedInv' /\ StartupTypeOK' /\ UNCHANGED <<phase, no_cache, cache, now>>
  BY ProcessKept
<1>2. phase = "serving"
  BY AtWork DEF Idle
<1>3. request[h] \in Fetch /\ request'[h] = request[h] /\ ~hit[h]
  BY DEF ServingInv, TypeOK, Idle, HandlerOK, Answering
<1>4. TypeOK'
  BY <1>1, <1>3 DEF ServingInv, TypeOK
<1>5. \A g \in Handler \ {h} : Unmoved(g)
  BY DEF ServingInv, TypeOK, Unmoved
<1>6. pc'[h] \in {"fetching", "answered"} /\ ~hit'[h]
  BY <1>3 DEF ServingInv, TypeOK
<1>7. HandlerOK(h)' /\ Evicting(h)'
  BY <1>3, <1>6, Apart DEF HandlerOK, Filling, Stashing, Answering, Answered, Evicting
<1>8. UNCHANGED <<docs, now>>
  OBVIOUS
<1> QED
  BY <1>1, <1>2, <1>4, <1>5, <1>7, <1>8, DocsKept, HandlerStep

LEMMA FetchedStep ==
  ASSUME ServingInv, NEW h \in Handler, NEW urls \in SUBSET Page,
         NEW bodies \in [urls -> Format \union {None}], Fetched(h, bodies)
  PROVE  ServingInv'
<1> USE DEF Fetched
<1> DEFINE res == [u \in Page |->
                    IF u \notin DOMAIN bodies THEN results[h][u]
                    ELSE IF bodies[u] = None THEN Nothing
                    ELSE [body |-> bodies[u], snippets |-> FALSE, at |-> now]]
<1>1. SeedInv' /\ StartupTypeOK' /\ UNCHANGED <<phase, no_cache, cache, now>>
  BY ProcessKept
<1>2. phase = "serving"
  BY AtWork DEF Idle
<1>3. /\ now \in Nat /\ results[h] \in Results /\ results \in [Handler -> Results]
      /\ request[h] \in Fetch /\ ~hit[h] /\ DOMAIN bodies = urls
  BY DEF ServingInv, TypeOK, Idle, HandlerOK, Answering
<1>4. \A u \in urls : bodies[u] # None =>
        [body |-> bodies[u], snippets |-> FALSE, at |-> now] \in Content
  BY <1>3 DEF Content
<1>5. res \in Results
  BY <1>3, <1>4, NothingTypes DEF Results
<1>6. \A u \in urls :
        bodies[u] # None => res[u] \in Content /\ res[u].at = now /\ res[u].body # None
  BY <1>3, <1>4
<1>7. results' = [results EXCEPT ![h] = res]
  OBVIOUS
<1> HIDE DEF res
<1>8. pending'[h] = {u \in urls : bodies[u] # None} /\ pending' \in [Handler -> SUBSET Page]
  BY <1>3 DEF ServingInv, TypeOK
<1>9. results' \in [Handler -> Results] /\ results'[h] = res
  BY <1>3, <1>5, <1>7
<1>10. TypeOK'
  BY <1>1, <1>3, <1>8, <1>9 DEF ServingInv, TypeOK
<1>11. \A g \in Handler \ {h} : Unmoved(g)
  BY <1>3, <1>7 DEF ServingInv, TypeOK, Unmoved
<1>12. pc'[h] = "stashing" /\ ~hit'[h]
  BY <1>3 DEF ServingInv, TypeOK
<1>13. Stashing(h)'
  BY <1>1, <1>6, <1>8, <1>9, NilAssumption DEF Stashing, HasContent
<1>14. HandlerOK(h)' /\ Evicting(h)'
  BY <1>12, <1>13 DEF HandlerOK, Filling, Answering, Answered, Evicting
<1>15. UNCHANGED <<docs, now>>
  OBVIOUS
<1> QED
  BY <1>1, <1>2, <1>10, <1>11, <1>14, <1>15, DocsKept, HandlerStep

LEMMA StashBodyStep ==
  ASSUME ServingInv, NEW h \in Handler, NEW u \in Page, StashBody(h, u)
  PROVE  ServingInv'
<1> USE DEF StashBody, At, Looked
<1>1. SeedInv' /\ StartupTypeOK' /\ UNCHANGED <<phase, no_cache, cache, now>>
  BY ProcessKept
<1>2. phase = "serving"
  BY AtWork DEF Idle
<1>3. results[h][u] \in Content /\ HasContent(results[h][u]) /\ results[h][u].at = now
  BY DEF ServingInv, TypeOK, Results, HandlerOK, Stashing, HasContent
<1>4. /\ docs' \in [Page -> DocEntry \union {Nil}]
      /\ \A v \in Page : DocOK(v)'
  BY <1>3, RememberDocs
<1>5. TypeOK'
  BY <1>1, <1>4 DEF ServingInv, TypeOK
<1>6. \A g \in Handler \ {h} : Unmoved(g)
  BY DEF ServingInv, TypeOK, Unmoved
<1>7. LookedAt(h)
  BY DEF ServingInv, TypeOK, LookedAt
<1>8. HandlerOK(h)'
  BY <1>1, <1>7, LookedAtOK DEF ServingInv
<1>9. Evicting(h)'
  BY DEF Evicting
<1> QED
  BY <1>1, <1>2, <1>4, <1>5, <1>6, <1>8, <1>9, HandlerStep

\* All a handler may do.
LEMMA HandlersNext ==
  ASSUME ServingInv, NEW h \in Handler, SearchStep(h) \/ ContentsStep(h)
  PROVE  ServingInv'
<1>1. ASSUME NEW r \in Search,
             SearchMisses(h, r) \/ SearchFindsExpired(h, r) \/ SearchHits(h, r)
      PROVE  ServingInv'
  BY <1>1, SearchMissesStep, SearchFindsExpiredStep, SearchHitsStep
<1>2. CASE EvictAnswer(h) \/ Finish(h) \/ Store(h) \/ EvictDoc(h)
  BY <1>2, EvictAnswerStep, FinishStep, StoreStep, EvictDocStep
<1>3. ASSUME NEW answer \in [Page -> (IF pc[h] = "searching" /\ winner[h] # None
                                     THEN ContentFrom(winner[h], request[h]) ELSE {})
                                    \union {Nil}],
             SearchAnswered(h, answer)
      PROVE  ServingInv'
  <2>1. answer \in [Page -> ContentFrom(winner[h], request[h]) \union {Nil}]
    BY <1>3 DEF SearchAnswered
  <2> QED BY <1>3, <2>1, SearchAnsweredStep
<1>4. ASSUME NEW u \in Page,
             StashContent(h, u) \/ Backfill(h, u) \/ NothingToFill(h, u)
               \/ FindExpiredDoc(h, u)
      PROVE  ServingInv'
  BY <1>4, StashContentStep, BackfillStep, LookedSteps
<1>5. ASSUME NEW r \in Fetch, Demand(h, r) PROVE ServingInv'
  BY <1>5, DemandStep
<1>6. ASSUME NEW u \in Page, ServeDoc(h, u) \/ MissDoc(h, u) \/ StashBody(h, u)
      PROVE  ServingInv'
  BY <1>6, ServeDocStep, LookedSteps, StashBodyStep
<1>7. CASE SendFetch(h) \/ EndContents(h)
  BY <1>7, SendFetchStep
<1>8. ASSUME NEW urls \in SUBSET Page, NEW bodies \in [urls -> Format \union {None}],
             Fetched(h, bodies)
      PROVE  ServingInv'
  BY <1>8, FetchedStep
<1>9. CASE SearchStep(h)
  BY <1>9, <1>1, <1>2, <1>3, <1>4 DEF SearchStep
<1>10. CASE ContentsStep(h)
  BY <1>10, <1>5, <1>6, <1>7, <1>8 DEF ContentsStep
<1> QED
  BY <1>9, <1>10

\* A process that serves goes on serving, with the providers it does not cache.
LEMMA ServesOn ==
  StartupNext /\ phase = "serving" => phase' = "serving" /\ no_cache' = no_cache
BY DEF StartupNext, Open, Build, Serve, Seeding, ListProviders, ListKeys, LeaveProvider,
       SkipProvider, KnowProvider, RegisterProvider, GiveUpProvider, Visit, SeedKey,
       Administration, Refresh, CreateProvider, SetActive, CreateKey, UpdateKey, DeleteKey,
       ReviveKey, RenameKey, Called, memory

LEMMA AroundStep == ServingInv /\ Around => ServingInv'
<1> SUFFICES ASSUME ServingInv, Around PROVE ServingInv'
  OBVIOUS
<1> USE DEF Around, servingVars, handler
<1>1. SeedInv' /\ StartupTypeOK'
  BY SeedInvNext DEF ServingInv, SeedInv
<1>2. TypeOK'
  BY <1>1 DEF ServingInv, TypeOK
<1>3. \A u \in Page : DocOK(u)'
  BY DocsKept
<1>4. \A h \in Handler : Unmoved(h)
  BY DEF Unmoved
<1>5. \A h \in Handler : Evicting(h)'
  BY <1>4, UnmovedEvicting DEF ServingInv
<1>6. CASE phase = "serving"
  <2>1. phase' = "serving" /\ no_cache' = no_cache
    BY <1>6, ServesOn
  <2>2. \A h \in Handler : HandlerOK(h)'
    BY <1>4, <2>1, UnmovedOK DEF ServingInv
  <2>3. \A k \in Keys : EntryOK(k)'
    BY <2>1, EntriesKept DEF ServingInv
  <2> QED BY <1>1, <1>2, <1>3, <1>5, <2>1, <2>2, <2>3 DEF ServingInv, Quiet
<1>7. CASE phase # "serving"
  <2>1. /\ \A h \in Handler : pc[h] = Idle /\ ~hit[h]
        /\ \A k \in Keys : cache[k] = Nil
    BY <1>7 DEF ServingInv, Quiet
  <2>2. \A h \in Handler : HandlerOK(h)'
    BY <2>1 DEF HandlerOK, Filling, Stashing, Answering, Answered, Idle
  <2>3. \A k \in Keys : EntryOK(k)'
    BY <2>1 DEF EntryOK
  <2>4. Quiet'
    BY <2>1 DEF Quiet
  <2> QED BY <1>1, <1>2, <1>3, <1>5, <2>2, <2>3, <2>4 DEF ServingInv
<1> QED
  BY <1>6, <1>7

LEMMA DieStep == ServingInv /\ Die => ServingInv'
<1> SUFFICES ASSUME ServingInv, Die PROVE ServingInv'
  OBVIOUS
<1> USE DEF Die
<1>1. SeedInv' /\ StartupTypeOK'
  BY CrashSeed DEF ServingInv, SeedInv
<1>2. TypeOK'
  BY <1>1, NothingTypes DEF ServingInv, TypeOK
<1>3. \A h \in Handler : pc'[h] = Idle /\ ~hit'[h]
  OBVIOUS
<1>4. \A h \in Handler : HandlerOK(h)' /\ Evicting(h)'
  BY <1>3 DEF HandlerOK, Filling, Stashing, Answering, Answered, Evicting, Idle
<1>5. \A k \in Keys : cache'[k] = Nil
  OBVIOUS
<1>6. (\A k \in Keys : EntryOK(k)') /\ Quiet'
  BY <1>3, <1>5 DEF EntryOK, Quiet
<1>7. \A u \in Page : DocOK(u)'
  BY DEF DocOK
<1> QED
  BY <1>1, <1>2, <1>4, <1>6, <1>7 DEF ServingInv

\* Time passes while no handler is between an executor and its answer.
LEMMA TickStep == ServingInv /\ Tick => ServingInv'
<1> SUFFICES ASSUME ServingInv, Tick PROVE ServingInv'
  OBVIOUS
<1> USE DEF Tick, handler
<1>1. SeedInv' /\ StartupTypeOK' /\ UNCHANGED <<phase, no_cache, cache>>
  BY ProcessKept
<1>2. now \in Nat /\ now' = now + 1 /\ now' \in Nat
  BY DEF ServingInv, TypeOK
<1>3. TypeOK'
  BY <1>1, <1>2 DEF ServingInv, TypeOK
<1>4. Quiet'
  BY <1>1 DEF ServingInv, Quiet
<1>5. ASSUME NEW k \in Keys PROVE EntryOK(k)'
  <2> SUFFICES ASSUME cache[k] # Nil PROVE EntryOK(k)'
    BY <1>1 DEF EntryOK
  <2>1. cache[k].stored_at \in Nat
    BY DEF ServingInv, TypeOK, CacheEntry
  <2>2. cache[k].stored_at <= now'
    BY <1>2, <2>1 DEF ServingInv, EntryOK
  <2> QED
    BY <1>1, <2>2 DEF ServingInv, EntryOK, Aged, Fits, Permitted, Matches, HasContent
<1>6. ASSUME NEW u \in Page PROVE DocOK(u)'
  <2> SUFFICES ASSUME docs[u] # Nil PROVE DocOK(u)'
    BY DEF DocOK
  <2>1. docs[u].stored_at \in Nat
    BY DEF ServingInv, TypeOK, DocEntry
  <2> QED BY <1>2, <2>1 DEF ServingInv, DocOK
<1>7. ASSUME NEW h \in Handler PROVE HandlerOK(h)' /\ Evicting(h)'
  <2>1. pc'[h] \in {Idle, "searching", "fetching"} /\ pc'[h] = pc[h] /\ hit'[h] = hit[h]
    OBVIOUS
  <2>2. ~hit[h]
    BY <2>1 DEF ServingInv, HandlerOK, Answering, Idle
  <2> QED
    BY <2>1, <2>2 DEF HandlerOK, Filling, Stashing, Answering, Answered, Evicting, Idle
<1> QED
  BY <1>1, <1>3, <1>4, <1>5, <1>6, <1>7 DEF ServingInv

LEMMA InitServing == Init => ServingInv
<1> SUFFICES ASSUME Init PROVE ServingInv
  OBVIOUS
<1> USE DEF Init
<1>1. SeedInv /\ StartupTypeOK
  BY SeedInvInit DEF SeedInv
<1>2. TypeOK
  BY <1>1, NothingTypes DEF TypeOK
<1>3. \A h \in Handler : HandlerOK(h) /\ Evicting(h)
  BY DEF HandlerOK, Filling, Stashing, Answering, Answered, Evicting, Idle
<1>4. Quiet /\ (\A k \in Keys : EntryOK(k)) /\ (\A u \in Page : DocOK(u))
  BY DEF Quiet, EntryOK, DocOK
<1> QED
  BY <1>1, <1>2, <1>3, <1>4 DEF ServingInv

LEMMA StutterServing == ServingInv /\ UNCHANGED vars => ServingInv'
<1> SUFFICES ASSUME ServingInv, UNCHANGED vars PROVE ServingInv'
  OBVIOUS
<1> USE DEF vars, servingVars, handler
<1>1. SeedInv' /\ StartupTypeOK' /\ UNCHANGED <<phase, no_cache>>
  BY ProcessKept
<1>2. TypeOK' /\ Quiet'
  BY <1>1 DEF ServingInv, TypeOK, Quiet
<1>3. \A h \in Handler : HandlerOK(h)' /\ Evicting(h)'
  BY <1>1, UnmovedOK, UnmovedEvicting DEF ServingInv, Unmoved
<1> QED
  BY <1>1, <1>2, <1>3, DocsKept, EntriesKept DEF ServingInv

LEMMA NextServing == ServingInv /\ [Next]_vars => ServingInv'
BY AroundStep, DieStep, TickStep, HandlersNext, StutterServing DEF Next

LEMMA ServingInvariance == Spec => []ServingInv
BY InitServing, NextServing, PTL DEF Spec
-----------------------------------------------------------------------------
(* Theorems *)

\* Every variable keeps its range, through starts, deaths and requests.
THEOREM TypeCorrect == Spec => []TypeOK
<1>1. ServingInv => TypeOK
  BY DEF ServingInv
<1> QED BY ServingInvariance, <1>1, PTL

\* The process seeds alone: until it serves only its own steps touch the tables.
LEMMA SeedsAlone ==
  ASSUME ServingInv, Next, phase = "seeding"
  PROVE  Seeding \/ Serve \/ Crash \/ UNCHANGED startupVars
<1>1. CASE Around
  BY <1>1 DEF Around, StartupNext, Open, Build, Administration, Refresh, CreateProvider,
     SetActive, CreateKey, UpdateKey, DeleteKey, ReviveKey, RenameKey, Called
<1>2. CASE Die \/ Tick
  BY <1>2 DEF Die, Tick
<1>3. ASSUME NEW h \in Handler, SearchStep(h) PROVE UNCHANGED startupVars
  BY <1>3 DEF SearchStep, SearchMisses, SearchFindsExpired, SearchHits, Arrive, Called,
     EvictAnswer, Finish, Store, EvictDoc, SearchAnswered, StashContent, Backfill,
     NothingToFill, FindExpiredDoc
<1>4. ASSUME NEW h \in Handler, ContentsStep(h) PROVE UNCHANGED startupVars
  BY <1>4 DEF ContentsStep, Demand, Arrive, Called, ServeDoc, MissDoc, StashBody,
     SendFetch, EndContents, Fetched
<1> QED
  BY <1>1, <1>2, <1>3, <1>4 DEF Next

\* When a seed in which no statement failed is done every configured key is there,
\* wherever earlier processes died and whatever was done to the tables since; and
\* a seed inserts only keys that are missing, unless it could not list them.
THEOREM SeedDone == Spec => SeedConverges
<1> DEFINE Complete ==
             phase = "seeding" /\ phase' = "serving" /\ clean =>
               \A p \in Provider : \A r \in KeyRefs(p) :
                 providers[p] # "absent" /\ HasRow(keys, p, r)
           Missing ==
             phase = "seeding" /\ ~blind /\ keys' # keys =>
               \E p \in Provider : \E r \in KeyRefs(p) :
                 ~HasRow(keys, p, r) /\ keys' = Append(keys, NewKey(p, r))
<1>1. ServingInv /\ [Next]_vars => Complete
  <2> SUFFICES ASSUME ServingInv, [Next]_vars, phase = "seeding", phase' = "serving", clean
               PROVE  \A p \in Provider : \A r \in KeyRefs(p) : Configured(p, r)
    BY DEF Configured
  <2>1. Seeding \/ Serve \/ Crash \/ UNCHANGED startupVars
    BY SeedsAlone DEF vars
  <2>2. Serve
    BY <2>1 DEF Seeding, ListProviders, ListKeys, LeaveProvider, SkipProvider,
       KnowProvider, RegisterProvider, GiveUpProvider, Visit, SeedKey, Crash, startupVars
  <2> QED BY <2>2 DEF Serve, ServingInv, SeedInv, SeedProgress, OneInHand
<1>2. ServingInv /\ [Next]_vars => Missing
  <2> SUFFICES ASSUME ServingInv, [Next]_vars, phase = "seeding", ~blind, keys' # keys
               PROVE  \E p \in Provider : \E r \in KeyRefs(p) :
                        ~HasRow(keys, p, r) /\ keys' = Append(keys, NewKey(p, r))
    OBVIOUS
  <2>1. Seeding \/ Serve \/ Crash \/ UNCHANGED startupVars
    BY SeedsAlone DEF vars
  <2>2. PICK r \in Ref : SeedKey(r) /\ <<current, r>> \notin pairs /\ InsertKey(current, r)
    BY <2>1 DEF Seeding, ListProviders, ListKeys, LeaveProvider, SkipProvider,
       KnowProvider, RegisterProvider, GiveUpProvider, InsertProvider, Visit, SeedKey,
       Serve, Crash, startupVars, tables
  <2>3. current \in Provider /\ r \in refs /\ r \in KeyRefs(current)
    BY <2>2 DEF SeedKey, ServingInv, SeedInv, StartupTypeOK, OneInHand
  <2>4. ~HasRow(keys, current, r)
    BY <2>2, <2>3 DEF ServingInv, SeedInv, RowsAccounted
  <2> QED BY <2>2, <2>3, <2>4 DEF InsertKey
<1>3. ServingInv /\ [Next]_vars => [Complete /\ Missing]_startupVars
  BY <1>1, <1>2
<1> QED
  BY ServingInvariance, <1>3, PTL DEF Spec, SeedConverges

\* No answer shows content that is older than both caches may keep it, together.
THEOREM ContentStaysFresh == Spec => []ContentFresh
<1>1. ServingInv => ContentFresh
  BY DEF ServingInv, HandlerOK, Answering, Aged, ContentFresh
<1> QED BY ServingInvariance, <1>1, PTL

\* Wherever an answer comes from, it lies inside the domains asked for, has
\* content only if some was wanted, and is not empty if that was ruled out.
THEOREM AnswersFit == Spec => []AnswerFitsRequest
<1>1. ServingInv => AnswerFitsRequest
  BY DEF ServingInv, HandlerOK, Answering, Fits, AnswerFitsRequest
<1> QED BY ServingInvariance, <1>1, PTL

\* A hit of a provider that must not be cached comes from the process that
\* registered the provider, and from no other.
THEOREM OnlyFirstProcessCaches == Spec => []HitsCacheable
<1>1. ServingInv => HitsCacheable
  <2> SUFFICES ASSUME ServingInv, NEW h \in Handler,
                      Answered(h), hit[h], winner[h] \in marked
               PROVE  winner[h] \in registered
    BY DEF HitsCacheable
  <2>1. phase = "serving"
    BY DEF ServingInv, Quiet
  <2>2. winner[h] \notin no_cache
    BY DEF ServingInv, HandlerOK, Answering
  <2>3. MarkedNotCached
    BY DEF ServingInv, SeedInv
  <2> QED BY <2>1, <2>2, <2>3 DEF MarkedNotCached
<1> QED BY ServingInvariance, <1>1, PTL

\* A live answer goes away with the process, or when a reader removes what it
\* takes for the expired entry, which another has replaced at that moment.
THEOREM LiveEntriesLost == Spec => LiveEntryLostToRace
<1> DEFINE Lost(k) ==
             \/ phase' = "down"
             \/ \E h \in Handler : pc[h] = "evicting" /\ CacheKey(request[h]) = k
                                   /\ cache[k].stored_at = now
<1>1. ASSUME ServingInv, [Next]_vars, NEW k \in Keys, LiveAnswer(k), cache'[k] = Nil
      PROVE  Lost(k)
  <2>1. cache[k] # Nil
    BY <1>1 DEF LiveAnswer
  <2>2. CASE UNCHANGED cache
    BY <1>1, <2>1, <2>2
  <2>3. CASE Die
    BY <2>3 DEF Die, Crash
  <2>4. ASSUME NEW h \in Handler, EvictAnswer(h) PROVE Lost(k)
    <3>1. pc[h] = "evicting" /\ request[h] \in Search
      BY <1>1, <2>4 DEF EvictAnswer, ServingInv, TypeOK, Idle
    <3>2. k = CacheKey(request[h])
      BY <1>1, <2>1, <2>4 DEF EvictAnswer, ServingInv, TypeOK
    <3>3. cache[k].stored_at = now
      BY <1>1, <3>1, <3>2 DEF ServingInv, Evicting
    <3> QED BY <3>1, <3>2, <3>3
  <2>5. ASSUME NEW h \in Handler, Store(h) PROVE FALSE
    <3> DEFINE e == [results |-> results[h], provider |-> winner[h],
                     stored_at |-> now, ttl |-> request[h].ttl]
    <3>1. request[h] \in Search /\ now \in Nat /\ winner[h] \in Provider
          /\ results[h] \in Results /\ cache \in [Keys -> CacheEntry \union {Nil}]
      BY <1>1, <2>5 DEF Store, Through, ServingInv, TypeOK, Idle, HandlerOK, Filling
    <3>2. e \in CacheEntry
      BY <3>1, RequestTypes DEF CacheEntry
    <3>3. e # Nil
      BY <3>2, NilAssumption
    <3> HIDE DEF e
    <3>4. cache' = cache \/ cache' = [cache EXCEPT ![CacheKey(request[h])] = e]
      BY <2>5 DEF Store, e
    <3> QED BY <1>1, <2>1, <3>1, <3>3, <3>4
  <2>6. CASE Around \/ Tick \/ UNCHANGED vars
    <3>1. UNCHANGED cache
      BY <2>6 DEF Around, Tick, vars, servingVars
    <3> QED BY <2>2, <3>1
  <2>7. ASSUME NEW h \in Handler, SearchStep(h) PROVE Lost(k)
    <3>1. UNCHANGED cache \/ EvictAnswer(h) \/ Store(h)
      BY <2>7 DEF SearchStep, SearchMisses, SearchFindsExpired, SearchHits, Finish,
         EvictDoc, SearchAnswered, StashContent, Backfill, NothingToFill, FindExpiredDoc
    <3> QED BY <2>2, <2>4, <2>5, <3>1
  <2>8. ASSUME NEW h \in Handler, ContentsStep(h) PROVE Lost(k)
    <3>1. UNCHANGED cache
      BY <2>8 DEF ContentsStep, Demand, ServeDoc, MissDoc, StashBody, SendFetch,
         EndContents, Fetched
    <3> QED BY <2>2, <3>1
  <2> QED BY <1>1, <2>3, <2>6, <2>7, <2>8 DEF Next
<1>2. ServingInv /\ [Next]_vars =>
        \A k \in Keys : LiveAnswer(k) /\ cache'[k] = Nil => Lost(k)
  BY <1>1
<1> QED
  BY ServingInvariance, <1>2, PTL DEF Spec, LiveEntryLostToRace
=============================================================================
