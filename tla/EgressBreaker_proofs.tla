------------------------- MODULE EgressBreaker_proofs -------------------------
(***************************************************************************)
(* What the breakers of the bridge guarantee, for any threads, engines,    *)
(* proxies, orders and routes.                                             *)
(*                                                                         *)
(* The invariant says which breakers a thread holds (Holding), that a      *)
(* lease belongs to one of the holders and, until somebody else finishes   *)
(* the breaker, to a single one (Leases), and how far the locals of a      *)
(* search have come (Locals).                                              *)
(***************************************************************************)
EXTENDS EgressBreaker, TLAPS, FiniteSetTheorems, SequenceTheorems

BreakerTypes ==
  /\ breaker \in [Part -> [attempts : Nat, successes : Nat, failures : Nat,
                           wait : Nat, probing : BOOLEAN]]
  /\ holders \in [Part -> SUBSET Search] /\ probers \in [Part -> SUBSET Search]
  /\ disturbed \in [Part -> BOOLEAN]

LocalTypes ==
  /\ pc \in [Search -> {"idle", "engine", "route", "calling", "finish"}]
  /\ backends \in [Search -> Seq(Engine)]
  /\ todo \in [Search -> Seq(Proxy \union {Direct})]
  /\ route \in [Search -> Proxy \union {Direct}]
  /\ used \in [Search -> Nat] /\ tries \in [Search -> Nat]
  /\ lastError \in [Search -> Error \union {None}]
  /\ late \in [Search -> BOOLEAN] /\ rounds \in [Search -> Nat]

Inside == {"route", "calling", "finish"}

\* What a thread that is there holds.
Holds(s, b) ==
  \/ pc[s] \in Inside /\ b = CurrentEngine(s)
  \/ pc[s] = "calling" /\ b = route[s]

Holding == \A b \in Part : holders[b] = {s \in Search : Holds(s, b)}

Leases ==
  \A b \in Part :
    /\ probers[b] \subseteq holders[b]
    /\ breaker[b].probing => probers[b] # {}
    /\ ~disturbed[b] =>
         /\ probers[b] # {} => breaker[b].probing
         /\ \A s, t \in probers[b] : s = t

Locals ==
  \A s \in Search :
    /\ pc[s] # "idle" => backends[s] # <<>>
    /\ pc[s] \in {"idle", "engine"} => tries[s] = 0
    /\ used[s] + tries[s] <= MaxAttempts

EgressInv ==
  BreakerTypes /\ LocalTypes /\ Holding /\ Leases /\ CountsSound /\ Locals
-----------------------------------------------------------------------------
LEMMA HoldersFinite ==
  ASSUME NEW S \in SUBSET Search
  PROVE  IsFiniteSet(S) /\ Cardinality(S) \in Nat
BY BreakerAssumption, FS_Subset, FS_CardinalityType

LEMMA HeadOfEngines ==
  ASSUME NEW q \in Seq(Engine), q # <<>>
  PROVE  /\ Head(q) \in Engine /\ Head(q) \in Part
         /\ Tail(q) \in Seq(Engine)
         /\ Len(q) # 1 => Tail(q) # <<>>
<1>1. Head(q) \in Engine /\ Tail(q) \in Seq(Engine) /\ Len(Tail(q)) = Len(q) - 1
  BY HeadTailProperties
<1>2. Len(q) \in Nat
  BY LenProperties
<1>3. Len(<<>>) = 0
  OBVIOUS
<1>4. ASSUME Tail(q) = <<>> PROVE Len(q) = 1
  <2>1. Len(Tail(q)) = Len(<<>>)
    BY <1>4, Zenon
  <2> HIDE <1>4
  <2> QED
    BY <2>1, <1>1, <1>2, <1>3
<1> QED
  BY <1>1, <1>4 DEF Part

LEMMA RotationsAreRoutes ==
  ASSUME NEW S, NEW routes \in Seq(S), NEW r \in Rotations(routes)
  PROVE  r \in Seq(S)
<1>1. PICK i \in 1..Len(routes) :
        r = SubSeq(routes, i, Len(routes)) \o SubSeq(routes, 1, i - 1)
  BY DEF Rotations
<1>2. Len(routes) \in Nat
  BY LenProperties
<1>3. \A j \in i..Len(routes) : routes[j] \in S
  BY <1>2, ElementOfSeq
<1>4. \A j \in 1..i - 1 : routes[j] \in S
  BY <1>2, ElementOfSeq
<1>5. SubSeq(routes, i, Len(routes)) \in Seq(S)
  BY <1>2, <1>3, SubSeqProperties
<1>6. SubSeq(routes, 1, i - 1) \in Seq(S)
  BY <1>2, <1>4, SubSeqProperties
<1> QED
  BY <1>1, <1>5, <1>6, ConcatProperties
-----------------------------------------------------------------------------
(* The breakers *)

BreakerInv == BreakerTypes /\ Leases /\ CountsSound

LEMMA AcquireBreaker ==
  ASSUME BreakerInv, NEW s \in Search, NEW b \in Part, s \notin holders[b],
         Available(b), Acquire(s, b)
  PROVE  BreakerInv' /\ holders' = [holders EXCEPT ![b] = @ \union {s}]
<1>1. holders' = [holders EXCEPT ![b] = @ \union {s}]
  BY DEF Acquire
<1>2. BreakerTypes'
  BY DEF BreakerInv, BreakerTypes, Acquire
<1>3. Leases'
  <2> SUFFICES ASSUME NEW c \in Part
      PROVE  /\ probers'[c] \subseteq holders'[c]
             /\ breaker'[c].probing => probers'[c] # {}
             /\ ~disturbed'[c] =>
                  /\ probers'[c] # {} => breaker'[c].probing
                  /\ \A x, y \in probers'[c] : x = y
    BY DEF Leases
  <2>1. CASE c = b
    BY <2>1 DEF BreakerInv, BreakerTypes, Leases, Available, Acquire
  <2>2. CASE c # b
    BY <2>2 DEF BreakerInv, BreakerTypes, Leases, Acquire
  <2> QED
    BY <2>1, <2>2
<1>4. CountsSound'
  <2>1. Cardinality(holders[b] \union {s}) = Cardinality(holders[b]) + 1
    BY HoldersFinite, FS_AddElement DEF BreakerInv, BreakerTypes
  <2>2. \A c \in Part : Cardinality(holders[c]) \in Nat
    BY HoldersFinite DEF BreakerInv, BreakerTypes
  <2>3. /\ breaker'[b].successes = breaker[b].successes
        /\ breaker'[b].attempts = breaker[b].attempts + 1
        /\ holders'[b] = holders[b] \union {s}
    BY DEF BreakerInv, BreakerTypes, Acquire
  <2>4. \A c \in Part \ {b} : breaker'[c] = breaker[c] /\ holders'[c] = holders[c]
    BY DEF BreakerInv, BreakerTypes, Acquire
  <2>5. \A c \in Part : breaker[c].attempts \in Nat /\ breaker[c].successes \in Nat
    BY DEF BreakerInv, BreakerTypes
  <2>6. \A c \in Part :
          breaker[c].successes + Cardinality(holders[c]) <= breaker[c].attempts
    BY DEF BreakerInv, CountsSound
  <2>7. breaker'[b].successes + Cardinality(holders'[b]) <= breaker'[b].attempts
    BY <2>1, <2>2, <2>3, <2>5, <2>6
  <2>8. \A c \in Part \ {b} :
          breaker'[c].successes + Cardinality(holders'[c]) <= breaker'[c].attempts
    BY <2>4, <2>6
  <2> QED
    BY <2>7, <2>8 DEF CountsSound
<1> QED
  BY <1>1, <1>2, <1>3, <1>4 DEF BreakerInv

\* However a request finishes a breaker that it holds.
Finished(s, b) == Succeed(s, b) \/ FailBreaker(s, b) \/ ClearProxy(s, b) \/ GiveBack(s, b)

LEMMA FinishBreaker ==
  ASSUME BreakerInv, NEW s \in Search, NEW b \in Part, s \in holders[b],
         Finished(s, b)
  PROVE  BreakerInv' /\ holders' = [holders EXCEPT ![b] = @ \ {s}]
<1>1. holders' = [holders EXCEPT ![b] = @ \ {s}]
  BY DEF Finished, Succeed, FailBreaker, ClearProxy, GiveBack, Released
<1>2. /\ Cardinality(holders[b]) \in Nat /\ Cardinality(holders[b] \ {s}) \in Nat
      /\ Cardinality(holders[b]) = Cardinality(holders[b] \ {s}) + 1
  <2>1. IsFiniteSet(holders[b]) /\ Cardinality(holders[b]) \in Nat
    BY HoldersFinite DEF BreakerInv, BreakerTypes
  <2>2. Cardinality(holders[b] \ {s}) = Cardinality(holders[b]) - 1
    BY <2>1, FS_RemoveElement
  <2>3. Cardinality(holders[b] \ {s}) \in Nat
    BY HoldersFinite DEF BreakerInv, BreakerTypes
  <2> QED
    BY <2>1, <2>2, <2>3
<1>3. /\ breaker[b].attempts \in Nat /\ breaker[b].successes \in Nat
      /\ breaker[b].attempts > breaker[b].successes
  <2>1. breaker[b].attempts \in Nat /\ breaker[b].successes \in Nat
    BY DEF BreakerInv, BreakerTypes
  <2> QED
    BY <2>1, <1>2 DEF BreakerInv, CountsSound
<1>4. /\ breaker' \in [Part -> [attempts : Nat, successes : Nat, failures : Nat,
                               wait : Nat, probing : BOOLEAN]]
      /\ \A c \in Part \ {b} : breaker'[c] = breaker[c]
      /\ ~breaker'[b].probing
      /\ breaker'[b].successes + breaker[b].attempts
           <= breaker'[b].attempts + breaker[b].successes + 1
  <2>1. CASE Succeed(s, b)
    BY <2>1 DEF BreakerInv, BreakerTypes, Succeed
  <2>2. CASE ClearProxy(s, b)
    <3>1. breaker' = [breaker EXCEPT ![b].probing = FALSE, ![b].failures = 0,
                                     ![b].wait = 0]
      BY <2>2 DEF ClearProxy
    <3>2. breaker' \in [Part -> [attempts : Nat, successes : Nat, failures : Nat,
                                 wait : Nat, probing : BOOLEAN]]
      BY <3>1 DEF BreakerInv, BreakerTypes
    <3>3. \A c \in Part \ {b} : breaker'[c] = breaker[c]
      BY <3>1 DEF BreakerInv, BreakerTypes
    <3>4. /\ ~breaker'[b].probing
          /\ breaker'[b].successes = breaker[b].successes
          /\ breaker'[b].attempts = breaker[b].attempts
      BY <3>1 DEF BreakerInv, BreakerTypes
    <3> QED
      BY <3>2, <3>3, <3>4, <1>3
  <2>3. CASE GiveBack(s, b)
    <3>1. breaker[b].attempts - 1 \in Nat
      BY <1>3
    <3> QED
      BY <2>3, <3>1 DEF BreakerInv, BreakerTypes, GiveBack
  <2>4. CASE FailBreaker(s, b)
    <3>1. PICK d \in Delays(breaker[b].failures + 1) :
            breaker' = [breaker EXCEPT ![b].probing = FALSE, ![b].failures = @ + 1,
                                       ![b].wait = d]
      BY <2>4 DEF FailBreaker
    <3>2. d \in Nat
      BY BreakerAssumption DEF Delays
    <3> QED
      BY <3>1, <3>2 DEF BreakerInv, BreakerTypes
  <2> QED
    BY <2>1, <2>2, <2>3, <2>4 DEF Finished
<1>5. /\ probers' = [probers EXCEPT ![b] = @ \ {s}]
      /\ disturbed' = [disturbed EXCEPT ![b] =
                         IF breaker[b].probing /\ s \notin probers[b] THEN TRUE ELSE @]
  BY DEF Finished, Succeed, FailBreaker, ClearProxy, GiveBack, Released
<1>6. BreakerTypes'
  BY <1>1, <1>4, <1>5 DEF BreakerInv, BreakerTypes
<1>7. Leases'
  <2> SUFFICES ASSUME NEW c \in Part
      PROVE  /\ probers'[c] \subseteq holders'[c]
             /\ breaker'[c].probing => probers'[c] # {}
             /\ ~disturbed'[c] =>
                  /\ probers'[c] # {} => breaker'[c].probing
                  /\ \A x, y \in probers'[c] : x = y
    BY DEF Leases
  <2>1. CASE c = b
    BY <2>1, <1>1, <1>4, <1>5 DEF BreakerInv, BreakerTypes, Leases
  <2>2. CASE c # b
    BY <2>2, <1>1, <1>4, <1>5 DEF BreakerInv, BreakerTypes, Leases
  <2> QED
    BY <2>1, <2>2
<1>8. CountsSound'
  <2>1. holders'[b] = holders[b] \ {s}
    BY <1>1 DEF BreakerInv, BreakerTypes
  <2>2. \A c \in Part \ {b} : breaker'[c] = breaker[c] /\ holders'[c] = holders[c]
    BY <1>1, <1>4 DEF BreakerInv, BreakerTypes
  <2>3. breaker'[b].successes \in Nat /\ breaker'[b].attempts \in Nat
    BY <1>4
  <2>4. breaker[b].successes + Cardinality(holders[b]) <= breaker[b].attempts
    BY DEF BreakerInv, CountsSound
  <2>5. breaker'[b].successes + Cardinality(holders[b] \ {s}) <= breaker'[b].attempts
    BY <2>3, <2>4, <1>2, <1>3, <1>4
  <2> QED
    BY <2>1, <2>2, <2>5 DEF BreakerInv, CountsSound
<1> QED
  BY <1>1, <1>6, <1>7, <1>8 DEF BreakerInv

LEMMA BreakersUnmoved ==
  BreakerInv /\ UNCHANGED <<breaker, history>> => BreakerInv'
BY DEF BreakerInv, BreakerTypes, Leases, CountsSound, history
-----------------------------------------------------------------------------
(* The steps *)

\* What a search's own moves leave alone: another thread's part of Holding.
LEMMA OthersHold ==
  ASSUME LocalTypes, Holding, NEW s \in Search,
         \A t \in Search \ {s} :
           pc'[t] = pc[t] /\ backends'[t] = backends[t] /\ route'[t] = route[t],
         \A b \in Part : holders'[b] \ {s} = holders[b] \ {s},
         \A b \in Part : s \in holders'[b] <=> Holds(s, b)',
         \A b \in Part : holders'[b] \subseteq Search
  PROVE  Holding'
<1> SUFFICES ASSUME NEW b \in Part, NEW t \in Search
    PROVE  t \in holders'[b] <=> Holds(t, b)'
  BY DEF Holding
<1>1. CASE t = s
  BY <1>1
<1>2. CASE t # s
  <2>1. t \in holders'[b] <=> t \in holders[b]
    BY <1>2
  <2>2. Holds(t, b)' <=> Holds(t, b)
    BY <1>2 DEF Holds, CurrentEngine
  <2> QED
    BY <2>1, <2>2 DEF Holding
<1> QED
  BY <1>1, <1>2

LEMMA BeginInv ==
  ASSUME EgressInv, NEW s \in Search, Begin(s)
  PROVE  EgressInv'
<1>1. PICK order \in Orders : backends' = [backends EXCEPT ![s] = order]
  BY DEF Begin
<1>2. order \in Seq(Engine) /\ order # <<>>
  BY BreakerAssumption
<1>3. LocalTypes'
  BY <1>1, <1>2 DEF EgressInv, LocalTypes, Begin, Go
<1>4. BreakerInv'
  BY BreakersUnmoved DEF EgressInv, BreakerInv, Begin
<1>5. Holding'
  <2>1. \A b \in Part : ~Holds(s, b) /\ ~Holds(s, b)'
    BY DEF EgressInv, LocalTypes, Holds, Inside, Begin, Go
  <2>2. \A b \in Part : s \notin holders[b] /\ holders[b] \subseteq Search
    BY <2>1 DEF EgressInv, Holding
  <2> QED
    BY <1>1, <2>1, <2>2, OthersHold
    DEF EgressInv, LocalTypes, Begin, Go, history
<1>6. Locals'
  BY <1>1, <1>2 DEF EgressInv, LocalTypes, Locals, Begin, Go
<1> QED
  BY <1>3, <1>4, <1>5, <1>6 DEF EgressInv, BreakerInv

\* On to the next engine, or home.
LEMMA OnAfterLocals ==
  ASSUME LocalTypes, Locals, NEW s \in Search, pc[s] # "idle",
         NEW attempts \in Nat, attempts <= MaxAttempts,
         OnAfter(s, attempts) \/ Answer(s), UNCHANGED <<route, rounds>>
  PROVE  /\ LocalTypes' /\ Locals'
         /\ \A b \in Part : ~Holds(s, b)'
         /\ \A t \in Search \ {s} :
              pc'[t] = pc[t] /\ backends'[t] = backends[t] /\ route'[t] = route[t]
<1>1. CASE Answer(s)
  BY <1>1, BreakerAssumption
  DEF LocalTypes, Locals, Answer, Go, Error, Holds, Inside
<1>2. CASE ~Answer(s)
  <2>1. backends[s] \in Seq(Engine) /\ backends[s] # <<>>
    BY DEF LocalTypes, Locals
  <2>2. /\ Go(s, "engine")
        /\ backends' = [backends EXCEPT ![s] = Tail(@)]
        /\ used' = [used EXCEPT ![s] = attempts] /\ tries' = [tries EXCEPT ![s] = 0]
        /\ UNCHANGED <<todo, late, lastError>>
        /\ Len(backends[s]) # 1
    BY <1>2 DEF OnAfter
  <2>3. Tail(backends[s]) \in Seq(Engine) /\ Tail(backends[s]) # <<>>
    BY <2>1, <2>2, HeadOfEngines
  <2>4. LocalTypes'
    BY <2>2, <2>3 DEF LocalTypes, Go
  <2>5. Locals'
    BY <2>2, <2>3 DEF LocalTypes, Locals, Go
  <2>6. \A b \in Part : ~Holds(s, b)'
    BY <2>2 DEF LocalTypes, Go, Holds, Inside
  <2> QED
    BY <2>2, <2>4, <2>5, <2>6 DEF LocalTypes, Go
<1> QED
  BY <1>1, <1>2

LEMMA SkipEngineInv ==
  ASSUME EgressInv, NEW s \in Search, SkipEngine(s)
  PROVE  EgressInv'
<1>1. used[s] \in Nat /\ used[s] <= MaxAttempts /\ pc[s] # "idle"
  BY BreakerAssumption DEF EgressInv, LocalTypes, Locals, SkipEngine
<1>2. /\ LocalTypes' /\ Locals'
      /\ \A b \in Part : ~Holds(s, b)'
      /\ \A t \in Search \ {s} :
           pc'[t] = pc[t] /\ backends'[t] = backends[t] /\ route'[t] = route[t]
  BY <1>1, OnAfterLocals DEF EgressInv, SkipEngine
<1>3. BreakerInv'
  BY BreakersUnmoved DEF EgressInv, BreakerInv, SkipEngine
<1>4. Holding'
  <2>1. \A b \in Part : ~Holds(s, b)
    BY DEF EgressInv, LocalTypes, Holds, Inside, SkipEngine
  <2>2. \A b \in Part : s \notin holders[b] /\ holders[b] \subseteq Search
    BY <2>1 DEF EgressInv, Holding
  <2> QED
    BY <1>2, <2>2, OthersHold DEF EgressInv, SkipEngine, history
<1> QED
  BY <1>2, <1>3, <1>4 DEF EgressInv, BreakerInv

LEMMA AcquireEngineInv ==
  ASSUME EgressInv, NEW s \in Search, AcquireEngine(s)
  PROVE  EgressInv'
<1> DEFINE e == CurrentEngine(s)
<1>1. backends[s] \in Seq(Engine) /\ backends[s] # <<>> /\ pc[s] = "engine"
  BY DEF EgressInv, LocalTypes, Locals, AcquireEngine
<1>2. e \in Engine /\ e \in Part
  BY <1>1, HeadOfEngines DEF CurrentEngine
<1>3. s \notin holders[e]
  BY <1>1, <1>2 DEF EgressInv, Holding, Holds, Inside
<1>4. BreakerInv' /\ holders' = [holders EXCEPT ![e] = @ \union {s}]
  <2> HIDE DEF e
  <2> QED
    BY <1>2, <1>3, AcquireBreaker DEF EgressInv, BreakerInv, AcquireEngine, e
<1>5. LocalTypes'
  <2>1. RoutesOf[e] \in Seq(Proxy \union {Direct})
    BY <1>2, BreakerAssumption
  <2>2. PICK routes \in Rotations(RoutesOf[e]) : todo' = [todo EXCEPT ![s] = routes]
    BY DEF AcquireEngine
  <2>3. routes \in Seq(Proxy \union {Direct})
    BY <2>1, <2>2, RotationsAreRoutes
  <2> QED
    BY <2>2, <2>3 DEF EgressInv, LocalTypes, AcquireEngine, Go, Error
<1>6. Holding'
  <2>1. \A b \in Part : Holds(s, b)' <=> b = e
    BY DEF EgressInv, LocalTypes, Holds, Inside, AcquireEngine, Go, CurrentEngine
  <2>2. \A b \in Part : holders[b] \subseteq Search /\ s \notin holders[b]
    BY <1>1 DEF EgressInv, Holding, Holds, Inside
  <2>3. \A b \in Part : holders'[b] = IF b = e THEN holders[b] \union {s} ELSE holders[b]
    BY <1>4 DEF EgressInv, BreakerTypes
  <2>4. \A t \in Search \ {s} :
          pc'[t] = pc[t] /\ backends'[t] = backends[t] /\ route'[t] = route[t]
    BY DEF EgressInv, LocalTypes, AcquireEngine, Go
  <2> HIDE DEF e
  <2> QED
    BY <2>1, <2>2, <2>3, <2>4, OthersHold DEF EgressInv
<1>7. Locals'
  BY <1>1 DEF EgressInv, LocalTypes, Locals, AcquireEngine, Go
<1> QED
  BY <1>4, <1>5, <1>6, <1>7 DEF EgressInv, BreakerInv

LEMMA TakeRouteInv ==
  ASSUME EgressInv, NEW s \in Search, TakeRoute(s)
  PROVE  EgressInv'
<1> DEFINE r == Head(todo[s])
<1>1. /\ todo[s] \in Seq(Proxy \union {Direct}) /\ todo[s] # <<>>
      /\ backends[s] \in Seq(Engine) /\ backends[s] # <<>> /\ pc[s] = "route"
  BY DEF EgressInv, LocalTypes, Locals, TakeRoute, Spent
<1>2. r \in Proxy \union {Direct} /\ Tail(todo[s]) \in Seq(Proxy \union {Direct})
  BY <1>1, HeadTailProperties
<1>3. CurrentEngine(s) \in Engine
  BY <1>1, HeadOfEngines DEF CurrentEngine
<1>4. used[s] + tries[s] < MaxAttempts /\ used[s] \in Nat /\ tries[s] \in Nat
  BY BreakerAssumption DEF EgressInv, LocalTypes, TakeRoute, Spent
<1>5. \A b \in Part : Holds(s, b) <=> b = CurrentEngine(s)
  BY <1>1 DEF Holds, Inside
<1>6. \A b \in Part : holders[b] \subseteq Search /\ (s \in holders[b] <=> Holds(s, b))
  BY DEF EgressInv, Holding
<1>7. CASE r = Direct \/ Available(r)
  <2>1. /\ IF r = Direct THEN UNCHANGED <<breaker, history>> ELSE Acquire(s, r)
        /\ todo' = [todo EXCEPT ![s] = Tail(@)] /\ route' = [route EXCEPT ![s] = r]
        /\ tries' = [tries EXCEPT ![s] = @ + 1] /\ Go(s, "calling")
        /\ UNCHANGED <<backends, used, lastError, late, rounds>>
    BY <1>7 DEF TakeRoute
  <2>2. /\ BreakerInv'
        /\ holders' = IF r = Direct THEN holders
                      ELSE [holders EXCEPT ![r] = @ \union {s}]
    <3>1. CASE r = Direct
      BY <2>1, <3>1, BreakersUnmoved DEF EgressInv, BreakerInv, history
    <3>2. CASE r # Direct
      <4>1. r \in Part /\ r \notin Engine
        BY <1>2, <3>2, BreakerAssumption DEF Part
      <4>2. s \notin holders[r]
        BY <4>1, <1>3, <1>5, <1>6
      <4> HIDE DEF r
      <4> QED
        BY <4>1, <4>2, <3>2, <2>1, <1>7, AcquireBreaker DEF EgressInv, BreakerInv
    <3> QED
      BY <3>1, <3>2
  <2> HIDE DEF r
  <2>3. LocalTypes'
    BY <2>1, <1>2, <1>4 DEF EgressInv, LocalTypes, Go
  <2>4. Holding'
    <3>1. \A b \in Part : Holds(s, b)' <=> b = CurrentEngine(s) \/ b = r
      BY <2>1 DEF EgressInv, LocalTypes, Holds, Inside, Go, CurrentEngine
    <3>2. \A b \in Part :
            holders'[b] = IF b = r THEN holders[b] \union {s} ELSE holders[b]
      BY <2>2, BreakerAssumption DEF EgressInv, BreakerTypes, Part
    <3>3. \A t \in Search \ {s} :
            pc'[t] = pc[t] /\ backends'[t] = backends[t] /\ route'[t] = route[t]
      BY <2>1 DEF EgressInv, LocalTypes, Go
    <3> QED
      BY <3>1, <3>2, <3>3, <1>5, <1>6, OthersHold DEF EgressInv
  <2>5. Locals'
    <3>1. /\ pc' = [pc EXCEPT ![s] = "calling"]
          /\ tries' = [tries EXCEPT ![s] = tries[s] + 1]
      BY <2>1 DEF Go
    <3>2. used[s] + (tries[s] + 1) <= MaxAttempts
      BY <1>4, BreakerAssumption
    <3> QED
      BY <2>1, <3>1, <3>2, <1>1 DEF EgressInv, LocalTypes, Locals
  <2> QED
    BY <2>2, <2>3, <2>4, <2>5 DEF EgressInv, BreakerInv
<1>8. CASE ~(r = Direct \/ Available(r))
  <2>1. /\ UNCHANGED <<breaker, pc, route, tries, history>>
        /\ todo' = [todo EXCEPT ![s] = Tail(@)]
        /\ UNCHANGED <<backends, used, lastError, late, rounds>>
    BY <1>8 DEF TakeRoute
  <2>2. LocalTypes'
    BY <2>1, <1>2 DEF EgressInv, LocalTypes
  <2>3. BreakerInv'
    BY <2>1, BreakersUnmoved DEF EgressInv, BreakerInv
  <2>4. Holding' /\ Locals'
    BY <2>1 DEF EgressInv, Holding, Holds, CurrentEngine, Locals, history
  <2> QED
    BY <2>2, <2>3, <2>4 DEF EgressInv, BreakerInv
<1> QED
  BY <1>7, <1>8

LEMMA ReturnInv ==
  ASSUME EgressInv, NEW s \in Search, NEW error \in Error \union {None},
         Return(s, error)
  PROVE  EgressInv'
<1> DEFINE r == route[s]
<1>1. /\ backends[s] \in Seq(Engine) /\ backends[s] # <<>> /\ pc[s] = "calling"
      /\ r \in Proxy \union {Direct}
  BY DEF EgressInv, LocalTypes, Locals, Return
<1>2. CurrentEngine(s) \in Engine
  BY <1>1, HeadOfEngines DEF CurrentEngine
<1>3. \A b \in Part : Holds(s, b) <=> b = CurrentEngine(s) \/ b = r
  BY <1>1 DEF Holds, Inside
<1>4. \A b \in Part : holders[b] \subseteq Search /\ (s \in holders[b] <=> Holds(s, b))
  BY DEF EgressInv, Holding
<1>5. /\ BreakerInv'
      /\ holders' = IF r = Direct THEN holders ELSE [holders EXCEPT ![r] = @ \ {s}]
  <2>1. CASE r = Direct
    BY <2>1, BreakersUnmoved DEF EgressInv, BreakerInv, Return, FinishProxy, history
  <2>2. CASE r # Direct
    <3>1. r \in Part
      BY <1>1, <2>2 DEF Part
    <3>2. s \in holders[r]
      BY <3>1, <1>3, <1>4
    <3>3. Finished(s, r)
      BY <2>2 DEF Return, FinishProxy, Finished
    <3> HIDE DEF r
    <3> QED
      BY <3>1, <3>2, <3>3, <2>2, FinishBreaker DEF EgressInv, BreakerInv
  <2> QED
    BY <2>1, <2>2
<1>6. LocalTypes'
  BY DEF EgressInv, LocalTypes, Return, Go
<1>7. Holding'
  <2>1. \A b \in Part : Holds(s, b)' <=> b = CurrentEngine(s)
    BY DEF EgressInv, LocalTypes, Holds, Inside, Return, Go, CurrentEngine
  <2>2. \A b \in Part : holders'[b] = IF b = r THEN holders[b] \ {s} ELSE holders[b]
    BY <1>5, BreakerAssumption DEF EgressInv, BreakerTypes, Part
  <2>3. r \in Part => r # CurrentEngine(s)
    BY <1>1, <1>2, BreakerAssumption DEF Part
  <2>4. \A t \in Search \ {s} :
          pc'[t] = pc[t] /\ backends'[t] = backends[t] /\ route'[t] = route[t]
    BY DEF EgressInv, LocalTypes, Return, Go
  <2> HIDE DEF r
  <2> QED
    BY <2>1, <2>2, <2>3, <2>4, <1>3, <1>4, OthersHold DEF EgressInv
<1>8. Locals'
  BY DEF EgressInv, LocalTypes, Locals, Return, Go
<1> QED
  BY <1>5, <1>6, <1>7, <1>8 DEF EgressInv, BreakerInv

LEMMA FinishEngineInv ==
  ASSUME EgressInv, NEW s \in Search, FinishEngine(s)
  PROVE  EgressInv'
<1> DEFINE e == CurrentEngine(s)
<1>1. backends[s] \in Seq(Engine) /\ backends[s] # <<>> /\ pc[s] = "finish"
  BY DEF EgressInv, LocalTypes, Locals, FinishEngine
<1>2. e \in Part
  BY <1>1, HeadOfEngines DEF CurrentEngine
<1>3. \A b \in Part : Holds(s, b) <=> b = e
  BY <1>1 DEF Holds, Inside
<1>4. \A b \in Part : holders[b] \subseteq Search /\ (s \in holders[b] <=> Holds(s, b))
  BY DEF EgressInv, Holding
<1>5. BreakerInv' /\ holders' = [holders EXCEPT ![e] = @ \ {s}]
  <2>1. Finished(s, e)
    BY DEF FinishEngine, Finished
  <2> HIDE DEF e
  <2> QED
    BY <2>1, <1>2, <1>3, <1>4, FinishBreaker DEF EgressInv, BreakerInv
<1>6. used[s] + tries[s] \in Nat /\ used[s] + tries[s] <= MaxAttempts
  BY DEF EgressInv, LocalTypes, Locals
<1>7. /\ LocalTypes' /\ Locals'
      /\ \A b \in Part : ~Holds(s, b)'
      /\ \A t \in Search \ {s} :
           pc'[t] = pc[t] /\ backends'[t] = backends[t] /\ route'[t] = route[t]
  <2>1. /\ OnAfter(s, used[s] + tries[s]) \/ Answer(s)
        /\ UNCHANGED <<route, rounds>>
    BY DEF FinishEngine
  <2> QED
    BY <2>1, <1>1, <1>6, OnAfterLocals DEF EgressInv
<1>8. Holding'
  <2>1. \A b \in Part : holders'[b] = IF b = e THEN holders[b] \ {s} ELSE holders[b]
    BY <1>5 DEF EgressInv, BreakerTypes
  <2> HIDE DEF e
  <2> QED
    BY <2>1, <1>3, <1>4, <1>7, OthersHold DEF EgressInv
<1> QED
  BY <1>5, <1>7, <1>8 DEF EgressInv, BreakerInv

LEMMA GiveUpInv ==
  ASSUME EgressInv, NEW s \in Search, GiveUp(s)
  PROVE  EgressInv'
<1>1. BreakerInv'
  BY BreakersUnmoved DEF EgressInv, BreakerInv, GiveUp
<1>2. LocalTypes' /\ Locals'
  BY DEF EgressInv, LocalTypes, Locals, GiveUp, Go, local
<1>3. Holding'
  <2>1. \A t \in Search, b \in Part : Holds(t, b)' <=> Holds(t, b)
    BY DEF EgressInv, LocalTypes, Holds, Inside, CurrentEngine, GiveUp, Go, local
  <2> QED
    BY <2>1 DEF EgressInv, Holding, GiveUp, history
<1> QED
  BY <1>1, <1>2, <1>3 DEF EgressInv, BreakerInv

LEMMA ExpireInv ==
  ASSUME EgressInv, NEW s \in Search, Expire(s)
  PROVE  EgressInv'
<1>1. BreakerInv'
  BY BreakersUnmoved DEF EgressInv, BreakerInv, Expire
<1>2. LocalTypes' /\ Locals'
  BY DEF EgressInv, LocalTypes, Locals, Expire
<1>3. Holding'
  BY DEF EgressInv, Holding, Holds, CurrentEngine, Expire, history
<1> QED
  BY <1>1, <1>2, <1>3 DEF EgressInv, BreakerInv

LEMMA TickInv ==
  ASSUME EgressInv, Tick
  PROVE  EgressInv'
<1>1. /\ breaker' \in [Part -> [attempts : Nat, successes : Nat, failures : Nat,
                               wait : Nat, probing : BOOLEAN]]
      /\ \A b \in Part : /\ breaker'[b].probing = breaker[b].probing
                         /\ breaker'[b].attempts = breaker[b].attempts
                         /\ breaker'[b].successes = breaker[b].successes
  BY DEF EgressInv, BreakerTypes, Tick
<1>2. BreakerTypes' /\ LocalTypes'
  BY <1>1 DEF EgressInv, BreakerTypes, LocalTypes, Tick, local, history
<1>3. Holding' /\ Locals'
  BY DEF EgressInv, Holding, Holds, CurrentEngine, Locals, Tick, local, history
<1>4. Leases' /\ CountsSound'
  BY <1>1 DEF EgressInv, Leases, CountsSound, Tick, history
<1> QED
  BY <1>2, <1>3, <1>4 DEF EgressInv

LEMMA InitInv == Init => EgressInv
<1> SUFFICES ASSUME Init PROVE EgressInv
  OBVIOUS
<1>1. BreakerTypes
  BY DEF Init, BreakerTypes
<1>2. LocalTypes
  <2>1. <<>> \in Seq(Engine) /\ <<>> \in Seq(Proxy \union {Direct})
    OBVIOUS
  <2> QED
    BY <2>1 DEF Init, LocalTypes, Error
<1>3. Holding /\ Leases
  BY DEF Init, Holding, Holds, Inside, Leases
<1>4. CountsSound
  BY FS_EmptySet DEF Init, CountsSound
<1>5. Locals
  BY BreakerAssumption DEF Init, Locals
<1> QED
  BY <1>1, <1>2, <1>3, <1>4, <1>5 DEF EgressInv

LEMMA NextInv == EgressInv /\ [Next]_vars => EgressInv'
<1> SUFFICES ASSUME EgressInv, [Next]_vars PROVE EgressInv'
  OBVIOUS
<1>1. ASSUME NEW s \in Search, Begin(s) \/ Proceed(s) \/ Expire(s)
      PROVE  EgressInv'
  <2>1. ASSUME NEW error \in Error \union {None}, Return(s, error) PROVE EgressInv'
    BY <2>1, ReturnInv
  <2> QED
    BY <1>1, <2>1, BeginInv, AcquireEngineInv, SkipEngineInv, TakeRouteInv, GiveUpInv,
       FinishEngineInv, ExpireInv
    DEF Proceed
<1>2. CASE Tick
  BY <1>2, TickInv
<1>3. CASE UNCHANGED vars
  <2>1. BreakerInv'
    BY <1>3, BreakersUnmoved DEF EgressInv, BreakerInv, vars
  <2>2. LocalTypes' /\ Locals' /\ Holding'
    BY <1>3
    DEF EgressInv, LocalTypes, Locals, Holding, Holds, CurrentEngine, vars, local,
        history
  <2> QED
    BY <2>1, <2>2 DEF EgressInv, BreakerInv
<1> QED
  BY <1>1, <1>2, <1>3 DEF Next

LEMMA Invariance == Spec => []EgressInv
BY InitInv, NextInv, PTL DEF Spec
-----------------------------------------------------------------------------
\* Every reachable state is well typed; no count is given back that was not taken.
THEOREM TypeCorrect == Spec => []TypeOK
<1>1. EgressInv => TypeOK
  BY DEF EgressInv, BreakerTypes, LocalTypes, TypeOK
<1> QED
  BY <1>1, Invariance, PTL

\* No lease of a half-open breaker is lost: who took it still works on it, so
\* no engine or proxy stays out of use for want of somebody to finish it.
THEOREM LeasesAreHeld == Spec => []LeaseHasHolder
<1>1. EgressInv => LeaseHasHolder
  BY DEF EgressInv, Leases, LeaseHasHolder
<1> QED
  BY <1>1, Invariance, PTL

\* Two probes overlap only after a request that was no probe finished the breaker.
THEOREM ProbesAreExclusive == Spec => []ProbeExclusive
<1>1. EgressInv => ProbeExclusive
  <2> SUFFICES ASSUME EgressInv, NEW b \in Part, ~disturbed[b]
      PROVE  ~(Cardinality(probers[b]) > 1)
    BY DEF ProbeExclusive
  <2>1. \A s, t \in probers[b] : s = t
    BY DEF EgressInv, Leases
  <2>2. CASE probers[b] = {}
    BY <2>2, FS_EmptySet
  <2>3. CASE probers[b] # {}
    <3>1. PICK s \in probers[b] : TRUE
      BY <2>3
    <3>2. probers[b] = {s}
      BY <3>1, <2>1
    <3> QED
      BY <3>2, FS_Singleton
  <2> QED
    BY <2>2, <2>3
<1> QED
  BY <1>1, Invariance, PTL

\* A search makes at most DDG_MAX_ATTEMPTS calls, over all its engines.
THEOREM AttemptsAreBounded == Spec => []AttemptsBounded
<1>1. EgressInv => AttemptsBounded
  BY DEF EgressInv, Locals, AttemptsBounded
<1> QED
  BY <1>1, Invariance, PTL

\* Successes and calls under way never outnumber the attempts.
THEOREM CountsAreSound == Spec => []CountsSound
<1>1. EgressInv => CountsSound
  BY DEF EgressInv
<1> QED
  BY <1>1, Invariance, PTL
=============================================================================
