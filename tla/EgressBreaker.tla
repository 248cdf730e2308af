---------------------------- MODULE EgressBreaker ----------------------------
(***************************************************************************)
(* The searches of the DDG bridge (bridges/ddgs-bridge, main.py and        *)
(* resilience.py): each asks one engine after the other over one route     *)
(* after the other, and circuit breakers, shared by the threads that serve *)
(* the searches, keep it away from engines and proxies that fail.          *)
(*                                                                         *)
(* A breaker is closed, open until its retry_at, then half-open: the next  *)
(* request is a probe and keeps the others out until it is finished.       *)
(* Whoever finishes, though, finishes the breaker, also a request that was *)
(* let in when it was closed.                                              *)
(*                                                                         *)
(* retry_at is modelled as the ticks left until then.  The rotation of the *)
(* routes comes from a cursor that all searches move: any rotation may be  *)
(* next.  Parsing, the adult filter and the texts are left out.            *)
(***************************************************************************)
EXTENDS Integers, FiniteSets, Sequences

CONSTANTS
  Search,        \* the threads that serve searches
  Engine, Proxy,
  Direct,        \* the route of an engine without a pool
  Orders,        \* the backends a search may go through
  Enabled,       \* engines that the library has
  RoutesOf,      \* `routes' of each engine
  MaxAttempts,   \* DDG_MAX_ATTEMPTS
  Base, Cap,     \* of the backoff, in ticks
  Rounds         \* bound: searches that each thread serves

None == "none"

\* What a call ends with, other than results: an error of the transport, and an
\* error or an empty answer of the engine.
Error == {"transport", "engine"}

ASSUME BreakerAssumption ==
  /\ IsFiniteSet(Search)
  /\ Engine \intersect Proxy = {} /\ Direct \notin Engine \union Proxy
  /\ Orders \subseteq Seq(Engine) \ {<<>>}
  /\ Enabled \subseteq Engine
  /\ RoutesOf \in [Engine -> Seq(Proxy \union {Direct}) \ {<<>>}]
  /\ MaxAttempts \in Nat \ {0}
  /\ Base \in Nat \ {0} /\ Cap \in Nat \ {0} /\ Rounds \in Nat

VARIABLES
  breaker,    \* of each engine and proxy
  pc,
  backends,   \* the engines still to be asked, the first one in turn
  todo,       \* the routes still to be tried for it
  route,      \* the route of the call in progress, Direct when there is none
  used,       \* `attempts' of search: calls made for earlier engines
  tries,      \* `attempts' of _run_backend
  lastError,  \* `last_error'
  late,       \* the deadline is over
  rounds,     \* searches served by each thread
  holders,    \* history: who acquired a breaker and has not finished it
  probers,    \* history: those of them who did so when it was half-open
  disturbed   \* history: somebody else finished a breaker during a probe

local == <<backends, todo, route, used, tries, lastError, late, rounds>>
history == <<holders, probers, disturbed>>
vars == <<breaker, pc, local, history>>

Part == Engine \union Proxy

Init ==
  /\ breaker = [b \in Part |-> [attempts |-> 0, successes |-> 0, failures |-> 0,
                                wait |-> 0, probing |-> FALSE]]
  /\ pc = [s \in Search |-> "idle"]
  /\ backends = [s \in Search |-> <<>>] /\ todo = [s \in Search |-> <<>>]
  /\ route = [s \in Search |-> Direct]
  /\ used = [s \in Search |-> 0] /\ tries = [s \in Search |-> 0]
  /\ lastError = [s \in Search |-> "engine"]
  /\ late = [s \in Search |-> FALSE]
  /\ rounds = [s \in Search |-> 0]
  /\ holders = [b \in Part |-> {}] /\ probers = [b \in Part |-> {}]
  /\ disturbed = [b \in Part |-> FALSE]

Go(s, where) == pc' = [pc EXCEPT ![s] = where]
-----------------------------------------------------------------------------
(* Breaker and Scheduler *)

\* Mutant: a probe does not keep the others out.
AvailableProbing(b) == breaker[b].wait = 0

Available(b) == ~breaker[b].probing /\ breaker[b].wait = 0

\* Breaker.acquire, once it is available.
Acquire(s, b) ==
  LET halfOpen == breaker[b].failures > 0 IN
  /\ breaker' = [breaker EXCEPT ![b].probing = @ \/ halfOpen, ![b].attempts = @ + 1]
  /\ holders' = [holders EXCEPT ![b] = @ \union {s}]
  /\ probers' = [probers EXCEPT ![b] = IF halfOpen THEN @ \union {s} ELSE @]
  /\ UNCHANGED disturbed

\* The delay after so many failures: doubled each time, up to a quarter more,
\* never beyond the cap.
Delays(failures) ==
  LET exponent == IF failures - 1 < 16 THEN failures - 1 ELSE 16
      delay    == IF Base * 2^exponent < Cap THEN Base * 2^exponent ELSE Cap
  IN  {d \in 0..Cap : delay <= d /\ d <= delay + (delay + 3) \div 4}

\* The request leaves the breaker, and takes the lease with it.
Released(s, b) ==
  /\ holders' = [holders EXCEPT ![b] = @ \ {s}]
  /\ probers' = [probers EXCEPT ![b] = @ \ {s}]
  /\ disturbed' = [disturbed EXCEPT ![b] =
                     IF breaker[b].probing /\ s \notin probers[b] THEN TRUE ELSE @]

\* Breaker.finish with results.
Succeed(s, b) ==
  /\ breaker' = [breaker EXCEPT ![b].probing = FALSE, ![b].failures = 0,
                                ![b].wait = 0, ![b].successes = @ + 1]
  /\ Released(s, b)

\* Mutant: the lease of a probe that fails is kept.
FailBreakerKeepLease(s, b) ==
  /\ \E d \in Delays(breaker[b].failures + 1) :
       breaker' = [breaker EXCEPT ![b].failures = @ + 1, ![b].wait = d]
  /\ Released(s, b)

\* Breaker.finish with an error: closed or half-open, it opens.
FailBreaker(s, b) ==
  /\ \E d \in Delays(breaker[b].failures + 1) :
       breaker' = [breaker EXCEPT ![b].probing = FALSE, ![b].failures = @ + 1,
                                  ![b].wait = d]
  /\ Released(s, b)

\* An engine's refusal shows that the proxy can be reached.
ClearProxy(s, b) ==
  /\ breaker' = [breaker EXCEPT ![b].probing = FALSE, ![b].failures = 0, ![b].wait = 0]
  /\ Released(s, b)

\* No route was available: the lease is given back and nothing charged.
GiveBack(s, b) ==
  /\ breaker' = [breaker EXCEPT ![b].probing = FALSE, ![b].attempts = @ - 1]
  /\ Released(s, b)
-----------------------------------------------------------------------------
(* search and _run_backend *)

Begin(s) ==
  /\ pc[s] = "idle" /\ rounds[s] < Rounds
  /\ \E order \in Orders : backends' = [backends EXCEPT ![s] = order]
  /\ rounds' = [rounds EXCEPT ![s] = @ + 1]
  /\ Go(s, "engine")
  /\ UNCHANGED <<breaker, todo, route, used, tries, lastError, late, history>>

CurrentEngine(s) == Head(backends[s])

\* The search answers, with results or with 503, and its locals are gone.
Answer(s) ==
  /\ Go(s, "idle")
  /\ backends' = [backends EXCEPT ![s] = <<>>] /\ todo' = [todo EXCEPT ![s] = <<>>]
  /\ used' = [used EXCEPT ![s] = 0] /\ tries' = [tries EXCEPT ![s] = 0]
  /\ late' = [late EXCEPT ![s] = FALSE]
  /\ lastError' = [lastError EXCEPT ![s] = "engine"]

\* The search goes on with the next engine, or ends without results (503).
OnAfter(s, attempts) ==
  IF attempts >= MaxAttempts \/ late[s] \/ Len(backends[s]) = 1 THEN Answer(s)
  ELSE /\ Go(s, "engine")
       /\ backends' = [backends EXCEPT ![s] = Tail(@)]
       /\ used' = [used EXCEPT ![s] = attempts] /\ tries' = [tries EXCEPT ![s] = 0]
       /\ UNCHANGED <<todo, late, lastError>>

Rotations(routes) ==
  {SubSeq(routes, i, Len(routes)) \o SubSeq(routes, 1, i - 1) : i \in 1..Len(routes)}

AcquireEngine(s) ==
  /\ pc[s] = "engine"
  /\ CurrentEngine(s) \in Enabled /\ Available(CurrentEngine(s))
  /\ Acquire(s, CurrentEngine(s))
  /\ \E routes \in Rotations(RoutesOf[CurrentEngine(s)]) :
       todo' = [todo EXCEPT ![s] = routes]
  /\ lastError' = [lastError EXCEPT ![s] = "engine"]
  /\ Go(s, "route")
  /\ UNCHANGED <<backends, route, used, tries, late, rounds>>

\* Mutant: an engine that was not acquired is given back as well.
SkipEngineGiveBack(s) ==
  /\ pc[s] = "engine"
  /\ ~(CurrentEngine(s) \in Enabled /\ Available(CurrentEngine(s)))
  /\ GiveBack(s, CurrentEngine(s))
  /\ OnAfter(s, used[s])
  /\ UNCHANGED <<route, rounds>>

SkipEngine(s) ==
  /\ pc[s] = "engine"
  /\ ~(CurrentEngine(s) \in Enabled /\ Available(CurrentEngine(s)))
  /\ OnAfter(s, used[s])
  /\ UNCHANGED <<breaker, route, rounds, history>>

\* The routes, the attempts or the time are used up.
Spent(s) == todo[s] = <<>> \/ used[s] + tries[s] >= MaxAttempts \/ late[s]

TakeRoute(s) ==
  /\ pc[s] = "route" /\ ~Spent(s)
  /\ todo' = [todo EXCEPT ![s] = Tail(@)]
  /\ LET r == Head(todo[s]) IN
     IF r = Direct \/ Available(r)
     THEN /\ IF r = Direct THEN UNCHANGED <<breaker, history>> ELSE Acquire(s, r)
          /\ route' = [route EXCEPT ![s] = r]
          /\ tries' = [tries EXCEPT ![s] = @ + 1]
          /\ Go(s, "calling")
     ELSE UNCHANGED <<breaker, pc, route, tries, history>>
  /\ UNCHANGED <<backends, used, lastError, late, rounds>>

\* finish_proxy with what the call ended with.
FinishProxy(s, error) ==
  IF route[s] = Direct THEN UNCHANGED <<breaker, history>>
  ELSE \/ error = None /\ Succeed(s, route[s])
       \/ error = "transport" /\ FailBreaker(s, route[s])
       \/ error = "engine" /\ ClearProxy(s, route[s])

\* The call returns, or its timeout raises.
Return(s, error) ==
  /\ pc[s] = "calling"
  /\ FinishProxy(s, error)
  /\ lastError' = [lastError EXCEPT ![s] = error]
  /\ Go(s, IF error = None THEN "finish" ELSE "route")
  /\ route' = [route EXCEPT ![s] = Direct]
  /\ UNCHANGED <<backends, todo, used, tries, late, rounds>>

GiveUp(s) ==
  /\ pc[s] = "route" /\ Spent(s)
  /\ Go(s, "finish")
  /\ UNCHANGED <<breaker, local, history>>

\* The finally of _run_backend, and what search makes of it.
FinishEngine(s) ==
  /\ pc[s] = "finish"
  /\ IF tries[s] = 0 THEN GiveBack(s, CurrentEngine(s))
     ELSE IF lastError[s] = None THEN Succeed(s, CurrentEngine(s))
     ELSE FailBreaker(s, CurrentEngine(s))
  /\ IF tries[s] > 0 /\ lastError[s] = None
     THEN Answer(s)
     ELSE OnAfter(s, used[s] + tries[s])
  /\ UNCHANGED <<route, rounds>>

\* The soft budget of a search is over.
Expire(s) ==
  /\ pc[s] # "idle" /\ ~late[s]
  /\ late' = [late EXCEPT ![s] = TRUE]
  /\ UNCHANGED <<breaker, pc, backends, todo, route, used, tries, lastError, rounds,
                 history>>

Tick ==
  /\ \E b \in Part : breaker[b].wait > 0
  /\ breaker' = [b \in Part |->
                   [breaker[b] EXCEPT !.wait = IF @ > 0 THEN @ - 1 ELSE 0]]
  /\ UNCHANGED <<pc, local, history>>

Proceed(s) ==
  \/ AcquireEngine(s) \/ SkipEngine(s) \/ TakeRoute(s) \/ GiveUp(s) \/ FinishEngine(s)
  \/ \E error \in Error \union {None} : Return(s, error)

Next ==
  \/ \E s \in Search : Begin(s) \/ Proceed(s) \/ Expire(s)
  \/ Tick

\* The thread of a search runs, and its calls have timeouts.
Spec == Init /\ [][Next]_vars /\ \A s \in Search : WF_vars(Proceed(s))
-----------------------------------------------------------------------------
(* Properties *)

TypeOK ==
  /\ breaker \in [Part -> [attempts : Nat, successes : Nat, failures : Nat,
                           wait : Nat, probing : BOOLEAN]]
  /\ pc \in [Search -> {"idle", "engine", "route", "calling", "finish"}]
  /\ backends \in [Search -> Seq(Engine)]
  /\ todo \in [Search -> Seq(Proxy \union {Direct})]
  /\ route \in [Search -> Proxy \union {Direct}]
  /\ used \in [Search -> Nat] /\ tries \in [Search -> Nat]
  /\ lastError \in [Search -> Error \union {None}]
  /\ late \in [Search -> BOOLEAN] /\ rounds \in [Search -> Nat]
  /\ holders \in [Part -> SUBSET Search] /\ probers \in [Part -> SUBSET Search]
  /\ disturbed \in [Part -> BOOLEAN]

\* A breaker in probing state has a probe under way: whatever the threads do,
\* no engine and no proxy is kept out of use by a lease that nobody will return.
LeaseHasHolder == \A b \in Part : breaker[b].probing => probers[b] # {}

\* test_half_open_probe_is_exclusive: two probes of one engine or proxy run at
\* once only after a request that was let in before has finished the first.
ProbeExclusive ==
  \A b \in Part : Cardinality(probers[b]) > 1 => disturbed[b]

\* DDG_MAX_ATTEMPTS "limits route attempts" (DIAGNOSIS.md) of a search, over
\* all its engines.
AttemptsBounded == \A s \in Search : used[s] + tries[s] <= MaxAttempts

\* success_rate is a rate: each call under way was counted as an attempt, and
\* what was given back or finished by others never makes the count too small.
CountsSound ==
  \A b \in Part :
    breaker[b].successes + Cardinality(holders[b]) <= breaker[b].attempts

\* A probe ends, and the breaker is available again or open for some time.
LeaseReturns == \A b \in Part : breaker[b].probing ~> ~breaker[b].probing
=============================================================================
