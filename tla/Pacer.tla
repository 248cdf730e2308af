-------------------------------- MODULE Pacer --------------------------------
(***************************************************************************)
(* The reservation clock of one paced key: Pacer in server/src/pacing.rs.  *)
(* reserve() reads the time, takes the key's mutex, and either hands out   *)
(* the next free slot or refuses; the holder of a slot sleeps until it is  *)
(* due.  A slot that is dropped, served or cancelled, only leaves the      *)
(* depth counter: the clock is never rewound.                              *)
(*                                                                         *)
(* The time is read before the mutex is taken, so two requests may reach   *)
(* the clock in the other order than they read the time: Arrive and        *)
(* Reserve are separate steps.  A request carries the key as the catalog   *)
(* had it, so requests under an old and a new setting may meet on the same *)
(* clock.  The clock starts in the past: its first user finds it free.     *)
(***************************************************************************)
EXTENDS Integers, FiniteSets

CONSTANTS
  Request,    \* searches that may want a slot of the key
  Setting,    \* the key's interval and horizons, before and after an edit
  Patience,   \* what may be left of a search's timeout_ms when it asks
  Margin,     \* what a slot must leave for the answer: 50 ms
  MaxTime     \* bound on the time

Priority == {"main", "aux"}

\* An aux horizon is a fraction below 1 of the main one; an interval of zero
\* is a rate too high for the clock.
ASSUME PacerAssumption ==
  /\ Setting # {}
  /\ Setting \subseteq [interval : Nat, main : Nat, aux : Nat]
  /\ \A key \in Setting : key.aux <= key.main
  /\ Patience \subseteq Nat
  /\ Margin \in Nat /\ MaxTime \in Nat
  /\ IsFiniteSet(Request)

VARIABLES
  now,
  next,      \* KeyQueue.next
  depth,     \* QueueMetrics.queue_depth
  phase,     \* where each request stands
  ask,       \* what it brought: the time it read, its key, its deadline
  slot,      \* the Slot it holds
  granted    \* history: every reservation made

vars == <<now, next, depth, phase, ask, slot, granted>>

Larger(a, b) == IF a >= b THEN a ELSE b

Ask  == [at : Nat, key : Setting, priority : Priority, deadline : Nat]
Slot == [at : Nat, queued : BOOLEAN]
Reservation ==
  [at : Nat, key : Setting, priority : Priority, holder : Request]

NoAsk  == [at |-> 0, key |-> CHOOSE key \in Setting : TRUE,
           priority |-> "main", deadline |-> 0]
NoSlot == [at |-> 0, queued |-> FALSE]

Init ==
  /\ now = 0 /\ next = 0 /\ depth = 0
  /\ phase = [r \in Request |-> "away"]
  /\ ask = [r \in Request |-> NoAsk]
  /\ slot = [r \in Request |-> NoSlot]
  /\ granted = {}

\* A search picked the key and read the time: the first slot of a call, or
\* another one for the retry of a call that failed.
Arrive(r) ==
  /\ phase[r] = "away"
  /\ \E key \in Setting, p \in Priority, left \in Patience :
       ask' = [ask EXCEPT ![r] = [at |-> now, key |-> key, priority |-> p,
                                  deadline |-> now + left]]
  /\ phase' = [phase EXCEPT ![r] = "asks"]
  /\ UNCHANGED <<now, next, depth, slot, granted>>

\* Mutant: every request is given the time it asked at.
FreeAtOnce(a) == a.at

\* The slot a request would get: the clock's, or at once if that is past.
Free(a) == Larger(next, a.at)

\* Mutant: aux searches get the main horizon.
HorizonShared(a) == a.key.main

\* How long a request of its priority may be made to wait.
Horizon(a) == a.key[a.priority]

Fits(a) ==
  /\ Free(a) - a.at <= Horizon(a)
  /\ Free(a) + Margin < a.deadline

\* Only a slot in the future is waited for, and counted in the depth.
Queued(a) == Free(a) > a.at

\* The reservation.  A rate beyond the clock's resolution gets none.
Reserve(r) ==
  LET a == ask[r] IN
  /\ phase[r] = "asks"
  /\ Fits(a) /\ a.key.interval > 0
  /\ next' = Free(a) + a.key.interval
  /\ depth' = depth + IF Queued(a) THEN 1 ELSE 0
  /\ slot' = [slot EXCEPT ![r] = [at |-> Free(a), queued |-> Queued(a)]]
  /\ granted' = granted \union
       {[at |-> Free(a), key |-> a.key, priority |-> a.priority, holder |-> r]}
  /\ phase' = [phase EXCEPT ![r] = "holds"]
  /\ ask' = [ask EXCEPT ![r] = NoAsk]
  /\ UNCHANGED now

\* budget_exhausted: the search goes on to another candidate.
Refuse(r) ==
  /\ phase[r] = "asks"
  /\ ~(Fits(ask[r]) /\ ask[r].key.interval > 0)
  /\ phase' = [phase EXCEPT ![r] = "away"]
  /\ ask' = [ask EXCEPT ![r] = NoAsk]
  /\ UNCHANGED <<now, next, depth, slot, granted>>

\* Mutant: an immediate slot is taken off the depth too.
DropAny(r) == depth' = depth - 1 /\ slot' = [slot EXCEPT ![r] = NoSlot]

\* Slot::drop
Drop(r) ==
  /\ depth' = depth - IF slot[r].queued THEN 1 ELSE 0
  /\ slot' = [slot EXCEPT ![r] = NoSlot]

\* Slot::wait returns, on time or late, or the search is cancelled before.
Serve(r) ==
  /\ phase[r] = "holds" /\ slot[r].at <= now
  /\ Drop(r)
  /\ phase' = [phase EXCEPT ![r] = "away"]
  /\ UNCHANGED <<now, next, ask, granted>>

Cancel(r) ==
  /\ phase[r] = "holds" /\ slot[r].at > now
  /\ Drop(r)
  /\ phase' = [phase EXCEPT ![r] = "away"]
  /\ UNCHANGED <<now, next, ask, granted>>

Tick ==
  /\ now < MaxTime
  /\ now' = now + 1
  /\ UNCHANGED <<next, depth, phase, ask, slot, granted>>

Next ==
  \/ Tick
  \/ \E r \in Request : Arrive(r) \/ Reserve(r) \/ Refuse(r) \/ Serve(r) \/ Cancel(r)

Spec == Init /\ [][Next]_vars
-----------------------------------------------------------------------------
(* Properties *)

TypeOK ==
  /\ now \in Nat /\ next \in Nat /\ depth \in Nat
  /\ phase \in [Request -> {"away", "asks", "holds"}]
  /\ ask \in [Request -> Ask]
  /\ slot \in [Request -> Slot]
  /\ granted \subseteq Reservation

\* "Reservations keep their admitted order" (README), and each new slot comes
\* a full interval after every slot handed out before, whoever holds it,
\* whatever the order in which the requests read the time, and whether the
\* earlier slots were used or cancelled.
AdmittedInOrder ==
  [][\A new \in granted' \ granted, old \in granted :
       old.at + old.key.interval <= new.at]_vars

\* "A cancellation never creates a permanent gap" (pacing.rs): however many
\* slots are abandoned, the clock is never further ahead than one horizon and
\* one interval, so a key that nobody uses is free again after that.
HorizonBounded ==
  next > now => \E key \in Setting : next <= now + key.main + key.interval

\* No main search is waiting for a slot.
OnlyAuxWaits == \A s \in granted : s.at > now => s.priority = "aux"

\* What an aux flood can do to the clock: as long as no main search has a slot
\* ahead, the next one is within the aux horizon and one interval.
AuxLeavesRoom ==
  OnlyAuxWaits /\ next > now =>
    \E key \in Setting : next <= now + key.aux + key.interval

\* "Aux floods cannot fill the longer main horizon, so main requests retain
\* capacity under pressure" (README): where aux searches alone have ever used
\* the key, a main search would be let in.  Not so for an interval longer than
\* what the aux horizon leaves of the main one.
MainRetainsCapacity ==
  (\A s \in granted : s.priority = "aux") =>
    \A key \in Setting : next - now <= key.main

\* The depth is what /health calls "currently waiting requests".  It is an
\* unsigned counter moved by two different owners, the clock and the slots.
DepthCounts ==
  depth = Cardinality({r \in Request : phase[r] = "holds" /\ slot[r].queued})
=============================================================================
