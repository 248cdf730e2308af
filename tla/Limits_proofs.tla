----------------------------- MODULE Limits_proofs -----------------------------
(***************************************************************************)
(* What the two limits of a key promise: the pace of Pacer, and the budget *)
(* of UsageBudget.  They hold separately; neither looks at the other.      *)
(*                                                                         *)
(* Pace, for any number of searches and any settings of the key.  The      *)
(* clock is tied to the reservations: it stands one interval after the     *)
(* last of them, and that one was within its own horizon when it was made, *)
(* hence still is, as time only moves on.                                  *)
(*                                                                         *)
(* Budget, for any set of users, any limit and any number of calls.        *)
(* OverrunBounded rests on Balance: a window that is full has, for every   *)
(* call beyond the limit, spent one of the unchecked calls, and those that *)
(* users may still make on it are not among them.                          *)
(***************************************************************************)
EXTENDS Pacer, UsageBudget, TLAPS, FiniteSetTheorems
-----------------------------------------------------------------------------
(* The pace *)

\* No reservation reaches beyond the clock.
BehindClock == \A s \in granted : s.at + s.key.interval <= next

\* The reservation the clock stands after, within its horizon of now.
LastGrant ==
  next > 0 =>
    \E s \in granted :
      next = s.at + s.key.interval /\ s.at <= now + s.key[s.priority]

\* Nobody has read a time that is not there yet.
AskedInPast == \A r \in Request : ask[r].at <= now

\* Those the depth counts.
Waiting == {r \in Request : phase[r] = "holds" /\ slot[r].queued}

\* The inductive invariant.
ClockInv == TypeOK /\ BehindClock /\ LastGrant /\ AskedInPast /\ DepthCounts

LEMMA AskTypes ==
  ASSUME NEW a \in Ask
  PROVE  /\ a.at \in Nat /\ a.deadline \in Nat
         /\ a.key \in Setting /\ a.priority \in Priority
         /\ a.key.interval \in Nat /\ a.key.main \in Nat /\ a.key.aux \in Nat
         /\ Horizon(a) \in Nat /\ Horizon(a) <= a.key.main
         /\ Free(a) = IF next >= a.at THEN next ELSE a.at
<1>1. a.key \in [interval : Nat, main : Nat, aux : Nat]
  BY PacerAssumption DEF Ask
<1>2. a.key.aux <= a.key.main
  BY PacerAssumption DEF Ask
<1>3. a.priority = "main" \/ a.priority = "aux"
  BY DEF Ask, Priority
<1> QED
  BY <1>1, <1>2, <1>3 DEF Ask, Horizon, Free, Larger

LEMMA NoAskTypes == NoAsk \in Ask /\ NoAsk.at = 0 /\ NoSlot \in Slot
<1>1. (CHOOSE key \in Setting : TRUE) \in Setting
  BY PacerAssumption
<1> QED
  BY <1>1 DEF NoAsk, Ask, Priority, NoSlot, Slot

\* Waiting is finite, so that its size can be counted up and down.
LEMMA WaitingFinite == IsFiniteSet(Waiting) /\ Cardinality(Waiting) \in Nat
<1>1. Waiting \in SUBSET Request
  BY DEF Waiting
<1> QED
  BY <1>1, PacerAssumption, FS_Subset, FS_CardinalityType

LEMMA InitClock == Init => ClockInv
<1> SUFFICES ASSUME Init PROVE ClockInv
  OBVIOUS
<1>1. TypeOK
  BY NoAskTypes DEF Init, TypeOK
<1>2. BehindClock /\ LastGrant
  BY DEF Init, BehindClock, LastGrant
<1>3. AskedInPast
  BY NoAskTypes DEF Init, AskedInPast
<1>4. DepthCounts
  <2>1. Waiting = {}
    BY DEF Init, Waiting
  <2> QED
    BY <2>1, FS_EmptySet DEF Init, DepthCounts, Waiting
<1> QED
  BY <1>1, <1>2, <1>3, <1>4 DEF ClockInv

LEMMA ArriveClock ==
  ASSUME ClockInv, NEW r \in Request, Arrive(r)
  PROVE  ClockInv'
<1>1. PICK key \in Setting, p \in Priority, left \in Patience :
         ask' = [ask EXCEPT ![r] = [at |-> now, key |-> key, priority |-> p,
                                    deadline |-> now + left]]
  BY DEF Arrive
<1>2. now \in Nat /\ left \in Nat
  BY PacerAssumption DEF ClockInv, TypeOK
<1>3. now + left \in Nat
  BY <1>2
<1>4. [at |-> now, key |-> key, priority |-> p, deadline |-> now + left] \in Ask
  BY <1>2, <1>3 DEF Ask
<1>5. TypeOK'
  BY <1>1, <1>4 DEF ClockInv, TypeOK, Arrive
<1>6. (BehindClock /\ LastGrant)'
  BY DEF ClockInv, BehindClock, LastGrant, Arrive
<1>7. AskedInPast'
  BY <1>1, <1>2 DEF ClockInv, TypeOK, AskedInPast, Arrive
<1>8. DepthCounts'
  <2>1. Waiting' = Waiting
    BY DEF Arrive, Waiting, ClockInv, TypeOK
  <2> QED
    BY <2>1 DEF ClockInv, DepthCounts, Waiting, Arrive
<1> QED
  BY <1>5, <1>6, <1>7, <1>8 DEF ClockInv

LEMMA ReserveClock ==
  ASSUME ClockInv, NEW r \in Request, Reserve(r)
  PROVE  /\ ClockInv'
         /\ \A new \in granted' \ granted, old \in granted :
              old.at + old.key.interval <= new.at
<1> DEFINE a == ask[r]
<1> DEFINE new == [at |-> Free(a), key |-> a.key, priority |-> a.priority, holder |-> r]
<1>1. a \in Ask /\ a.at <= now /\ now \in Nat /\ next \in Nat /\ depth \in Nat
  BY DEF ClockInv, TypeOK, AskedInPast
<1>2. /\ a.at \in Nat /\ a.key \in Setting /\ a.priority \in Priority
      /\ a.key.interval \in Nat
      /\ Horizon(a) \in Nat
      /\ Free(a) = IF next >= a.at THEN next ELSE a.at
  BY <1>1, AskTypes
<1>3. Free(a) \in Nat /\ next <= Free(a)
  BY <1>1, <1>2
<1>4. Free(a) - a.at <= Horizon(a) /\ a.key.interval > 0
  BY DEF Reserve, Fits
<1>5. Free(a) <= now + Horizon(a)
  BY <1>1, <1>2, <1>3, <1>4
<1>6. next' = Free(a) + a.key.interval /\ next' \in Nat
  BY <1>2, <1>3 DEF Reserve
<1>7. new \in Reservation /\ granted' = granted \union {new}
  BY <1>2, <1>3 DEF Reserve, Reservation
<1>8. new.at = Free(a) /\ new.key = a.key /\ new.key[new.priority] = Horizon(a)
  BY DEF Horizon
<1>9. Queued(a) \in BOOLEAN
  BY DEF Queued
<1>10. TypeOK'
  <2>1. depth' \in Nat
    BY <1>1, <1>9 DEF Reserve
  <2>2. [at |-> Free(a), queued |-> Queued(a)] \in Slot
    BY <1>3, <1>9 DEF Slot
  <2>3. slot' \in [Request -> Slot] /\ ask' \in [Request -> Ask]
    BY <2>2, NoAskTypes DEF Reserve, ClockInv, TypeOK
  <2> HIDE DEF new
  <2> QED
    BY <2>1, <2>3, <1>6, <1>7 DEF Reserve, ClockInv, TypeOK
<1>11. \A old \in granted : old.at + old.key.interval <= Free(a)
  <2> SUFFICES ASSUME NEW old \in granted
               PROVE  old.at + old.key.interval <= Free(a)
    OBVIOUS
  <2>1. old.at \in Nat /\ old.key.interval \in Nat
    BY PacerAssumption DEF ClockInv, TypeOK, Reservation
  <2>2. old.at + old.key.interval <= next
    BY DEF ClockInv, BehindClock
  <2> QED
    BY <2>1, <2>2, <1>1, <1>3
<1>12. BehindClock'
  <2> SUFFICES ASSUME NEW s \in granted' PROVE s.at + s.key.interval <= next'
    BY DEF BehindClock
  <2>1. CASE s = new
    BY <2>1, <1>6, <1>8, <1>2, <1>3
  <2>2. CASE s \in granted
    <3>1. s.at + s.key.interval <= Free(a)
      BY <2>2, <1>11
    <3>2. s.at \in Nat /\ s.key.interval \in Nat
      BY <2>2, PacerAssumption DEF ClockInv, TypeOK, Reservation
    <3> QED
      BY <3>1, <3>2, <1>2, <1>3, <1>6
  <2> HIDE DEF new
  <2> QED
    BY <2>1, <2>2, <1>7
<1>13. LastGrant'
  <2>1. now' = now
    BY DEF Reserve
  <2> HIDE DEF new
  <2> QED
    BY <2>1, <1>5, <1>6, <1>7, <1>8 DEF LastGrant
<1>14. AskedInPast'
  BY NoAskTypes DEF Reserve, ClockInv, TypeOK, AskedInPast
<1>15. DepthCounts'
  <2>1. r \notin Waiting
    BY DEF Reserve, Waiting
  <2>2. CASE Queued(a)
    <3>1. Waiting' = Waiting \union {r}
      BY <2>2 DEF Reserve, Waiting, ClockInv, TypeOK
    <3>2. depth' = depth + 1
      BY <2>2 DEF Reserve
    <3> QED
      BY <3>1, <3>2, <2>1, WaitingFinite, FS_AddElement
      DEF ClockInv, DepthCounts, Waiting
  <2>3. CASE ~Queued(a)
    <3>1. Waiting' = Waiting
      BY <2>3 DEF Reserve, Waiting, ClockInv, TypeOK
    <3>2. depth' = depth
      BY <2>3, <1>1 DEF Reserve
    <3> QED
      BY <3>1, <3>2 DEF ClockInv, DepthCounts, Waiting
  <2> QED
    BY <2>2, <2>3
<1> HIDE DEF new
<1> QED
  BY <1>7, <1>8, <1>10, <1>11, <1>12, <1>13, <1>14, <1>15 DEF ClockInv

\* A slot leaves the depth as it entered it, served or cancelled.
LEMMA DropClock ==
  ASSUME ClockInv, NEW r \in Request, phase[r] = "holds", Drop(r),
         phase' = [phase EXCEPT ![r] = "away"],
         UNCHANGED <<now, next, ask, granted>>
  PROVE  ClockInv'
<1>1. slot[r] \in Slot /\ slot[r].queued \in BOOLEAN /\ depth \in Nat
  BY DEF ClockInv, TypeOK, Slot
<1>2. Waiting' = Waiting \ {r}
  BY NoAskTypes DEF Drop, Waiting, ClockInv, TypeOK
<1>3. r \in Waiting <=> slot[r].queued
  BY DEF Waiting
<1>4. depth = Cardinality(Waiting)
  BY DEF ClockInv, DepthCounts, Waiting
<1>5. Cardinality(Waiting') =
        IF r \in Waiting THEN Cardinality(Waiting) - 1 ELSE Cardinality(Waiting)
  BY <1>2, WaitingFinite, FS_RemoveElement
<1>6. depth' = Cardinality(Waiting')
  BY <1>1, <1>3, <1>4, <1>5 DEF Drop
<1>7. depth' \in Nat
  <2>1. IsFiniteSet(Waiting')
    BY <1>2, WaitingFinite, FS_RemoveElement
  <2> QED
    BY <2>1, <1>6, FS_CardinalityType
<1>8. TypeOK'
  BY <1>7, NoAskTypes DEF ClockInv, TypeOK, Drop
<1>9. (BehindClock /\ LastGrant /\ AskedInPast)'
  BY DEF ClockInv, BehindClock, LastGrant, AskedInPast
<1> QED
  BY <1>6, <1>8, <1>9 DEF ClockInv, DepthCounts, Waiting

LEMMA OtherClock ==
  ASSUME ClockInv,
         Tick \/ (\E r \in Request : Refuse(r)) \/ UNCHANGED vars
  PROVE  ClockInv'
<1>1. CASE Tick
  <2>1. now \in Nat /\ now' = now + 1
    BY <1>1 DEF Tick, ClockInv, TypeOK
  <2>2. TypeOK' /\ BehindClock' /\ DepthCounts'
    BY <1>1, <2>1 DEF Tick, ClockInv, TypeOK, BehindClock, DepthCounts
  <2>3. LastGrant'
    <3> SUFFICES ASSUME next > 0
                 PROVE  \E s \in granted : /\ next = s.at + s.key.interval
                                           /\ s.at <= now' + s.key[s.priority]
      BY <1>1 DEF Tick, LastGrant
    <3>1. PICK s \in granted : /\ next = s.at + s.key.interval
                               /\ s.at <= now + s.key[s.priority]
      BY DEF ClockInv, LastGrant
    <3>2. s.at \in Nat /\ s.key[s.priority] \in Nat
      BY PacerAssumption DEF ClockInv, TypeOK, Reservation, Priority
    <3> QED
      BY <3>1, <3>2, <2>1
  <2>4. AskedInPast'
    <3> SUFFICES ASSUME NEW r \in Request PROVE ask[r].at <= now'
      BY <1>1 DEF Tick, AskedInPast
    <3>1. ask[r].at \in Nat /\ ask[r].at <= now
      BY DEF ClockInv, TypeOK, AskedInPast, Ask
    <3> QED
      BY <3>1, <2>1
  <2> QED
    BY <2>2, <2>3, <2>4 DEF ClockInv
<1>2. CASE \E r \in Request : Refuse(r)
  <2>1. PICK r \in Request : Refuse(r)
    BY <1>2
  <2>2. Waiting' = Waiting
    BY <2>1 DEF Refuse, Waiting, ClockInv, TypeOK
  <2>3. TypeOK' /\ AskedInPast'
    BY <2>1, NoAskTypes DEF Refuse, ClockInv, TypeOK, AskedInPast
  <2> QED
    BY <2>1, <2>2, <2>3
    DEF Refuse, ClockInv, BehindClock, LastGrant, DepthCounts, Waiting
<1>3. CASE UNCHANGED vars
  BY <1>3 DEF vars, ClockInv, TypeOK, BehindClock, LastGrant, AskedInPast,
     DepthCounts
<1> QED
  BY <1>1, <1>2, <1>3

LEMMA NextClock ==
  ASSUME ClockInv, [Next]_vars
  PROVE  /\ ClockInv'
         /\ \A new \in granted' \ granted, old \in granted :
              old.at + old.key.interval <= new.at
<1>1. CASE \E r \in Request : Reserve(r)
  BY <1>1, ReserveClock
<1>2. CASE \E r \in Request : Arrive(r)
  BY <1>2, ArriveClock DEF Arrive
<1>3. CASE \E r \in Request : Serve(r) \/ Cancel(r)
  BY <1>3, DropClock DEF Serve, Cancel
<1>4. CASE Tick \/ (\E r \in Request : Refuse(r)) \/ UNCHANGED vars
  <2>1. granted' = granted
    BY <1>4 DEF Tick, Refuse, vars
  <2> QED
    BY <1>4, <2>1, OtherClock
<1> QED
  BY <1>1, <1>2, <1>3, <1>4 DEF Next

THEOREM ClockHolds == Spec => []ClockInv
<1>1. ClockInv /\ [Next]_vars => ClockInv'
  BY NextClock
<1> QED
  BY InitClock, <1>1, PTL DEF Spec

\* The state of the clock is well typed: in particular the unsigned depth
\* never goes below zero.
THEOREM TypeCorrect == Spec => []TypeOK
<1>1. ClockInv => TypeOK
  BY DEF ClockInv
<1> QED
  BY <1>1, ClockHolds, PTL

\* The depth is the number of searches that sleep for a slot.
THEOREM DepthIsWaiters == Spec => []DepthCounts
<1>1. ClockInv => DepthCounts
  BY DEF ClockInv
<1> QED
  BY <1>1, ClockHolds, PTL

\* Every slot comes an interval after all earlier ones, in admitted order.
THEOREM SlotsSpaced == Spec => AdmittedInOrder
<1> DEFINE Spaced == \A new \in granted' \ granted, old \in granted :
                       old.at + old.key.interval <= new.at
<1>1. ClockInv /\ [Next]_vars => [Spaced]_vars
  BY NextClock
<1> HIDE DEF Spaced
<1>2. Spec => [][Spaced]_vars
  BY <1>1, ClockHolds, PTL DEF Spec
<1> QED
  BY <1>2 DEF AdmittedInOrder, Spaced

\* What the last reservation says of the clock, with its arithmetic done.
LEMMA LastWithin ==
  ASSUME ClockInv, next > now
  PROVE  \E s \in granted :
           /\ s.key \in Setting
           /\ next = s.at + s.key.interval
           /\ next <= now + s.key[s.priority] + s.key.interval
           /\ s.priority \in Priority
<1>1. now \in Nat /\ next \in Nat
  BY DEF ClockInv, TypeOK
<1>2. PICK s \in granted :
        next = s.at + s.key.interval /\ s.at <= now + s.key[s.priority]
  BY <1>1 DEF ClockInv, LastGrant
<1>3. s.key \in Setting /\ s.priority \in Priority /\ s.at \in Nat
  BY DEF ClockInv, TypeOK, Reservation
<1>4. s.key.interval \in Nat /\ s.key[s.priority] \in Nat
  BY <1>3, PacerAssumption DEF Priority
<1> QED
  BY <1>1, <1>2, <1>3, <1>4

\* The clock is never further ahead than one horizon and one interval.
THEOREM ClockNeverRunsAway == Spec => []HorizonBounded
<1>1. ClockInv => HorizonBounded
  <2> SUFFICES ASSUME ClockInv, next > now
               PROVE  \E key \in Setting : next <= now + key.main + key.interval
    BY DEF HorizonBounded
  <2>1. PICK s \in granted :
          /\ s.key \in Setting
          /\ next <= now + s.key[s.priority] + s.key.interval
          /\ s.priority \in Priority
    BY LastWithin
  <2>2. /\ s.key.interval \in Nat /\ s.key.main \in Nat /\ s.key.aux \in Nat
        /\ s.key.aux <= s.key.main /\ now \in Nat /\ next \in Nat
    BY <2>1, PacerAssumption DEF ClockInv, TypeOK
  <2>3. s.key[s.priority] \in Nat /\ s.key[s.priority] <= s.key.main
    BY <2>1, <2>2 DEF Priority
  <2> QED
    BY <2>1, <2>2, <2>3
<1> QED
  BY <1>1, ClockHolds, PTL

\* An aux flood leaves the clock within the aux horizon and one interval.
THEOREM AuxFloodLeavesRoom == Spec => []AuxLeavesRoom
<1>1. ClockInv => AuxLeavesRoom
  <2> SUFFICES ASSUME ClockInv, OnlyAuxWaits, next > now
               PROVE  \E key \in Setting : next <= now + key.aux + key.interval
    BY DEF AuxLeavesRoom
  <2>1. PICK s \in granted :
          /\ s.key \in Setting
          /\ next = s.at + s.key.interval
          /\ next <= now + s.key[s.priority] + s.key.interval
    BY LastWithin
  <2>2. /\ s.key.interval \in Nat /\ s.key.aux \in Nat
        /\ now \in Nat /\ next \in Nat /\ s.at \in Nat
    BY <2>1, PacerAssumption DEF ClockInv, TypeOK, Reservation
  <2>3. CASE s.at > now
    <3>1. s.priority = "aux"
      BY <2>3 DEF OnlyAuxWaits
    <3> QED
      BY <3>1, <2>1
  <2>4. CASE s.at <= now
    BY <2>1, <2>2, <2>4
  <2> QED
    BY <2>2, <2>3, <2>4
<1> QED
  BY <1>1, ClockHolds, PTL

\* When the aux horizon and an interval fit in the main horizon, the README's
\* claim holds: a main search with time enough is let in behind an aux flood.
THEOREM MainSurvivesAuxFlood ==
  ASSUME \A k, l \in Setting : k.aux + k.interval <= l.main
  PROVE  Spec => []MainRetainsCapacity
<1>1. ClockInv => MainRetainsCapacity
  <2> SUFFICES ASSUME ClockInv, \A s \in granted : s.priority = "aux",
                      NEW l \in Setting
               PROVE  next - now <= l.main
    BY DEF MainRetainsCapacity
  <2>1. now \in Nat /\ next \in Nat /\ l.main \in Nat
    BY PacerAssumption DEF ClockInv, TypeOK
  <2>2. CASE next > now
    <3>1. PICK s \in granted :
            /\ s.key \in Setting
            /\ next <= now + s.key[s.priority] + s.key.interval
      BY <2>2, LastWithin
    <3>2. next <= now + s.key.aux + s.key.interval
      BY <3>1
    <3>3. s.key.aux \in Nat /\ s.key.interval \in Nat
      BY <3>1, PacerAssumption
    <3>4. s.key.aux + s.key.interval <= l.main
      BY <3>1
    <3> QED
      BY <2>1, <3>2, <3>3, <3>4
  <2> QED
    BY <2>1, <2>2
<1> QED
  BY <1>1, ClockHolds, PTL
-----------------------------------------------------------------------------
(* The budget *)

\* A user that works on a window holds one, a user elsewhere holds none, and one
\* on its way to a window for a call still has a call to make.
HoldsWindow ==
  \A u \in User :
    /\ pc[u] = "use" => ref[u] # None
    /\ pc[u] \in {"away", "find", "insert", "calling"} => ref[u] = None
    /\ pc[u] \in {"find", "insert", "use"} /\ task[u] # "sync" => calls[u] > 0

BudgetInv == BudgetTypeOK /\ HoldsWindow

LEMMA InitInv == BudgetInit => BudgetInv
<1> SUFFICES ASSUME BudgetInit PROVE BudgetInv
  OBVIOUS
<1>1. BudgetTypeOK
  BY DEF BudgetInit, BudgetTypeOK
<1>2. HoldsWindow
  BY DEF BudgetInit, HoldsWindow
<1> QED BY <1>1, <1>2 DEF BudgetInv

LEMMA NextInv == BudgetInv /\ [BudgetNext]_budgetVars => BudgetInv'
<1> SUFFICES ASSUME BudgetInv, [BudgetNext]_budgetVars PROVE BudgetInv'
  OBVIOUS
<1> USE BudgetAssumption DEF BudgetInv, BudgetTypeOK, HoldsWindow
<1>1. ASSUME NEW u \in User, Consider(u) PROVE BudgetInv'
  BY <1>1 DEF Consider, Go
<1>2. ASSUME NEW u \in User, Find(u) PROVE BudgetInv'
  BY <1>2 DEF Find, Go
<1>3. ASSUME NEW u \in User, Insert(u) PROVE BudgetInv'
  BY <1>3 DEF Insert, Go
<1>4. ASSUME NEW u \in User, Check(u) PROVE BudgetInv'
  BY <1>4 DEF Check, Leave, Go
<1>5. ASSUME NEW u \in User, Record(u) PROVE BudgetInv'
  BY <1>5 DEF Record, Go
<1>6. ASSUME NEW u \in User, Return(u) PROVE BudgetInv'
  BY <1>6 DEF Return, Leave, Go
<1>7. ASSUME NEW u \in User, CallAgain(u) PROVE BudgetInv'
  BY <1>7 DEF CallAgain, Go
<1>8. ASSUME NEW u \in User, Expire(u) PROVE BudgetInv'
  BY <1>8 DEF Expire
<1>9. ASSUME NEW u \in User, NEW used \in 0..Limit, Sync(u, used) PROVE BudgetInv'
  BY <1>9 DEF Sync, Leave, Go
<1>10. CASE UNCHANGED budgetVars
  BY <1>10 DEF budgetVars
<1> QED BY <1>1, <1>2, <1>3, <1>4, <1>5, <1>6, <1>7, <1>8, <1>9, <1>10 DEF BudgetNext

LEMMA Invariance == BudgetSpec => []BudgetInv
BY InitInv, NextInv, PTL DEF BudgetSpec

\* Every variable keeps its range.
THEOREM BudgetTypeCorrect == BudgetSpec => []BudgetTypeOK
<1>1. BudgetInv => BudgetTypeOK
  BY DEF BudgetInv
<1> QED BY Invariance, <1>1, PTL

\* Once the key has a window and nobody is between looking it up and inserting
\* one, every call is recorded where the budget is looked at, for good.
THEOREM LossEnds == BudgetSpec => LossOnlyAtFirstUse
<1>1. ASSUME BudgetInv, Settled, [BudgetNext]_budgetVars
      PROVE  Settled' /\ \A o \in User : events'[o] > events[o] => o = entry
  <2> USE <1>1, BudgetAssumption DEF BudgetInv, BudgetTypeOK, HoldsWindow, Settled
  <2>1. ASSUME NEW u \in User, Consider(u)
        PROVE  Settled' /\ \A o \in User : ~(events'[o] > events[o])
    BY <2>1 DEF Consider, Go
  <2>2. ASSUME NEW u \in User, Find(u)
        PROVE  Settled' /\ \A o \in User : ~(events'[o] > events[o])
    BY <2>2 DEF Find, Go
  <2>3. ASSUME NEW u \in User, Insert(u) PROVE FALSE
    BY <2>3 DEF Insert
  <2>4. ASSUME NEW u \in User, Check(u)
        PROVE  Settled' /\ \A o \in User : ~(events'[o] > events[o])
    BY <2>4 DEF Check, Leave, Go
  <2>5. ASSUME NEW u \in User, Record(u)
        PROVE  Settled' /\ \A o \in User : events'[o] > events[o] => o = entry
    <3>1. ref[u] = entry
      BY <2>5 DEF Record
    <3> QED BY <2>5, <3>1 DEF Record, Go
  <2>6. ASSUME NEW u \in User, Return(u)
        PROVE  Settled' /\ \A o \in User : ~(events'[o] > events[o])
    BY <2>6 DEF Return, Leave, Go
  <2>7. ASSUME NEW u \in User, CallAgain(u)
        PROVE  Settled' /\ \A o \in User : ~(events'[o] > events[o])
    BY <2>7 DEF CallAgain, Go
  <2>8. ASSUME NEW u \in User, Expire(u)
        PROVE  Settled' /\ \A o \in User : ~(events'[o] > events[o])
    BY <2>8 DEF Expire
  <2>9. ASSUME NEW u \in User, NEW used \in 0..Limit, Sync(u, used)
        PROVE  Settled' /\ \A o \in User : ~(events'[o] > events[o])
    BY <2>9 DEF Sync, Leave, Go
  <2>10. CASE UNCHANGED budgetVars
    BY <2>10 DEF budgetVars
  <2> QED BY <2>1, <2>2, <2>3, <2>4, <2>5, <2>6, <2>7, <2>8, <2>9, <2>10 DEF BudgetNext
<1>2. BudgetInv /\ [BudgetNext]_budgetVars
      => [Settled => /\ Settled'
                     /\ \A o \in User : events'[o] > events[o] => o = entry]_budgetVars
  BY <1>1
<1> QED BY Invariance, <1>2, PTL DEF BudgetSpec, LossOnlyAtFirstUse
-----------------------------------------------------------------------------
(* How far a limit can be exceeded *)

\* What u may still record in the window o although o is full: nothing but what
\* it looked at the budget for before, there or in a window that o has replaced.
Remaining(u, o) ==
  IF entry = o /\ task[u] = "reserve"
  THEN IF u \notin Rechecks THEN calls[u] ELSE IF pc[u] = "calling" THEN 0 ELSE 1
  ELSE IF entry = o /\ task[u] = "check" /\ pc[u] = "use" /\ ref[u] # o
  THEN Unchecked(u)
  ELSE IF task[u] = "reserve" /\ ref[u] = o THEN 1 ELSE 0

\* A window is empty and unknown before somebody inserts it.
Newborn ==
  /\ entry = None => \A u \in User : ref[u] = None /\ events[u] = 0
  /\ \A u \in User : pc[u] = "insert" => entry # u /\ events[u] = 0
                                         /\ \A v \in User : ref[v] # u

WithinCalls ==
  \A u \in User :
    /\ calls[u] <= Calls[u]
    /\ task[u] = "sync" => pc[u] \in {"find", "insert", "use"}
    /\ pc[u] = "calling" => task[u] = "reserve"

\* The unchecked calls that may still hit o.
Ahead(o) == {c \in AllUnchecked : c[2] <= Remaining(c[1], o)}

Balance ==
  \A o \in User :
    events[o] >= Limit
      => events[o] + Cardinality(Ahead(o)) <= Limit - 1 + Cardinality(AllUnchecked)

OverrunInv == BudgetInv /\ Newborn /\ WithinCalls /\ Balance

OverrunBase == BudgetInv /\ Newborn /\ WithinCalls

LEMMA BaseInit == BudgetInit => OverrunBase
<1> SUFFICES ASSUME BudgetInit PROVE OverrunBase
  OBVIOUS
<1>1. Newborn /\ WithinCalls
  BY BudgetAssumption DEF BudgetInit, Newborn, WithinCalls
<1> QED BY <1>1, InitInv DEF OverrunBase

LEMMA BaseNext == OverrunBase /\ [BudgetNext]_budgetVars => OverrunBase'
<1> SUFFICES ASSUME OverrunBase, [BudgetNext]_budgetVars PROVE OverrunBase'
  OBVIOUS
<1> USE BudgetAssumption DEF OverrunBase, BudgetInv, BudgetTypeOK, HoldsWindow, Newborn, WithinCalls
<1>0. BudgetInv'
  BY NextInv
<1>1. ASSUME NEW u \in User, Consider(u) PROVE Newborn' /\ WithinCalls'
  BY <1>1 DEF Consider, Go
<1>2. ASSUME NEW u \in User, Find(u) PROVE Newborn' /\ WithinCalls'
  BY <1>2 DEF Find, Go
<1>3. ASSUME NEW u \in User, Insert(u) PROVE Newborn' /\ WithinCalls'
  BY <1>3 DEF Insert, Go
<1>4. ASSUME NEW u \in User, Check(u) PROVE Newborn' /\ WithinCalls'
  BY <1>4 DEF Check, Leave, Go
<1>5. ASSUME NEW u \in User, Record(u) PROVE Newborn' /\ WithinCalls'
  BY <1>5 DEF Record, Go
<1>6. ASSUME NEW u \in User, Return(u) PROVE Newborn' /\ WithinCalls'
  BY <1>6 DEF Return, Leave, Go
<1>7. ASSUME NEW u \in User, CallAgain(u) PROVE Newborn' /\ WithinCalls'
  BY <1>7 DEF CallAgain, Go
<1>8. ASSUME NEW u \in User, Expire(u) PROVE Newborn' /\ WithinCalls'
  BY <1>8 DEF Expire
<1>9. ASSUME NEW u \in User, NEW used \in 0..Limit, Sync(u, used)
      PROVE Newborn' /\ WithinCalls'
  BY <1>9 DEF Sync, Leave, Go
<1>10. CASE UNCHANGED budgetVars
  BY <1>10 DEF budgetVars
<1> QED
  BY <1>0, <1>1, <1>2, <1>3, <1>4, <1>5, <1>6, <1>7, <1>8, <1>9, <1>10 DEF BudgetNext

LEMMA UncheckedNatural ==
  ASSUME NEW u \in User
  PROVE  Unchecked(u) \in Nat /\ Unchecked(u)' = Unchecked(u)
BY BudgetAssumption DEF Unchecked

RemainingBounded == \A u, o \in User : Remaining(u, o) \in 0..Unchecked(u)

LEMMA RemainingBounds == OverrunBase => RemainingBounded
BY BudgetAssumption
DEF OverrunBase, BudgetInv, BudgetTypeOK, HoldsWindow, WithinCalls, Remaining, Unchecked,
    RemainingBounded

LEMMA RemainingBoundsNext == OverrunBase' => RemainingBounded'
BY RemainingBounds, PTL

LEMMA UncheckedCalls ==
  AllUnchecked = {c \in User \X Nat : c[2] \in 1..Unchecked(c[1])}
BY BudgetAssumption DEF AllUnchecked, Unchecked

LEMMA UncheckedFinite == IsFiniteSet(AllUnchecked)
<1> DEFINE Of(u) == {u} \X (1..Unchecked(u))
           S == {Of(u) : u \in User}
           f == [u \in User |-> Of(u)]
<1>1. \A u \in User : IsFiniteSet(Of(u))
  <2> TAKE u \in User
  <2>1. Unchecked(u) \in Nat
    BY BudgetAssumption DEF Unchecked
  <2>2. IsFiniteSet(1..Unchecked(u)) /\ IsFiniteSet({u})
    <3>1. IsFiniteSet(1..Unchecked(u))
      BY <2>1, FS_Interval
    <3>2. IsFiniteSet({u})
      BY FS_Singleton
    <3> QED BY <3>1, <3>2
  <2> QED BY <2>2, FS_Product
<1>2. f \in Surjection(User, S)
  BY DEF Surjection
<1>3. IsFiniteSet(S)
  <2> HIDE DEF S, f
  <2> QED BY <1>2, BudgetAssumption, FS_Surjection
<1> QED BY <1>1, <1>3, FS_UNION DEF AllUnchecked

LEMMA AheadFinite ==
  ASSUME NEW o
  PROVE  /\ IsFiniteSet(Ahead(o)) /\ IsFiniteSet(Ahead(o)')
         /\ Cardinality(Ahead(o)) \in Nat /\ Cardinality(Ahead(o)') \in Nat
         /\ Cardinality(AllUnchecked) \in Nat
<1>1. Ahead(o) \subseteq AllUnchecked /\ Ahead(o)' \subseteq AllUnchecked
  BY DEF Ahead
<1> QED BY <1>1, UncheckedFinite, FS_Subset, FS_CardinalityType

\* A set of calls without one of them is smaller.
LEMMA OneCallLess ==
  ASSUME NEW S, NEW T, IsFiniteSet(S), T \subseteq S, NEW c \in S, c \notin T
  PROVE  Cardinality(T) <= Cardinality(S) - 1
<1>1. T \in SUBSET (S \ {c})
  OBVIOUS
<1>2. IsFiniteSet(S \ {c}) /\ Cardinality(S \ {c}) = Cardinality(S) - 1
  BY FS_RemoveElement
<1> QED BY <1>1, <1>2, FS_Subset

\* Nobody gets more to do on a window than it had.
NoneMore(o) == \A u \in User : Remaining(u, o)' <= Remaining(u, o)

LEMMA AheadShrinks ==
  ASSUME OverrunBase, NEW o \in User, OverrunBase', NoneMore(o)
  PROVE  Ahead(o)' \subseteq Ahead(o)
<1>1. \A u \in User : Remaining(u, o) \in Nat /\ Remaining(u, o)' \in Nat
  BY UncheckedNatural, RemainingBounds, RemainingBoundsNext DEF RemainingBounded
<1> SUFFICES ASSUME NEW c \in Ahead(o)' PROVE c \in Ahead(o)
  OBVIOUS
<1>2. c \in AllUnchecked /\ c[2] <= Remaining(c[1], o)'
  BY DEF Ahead
<1>3. c[1] \in User /\ c[2] \in Nat
  BY <1>2, UncheckedCalls
<1>4. c[2] <= Remaining(c[1], o)
  BY <1>1, <1>2, <1>3 DEF NoneMore
<1> QED BY <1>2, <1>4 DEF Ahead

\* While a window is full nobody's calls on it grow, whoever looks, waits,
\* inserts another window or leaves.
LEMMA FullNoneMore ==
  ASSUME OverrunBase, [BudgetNext]_budgetVars, NEW o \in User, events[o] >= Limit
  PROVE  NoneMore(o)
<1> USE BudgetAssumption
    DEF OverrunBase, BudgetInv, BudgetTypeOK, HoldsWindow, Newborn, WithinCalls, NoneMore,
        Remaining, Unchecked
<1>1. ASSUME NEW u \in User, Consider(u) PROVE NoneMore(o)
  BY <1>1 DEF Consider, Go
<1>2. ASSUME NEW u \in User, Find(u) PROVE NoneMore(o)
  BY <1>2 DEF Find, Go
<1>3. ASSUME NEW u \in User, Insert(u) PROVE NoneMore(o)
  <2>1. u # o
    BY <1>3 DEF Insert
  <2> QED BY <1>3, <2>1 DEF Insert, Go
<1>4. ASSUME NEW u \in User, Check(u) PROVE NoneMore(o)
  <2>1. Headroom(u) => ref[u] # o
    BY DEF Headroom
  <2> QED BY <1>4, <2>1 DEF Check, Leave, Go
<1>5. ASSUME NEW u \in User, Record(u) PROVE NoneMore(o)
  BY <1>5 DEF Record, Go
<1>6. ASSUME NEW u \in User, Return(u) PROVE NoneMore(o)
  BY <1>6 DEF Return, Leave, Go
<1>7. ASSUME NEW u \in User, CallAgain(u) PROVE NoneMore(o)
  BY <1>7 DEF CallAgain, Go
<1>8. ASSUME NEW u \in User, Expire(u) PROVE NoneMore(o)
  BY <1>8 DEF Expire
<1>9. ASSUME NEW u \in User, NEW used \in 0..Limit, Sync(u, used) PROVE NoneMore(o)
  BY <1>9 DEF Sync, Leave, Go
<1>10. CASE UNCHANGED budgetVars
  BY <1>10 DEF budgetVars
<1> QED BY <1>1, <1>2, <1>3, <1>4, <1>5, <1>6, <1>7, <1>8, <1>9, <1>10 DEF BudgetNext

\* A call on a window uses up one of its caller's.
LEMMA RecordSpends ==
  ASSUME OverrunBase, NEW u \in User, NEW o, Record(u), ref[u] = o
  PROVE  /\ o \in User /\ events'[o] = events[o] + 1
         /\ Remaining(u, o) > 0 /\ Remaining(u, o)' < Remaining(u, o)
<1> USE BudgetAssumption DEF OverrunBase, BudgetInv, BudgetTypeOK, HoldsWindow, WithinCalls
<1>1. pc[u] = "use" /\ task[u] = "reserve" /\ calls[u] \in Nat /\ calls[u] > 0
  BY DEF Record
<1>2. o \in User /\ events'[o] = events[o] + 1
  BY DEF Record
<1>3. pc'[u] = "calling" /\ task'[u] = "reserve" /\ calls'[u] = calls[u] - 1
      /\ ref'[u] = None /\ entry' = entry /\ o # None
  BY <1>2 DEF Record, Go
<1>4. Remaining(u, o) > 0
  BY <1>1 DEF Remaining
<1>5. Remaining(u, o)' < Remaining(u, o)
  BY <1>1, <1>3 DEF Remaining
<1> QED BY <1>2, <1>4, <1>5

\* Nothing else adds to a window.
LEMMA OnlyRecordAdds ==
  ASSUME OverrunBase, [BudgetNext]_budgetVars, NEW o \in User
  PROVE  \/ events'[o] <= events[o]
         \/ \E u \in User : Record(u) /\ ref[u] = o
<1> USE BudgetAssumption DEF OverrunBase, BudgetInv, BudgetTypeOK, HoldsWindow
<1>1. ASSUME NEW u \in User, Consider(u) \/ Find(u) \/ Insert(u) \/ Check(u) \/ Return(u)
                             \/ CallAgain(u)
      PROVE  events'[o] <= events[o]
  BY <1>1 DEF Consider, Find, Insert, Check, Return, CallAgain
<1>2. ASSUME NEW u \in User, Record(u), ref[u] # o
      PROVE  events'[o] <= events[o]
  BY <1>2 DEF Record
<1>3. ASSUME NEW u \in User, Expire(u) \/ \E used \in 0..Limit : Sync(u, used)
      PROVE  events'[o] <= events[o]
  BY <1>3 DEF Expire, Sync
<1>4. CASE UNCHANGED budgetVars
  BY <1>4 DEF budgetVars
<1> QED BY <1>1, <1>2, <1>3, <1>4 DEF BudgetNext

LEMMA BalanceNext ==
  ASSUME OverrunInv, [BudgetNext]_budgetVars
  PROVE  Balance'
<1>1. OverrunBase /\ OverrunBase'
  BY BaseNext DEF OverrunInv, OverrunBase
<1> SUFFICES ASSUME NEW o \in User, events'[o] >= Limit
             PROVE  events'[o] + Cardinality(Ahead(o)')
                      <= Limit - 1 + Cardinality(AllUnchecked)
  BY DEF Balance, AllUnchecked
<1> DEFINE before == Cardinality(Ahead(o))
           after == Cardinality(Ahead(o)')
           all == Cardinality(AllUnchecked)
<1>2. before \in Nat /\ after \in Nat /\ all \in Nat
      /\ IsFiniteSet(Ahead(o)) /\ IsFiniteSet(AllUnchecked)
  BY AheadFinite, UncheckedFinite
<1>3. events[o] \in Nat /\ events'[o] \in Nat /\ Limit \in Nat
  BY <1>1, BudgetAssumption DEF OverrunBase, BudgetInv, BudgetTypeOK
<1>4. CASE events[o] >= Limit
  <2>1. Ahead(o)' \subseteq Ahead(o)
    BY <1>1, <1>4, FullNoneMore, AheadShrinks
  <2>2. after <= before
    BY <1>2, <2>1, FS_Subset
  <2>3. events[o] + before <= Limit - 1 + all
    BY <1>4 DEF OverrunInv, Balance
  <2>4. CASE events'[o] <= events[o]
    <3> QED BY <1>2, <1>3, <2>2, <2>3, <2>4
  <2>5. ASSUME NEW u \in User, Record(u), ref[u] = o
        PROVE  events'[o] = events[o] + 1 /\ after <= before - 1
    <3>1. events'[o] = events[o] + 1
          /\ Remaining(u, o) > 0 /\ Remaining(u, o)' < Remaining(u, o)
      BY <1>1, <2>5, RecordSpends
    <3>2. Remaining(u, o) \in 0..Unchecked(u) /\ Remaining(u, o)' \in 0..Unchecked(u)
          /\ Unchecked(u) \in Nat
      BY <1>1, UncheckedNatural, RemainingBounds, RemainingBoundsNext DEF RemainingBounded
    <3> DEFINE c == <<u, Remaining(u, o)>>
    <3>3. c \in AllUnchecked
      BY <3>1, <3>2, UncheckedCalls
    <3>4. c \in Ahead(o)
      BY <3>2, <3>3 DEF Ahead
    <3>5. c \notin Ahead(o)'
      BY <3>1, <3>2 DEF Ahead
    <3>6. after <= before - 1
      BY <1>2, <2>1, <3>4, <3>5, OneCallLess
    <3> QED BY <3>1, <3>6
  <2>6. CASE \E u \in User : Record(u) /\ ref[u] = o
    <3>1. events'[o] = events[o] + 1 /\ after <= before - 1
      BY <2>5, <2>6
    <3> QED BY <1>2, <1>3, <2>3, <3>1
  <2> QED BY <1>1, <2>4, <2>6, OnlyRecordAdds
<1>5. CASE events[o] < Limit
  <2>1. ~(events'[o] <= events[o])
    BY <1>3, <1>5
  <2>2. PICK u \in User : Record(u) /\ ref[u] = o
    BY <1>1, <2>1, OnlyRecordAdds
  <2>3. events'[o] = events[o] + 1 /\ Remaining(u, o)' < Remaining(u, o)
    BY <1>1, <2>2, RecordSpends
  <2>4. events'[o] = Limit
    BY <1>3, <1>5, <2>3
  <2>5. Remaining(u, o)' \in 0..Unchecked(u) /\ Remaining(u, o) \in 0..Unchecked(u)
        /\ Unchecked(u) \in Nat /\ Unchecked(u)' = Unchecked(u)
    BY <1>1, UncheckedNatural, RemainingBounds, RemainingBoundsNext DEF RemainingBounded
  <2> DEFINE c == <<u, Unchecked(u)>>
  <2>6. c \in AllUnchecked
    BY <2>3, <2>5, UncheckedCalls
  <2>7. c \notin Ahead(o)'
    BY <2>3, <2>5 DEF Ahead
  <2>8. Ahead(o)' \subseteq AllUnchecked
    BY DEF Ahead, AllUnchecked
  <2>9. after <= all - 1
    BY <1>2, <2>6, <2>7, <2>8, OneCallLess
  <2> QED BY <1>2, <1>3, <2>4, <2>9
<1> QED BY <1>3, <1>4, <1>5

LEMMA BalanceInit == BudgetInit => Balance
BY BudgetAssumption DEF BudgetInit, Balance

LEMMA OverrunInvariance == BudgetSpec => []OverrunInv
<1>1. BudgetInit => OverrunInv
  BY BaseInit, BalanceInit DEF OverrunInv, OverrunBase
<1>2. OverrunInv /\ [BudgetNext]_budgetVars => OverrunInv'
  BY BaseNext, BalanceNext DEF OverrunInv, OverrunBase
<1> QED BY <1>1, <1>2, PTL DEF BudgetSpec

\* What rpd_limit and rpm_limit are worth while searches, content requests and
\* probes look at the budget and call later: no window counts more than one call
\* below the limit and what all users may send between two looks.
THEOREM OverrunLimited == BudgetSpec => []OverrunBounded
<1>1. OverrunInv => OverrunBounded
  <2> SUFFICES ASSUME OverrunInv, NEW o \in User
               PROVE  events[o] <= Limit - 1 + Cardinality(AllUnchecked)
    BY DEF OverrunBounded
  <2>1. events[o] \in Nat /\ Limit \in Nat
    BY BudgetAssumption DEF OverrunInv, BudgetInv, BudgetTypeOK
  <2>2. Cardinality(Ahead(o)) \in Nat /\ Cardinality(AllUnchecked) \in Nat
    BY AheadFinite
  <2>3. events[o] >= Limit
          => events[o] + Cardinality(Ahead(o)) <= Limit - 1 + Cardinality(AllUnchecked)
    BY DEF OverrunInv, Balance
  <2> QED BY <2>1, <2>2, <2>3
<1> QED BY OverrunInvariance, <1>1, PTL
=============================================================================
