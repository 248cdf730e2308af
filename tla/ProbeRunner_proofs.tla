-------------------------- MODULE ProbeRunner_proofs --------------------------
(***************************************************************************)
(* What the probe runner guarantees, for any keys, tasks, administrators   *)
(* and answers.                                                            *)
(*                                                                         *)
(* TypeOK and ProbesAccounted are inductive together: the range of the     *)
(* semaphore follows from the sum, and each step either keeps, takes or    *)
(* gives back a permit, and keeps, takes or gives up a claim.              *)
(***************************************************************************)
EXTENDS ProbeRunner, TLAPS, FiniteSetTheorems

Place == {"idle", "check", "permit", "begin", "look_up", "calling", "finish", "remove"}

RunnerInv == TypeOK /\ ProbesAccounted

\* What a step does to the permits.
PermitsKept   == Holders' = Holders /\ permits' = permits
PermitTaken(p) == Holders' = Holders \union {p} /\ p \notin Holders
                    /\ permits > 0 /\ permits' = permits - 1
PermitBack(p) == Holders' = Holders \ {p} /\ p \in Holders /\ permits' = permits + 1

\* What a step does to the claims.
ClaimsKept ==
  Claimants' = Claimants /\ \A q \in Claimants : target'[q] = target[q]
ClaimTaken(p) ==
  /\ Claimants' = Claimants \union {p} /\ p \notin Claimants
  /\ \A q \in Prober : target'[q] = target[q]
ClaimBack(p) ==
  /\ Claimants' = Claimants \ {p} /\ p \in Claimants
  /\ \A q \in Claimants' : target'[q] = target[q]
-----------------------------------------------------------------------------
LEMMA ProbersFinite ==
  ASSUME NEW S \in SUBSET Prober
  PROVE  IsFiniteSet(S) /\ Cardinality(S) \in Nat
<1>1. IsFiniteSet(Prober)
  BY ProbeAssumption, FS_Union DEF Prober
<1> QED BY <1>1, FS_Subset, FS_CardinalityType

LEMMA ConcurrencyNatural == Concurrency \in Nat
BY ProbeAssumption, FS_CardinalityType DEF Concurrency

LEMMA HoldersAreProbers ==
  Holders \in SUBSET Prober /\ Claimants \in SUBSET Holders
BY DEF Holders, Claimants

\* Whatever becomes of a permit, the sum stays and the semaphore in its range.
LEMMA SumStays ==
  ASSUME NEW H \in SUBSET Prober, NEW H2 \in SUBSET Prober, NEW p,
         NEW n \in 0..Concurrency, NEW n2,
         n + Cardinality(H) = Concurrency,
         \/ H2 = H /\ n2 = n
         \/ H2 = H \union {p} /\ p \notin H /\ n > 0 /\ n2 = n - 1
         \/ H2 = H \ {p} /\ p \in H /\ n2 = n + 1
  PROVE  n2 + Cardinality(H2) = Concurrency /\ n2 \in 0..Concurrency
<1>1. Cardinality(H) \in Nat /\ Cardinality(H2) \in Nat /\ IsFiniteSet(H)
  BY ProbersFinite
<1>2. Concurrency \in Nat
  BY ConcurrencyNatural
<1>3. CASE H2 = H /\ n2 = n
  BY <1>1, <1>2, <1>3
<1>4. CASE H2 = H \union {p} /\ p \notin H /\ n > 0 /\ n2 = n - 1
  <2>1. Cardinality(H2) = Cardinality(H) + 1
    BY <1>1, <1>4, FS_AddElement
  <2> QED BY <2>1, <1>1, <1>2, <1>4
<1>5. CASE H2 = H \ {p} /\ p \in H /\ n2 = n + 1
  <2>1. Cardinality(H2) = Cardinality(H) - 1
    BY <1>1, <1>5, FS_RemoveElement
  <2> QED BY <2>1, <1>1, <1>2, <1>5
<1> QED BY <1>3, <1>4, <1>5
-----------------------------------------------------------------------------
(* Each step, by its effect on permits and claims *)

\* Steps that move a prober from one place to another without either.
LEMMA IdleSteps ==
  ASSUME TypeOK, NEW p \in Prober,
         \/ CheckInactive(p) \/ CheckActive(p) \/ LookUp(p) \/ Return(p)
         \/ FinishWorked(p) \/ Cancel(p) \/ \E k \in Key : Request(p, k)
         \/ \E k \in Key : Spawn(p, k)
  PROVE  PermitsKept /\ ClaimsKept
<1> USE DEF Claimants, Holders, Goto, Leave, Enter, Report, PermitsKept, ClaimsKept
<1>1. pc \in [Prober -> Place] /\ target \in [Prober -> Key \union {None}]
  BY DEF TypeOK, Place
<1>2. CASE CheckInactive(p) BY <1>1, <1>2 DEF CheckInactive
<1>3. CASE CheckActive(p) BY <1>1, <1>3 DEF CheckActive
<1>4. CASE LookUp(p) BY <1>1, <1>4 DEF LookUp
<1>5. CASE Return(p) BY <1>1, <1>5 DEF Return
<1>6. CASE FinishWorked(p) BY <1>1, <1>6 DEF FinishWorked
<1>7. CASE Cancel(p) BY <1>1, <1>7 DEF Cancel
<1>8. CASE \E k \in Key : Request(p, k) BY <1>1, <1>8 DEF Request
<1>9. CASE \E k \in Key : Spawn(p, k) BY <1>1, <1>9 DEF Spawn
<1> QED BY <1>2, <1>3, <1>4, <1>5, <1>6, <1>7, <1>8, <1>9

\* Steps of nobody in particular.
LEMMA OtherSteps ==
  ASSUME UNCHANGED <<permits, pc, target>>
  PROVE  PermitsKept /\ ClaimsKept
BY DEF Claimants, Holders, PermitsKept, ClaimsKept

LEMMA TakePermitEffect ==
  ASSUME TypeOK, NEW p \in Prober, TakePermit(p)
  PROVE  ClaimsKept /\ (PermitsKept \/ PermitTaken(p))
<1> USE DEF Claimants, Holders, PermitsKept, PermitTaken, ClaimsKept
<1>1. pc \in [Prober -> Place] /\ target \in [Prober -> Key \union {None}]
  BY DEF TypeOK, Place
<1>2. permits \in 0..Concurrency /\ Concurrency \in Nat
  BY ConcurrencyNatural DEF TypeOK
<1>3. CASE permits = 0
  BY <1>1, <1>3 DEF TakePermit, Leave
<1>4. CASE permits # 0
  <2>1. pc' = [pc EXCEPT ![p] = "begin"] /\ target' = target /\ pc[p] = "permit"
    BY <1>4 DEF TakePermit, Goto
  <2>2. permits > 0 /\ permits' = permits - 1
    BY <1>2, <1>4 DEF TakePermit
  <2>3. Claimants' = Claimants /\ Holders' = Holders \union {p} /\ p \notin Holders
    BY <1>1, <2>1
  <2> QED BY <2>1, <2>2, <2>3
<1> QED BY <1>3, <1>4

LEMMA BeginProbeEffect ==
  ASSUME TypeOK, NEW p \in Prober, BeginProbe(p)
  PROVE  PermitsKept /\ ClaimTaken(p)
<1>1. pc \in [Prober -> Place]
  BY DEF TypeOK, Place
<1> QED BY <1>1 DEF Claimants, Holders, PermitsKept, ClaimTaken, BeginProbe, Goto

LEMMA BeginBusyEffect ==
  ASSUME TypeOK, NEW p \in Prober, BeginBusy(p)
  PROVE  PermitBack(p) /\ ClaimsKept
<1>1. pc \in [Prober -> Place] /\ target \in [Prober -> Key \union {None}]
  BY DEF TypeOK, Place
<1> QED BY <1>1 DEF Claimants, Holders, PermitBack, ClaimsKept, BeginBusy, Leave

\* The end of a probe gives both back.
LEMMA RetireEffect ==
  ASSUME TypeOK, NEW p \in Prober, pc[p] \in {"finish", "remove"}, Retire(p)
  PROVE  PermitBack(p) /\ ClaimBack(p)
<1>1. pc \in [Prober -> Place] /\ target \in [Prober -> Key \union {None}]
  BY DEF TypeOK, Place
<1> QED BY <1>1 DEF Claimants, Holders, PermitBack, ClaimBack, Retire, Leave
-----------------------------------------------------------------------------
(* Permits and claims are accounted for *)

LEMMA PermitEffect ==
  ASSUME TypeOK, [Next]_vars
  PROVE  \E p \in Prober : PermitsKept \/ PermitTaken(p) \/ PermitBack(p)
<1>1. PICK w \in Prober : TRUE
  BY ProbeAssumption DEF Prober
<1>2. CASE UNCHANGED <<permits, pc, target>>
  BY <1>1, <1>2, OtherSteps
<1>3. ASSUME NEW k \in Key, Failure(k) \/ Elapse(k) \/ Toggle(k)
      PROVE  UNCHANGED <<permits, pc, target>>
  BY <1>3 DEF Failure, Elapse, Toggle
<1>4. ASSUME NEW p \in Manual, Cancel(p) \/ \E k \in Key : Request(p, k)
      PROVE  PermitsKept
  <2> p \in Prober BY DEF Prober
  <2> QED BY <1>4, IdleSteps
<1>5. ASSUME NEW p \in Prober, Step(p)
      PROVE  PermitsKept \/ PermitTaken(p) \/ PermitBack(p)
  <2>1. CASE CheckInactive(p) \/ CheckActive(p) \/ LookUp(p) \/ Return(p) \/ FinishWorked(p)
    BY <2>1, IdleSteps
  <2>2. CASE TakePermit(p) BY <2>2, TakePermitEffect
  <2>3. CASE BeginProbe(p) BY <2>3, BeginProbeEffect
  <2>4. CASE BeginBusy(p) BY <2>4, BeginBusyEffect
  <2>5. CASE FinishOvertaken(p) BY <2>5, RetireEffect DEF FinishOvertaken
  <2>6. CASE FinishFailed(p) BY <2>6, RetireEffect DEF FinishFailed
  <2>7. CASE Remove(p) BY <2>7, RetireEffect DEF Remove
  <2> QED BY <1>5, <2>1, <2>2, <2>3, <2>4, <2>5, <2>6, <2>7 DEF Step
<1>6. ASSUME NEW p \in Task, NEW k \in Key, Spawn(p, k)
      PROVE  PermitsKept
  <2> p \in Prober BY DEF Prober
  <2> QED BY <1>6, IdleSteps
<1>7. CASE Round \/ Join
  BY <1>2, <1>7 DEF Round, Join
<1>8. CASE UNCHANGED vars
  BY <1>2, <1>8 DEF vars
<1>9. Manual \subseteq Prober /\ Task \subseteq Prober
  BY DEF Prober
<1> QED
  BY <1>1, <1>2, <1>3, <1>4, <1>5, <1>6, <1>7, <1>8, <1>9 DEF Next, Worker

LEMMA SumHolds ==
  ASSUME RunnerInv, [Next]_vars
  PROVE  permits' + Cardinality(Holders') = Concurrency /\ permits' \in 0..Concurrency
<1>1. PICK p \in Prober : PermitsKept \/ PermitTaken(p) \/ PermitBack(p)
  BY PermitEffect DEF RunnerInv
<1>2. Holders \in SUBSET Prober /\ Holders' \in SUBSET Prober
  BY DEF Holders, Claimants
<1>3. permits \in 0..Concurrency /\ permits + Cardinality(Holders) = Concurrency
  BY DEF RunnerInv, TypeOK, ProbesAccounted
<1> QED
  BY <1>1, <1>2, <1>3, SumStays DEF PermitsKept, PermitTaken, PermitBack

\* The claims are exclusive and marked.
Claimed ==
  /\ \A p, q \in Claimants : target[p] = target[q] => p = q
  /\ \A p \in Claimants : entry[target[p]].probing

LEMMA KeptClaims ==
  ASSUME Claimed, ClaimsKept,
         \A q \in Claimants : entry[target[q]].probing => entry'[target[q]].probing
  PROVE  Claimed'
BY DEF Claimed, ClaimsKept

LEMMA TargetsAreKeys ==
  ASSUME TypeOK, NEW p \in Prober, pc[p] # "idle"
  PROVE  target[p] \in Key
BY DEF TypeOK

LEMMA ClaimantTargets ==
  ASSUME TypeOK
  PROVE  \A q \in Claimants : q \in Prober /\ target[q] \in Key
BY TargetsAreKeys DEF Claimants

\* Giving up a claim disturbs no other.
LEMMA BackClaims ==
  ASSUME Claimed, NEW p \in Prober, ClaimBack(p),
         \A q \in Claimants :
           entry[target[q]].probing /\ target[q] # target[p] => entry'[target[q]].probing
  PROVE  Claimed'
BY DEF Claimed, ClaimBack

EntryRecord == [gate : {"open", "cooling", "parked"}, due : BOOLEAN,
                probing : BOOLEAN, overtaken : BOOLEAN]

LEMMA ClaimsHold ==
  ASSUME RunnerInv, [Next]_vars
  PROVE  Claimed'
<1>1. entry \in [Key -> EntryRecord] /\ target \in [Prober -> Key \union {None}]
      /\ Claimed /\ TypeOK
  BY DEF RunnerInv, TypeOK, ProbesAccounted, Claimed, EntryRecord
<1>2. \A q \in Claimants : q \in Prober /\ target[q] \in Key
  BY <1>1, ClaimantTargets
<1>3. ASSUME ClaimsKept, UNCHANGED entry
      PROVE  Claimed'
  BY <1>1, <1>3, KeptClaims
<1>4. ASSUME NEW k \in Key, Failure(k) \/ Elapse(k) \/ Toggle(k)
      PROVE  Claimed'
  <2>1. ClaimsKept
    BY <1>4, OtherSteps DEF Failure, Elapse, Toggle
  <2>2. \A j \in Key : entry[j].probing => entry'[j].probing
    <3>1. CASE Failure(k) BY <1>1, <3>1 DEF Failure, EntryRecord
    <3>2. CASE Elapse(k) BY <1>1, <3>2 DEF Elapse, EntryRecord
    <3>3. CASE Toggle(k) BY <3>3 DEF Toggle
    <3> QED BY <1>4, <3>1, <3>2, <3>3
  <2> QED BY <1>1, <1>2, <2>1, <2>2, KeptClaims
<1>5. ASSUME NEW p \in Prober,
             \/ CheckInactive(p) \/ CheckActive(p) \/ LookUp(p) \/ Return(p)
             \/ FinishWorked(p) \/ Cancel(p) \/ \E k \in Key : Request(p, k)
             \/ \E k \in Key : Spawn(p, k)
      PROVE  Claimed'
  <2>1. UNCHANGED entry
    BY <1>5 DEF CheckInactive, CheckActive, LookUp, Return, FinishWorked, Cancel,
                Request, Spawn
  <2> QED BY <1>1, <1>3, <1>5, <2>1, IdleSteps
<1>6. ASSUME NEW p \in Prober, TakePermit(p) \/ BeginBusy(p)
      PROVE  Claimed'
  BY <1>1, <1>3, <1>6, TakePermitEffect, BeginBusyEffect DEF TakePermit, BeginBusy
<1>7. ASSUME NEW p \in Prober, BeginProbe(p)
      PROVE  Claimed'
  <2>1. ClaimTaken(p) /\ target[p] \in Key
    BY <1>1, <1>7, BeginProbeEffect, TargetsAreKeys DEF BeginProbe
  <2>2. ~entry[target[p]].probing
    BY <1>7 DEF BeginProbe, MayBegin, Due
  <2>3. \A q \in Claimants : target[q] # target[p]
    BY <1>1, <2>2 DEF Claimed
  <2>4. entry'[target[p]].probing
        /\ \A j \in Key : entry[j].probing => entry'[j].probing
    BY <1>1, <1>7, <2>1 DEF BeginProbe, EntryRecord
  <2>5. \A q \in Claimants' : q = p \/ q \in Claimants
    BY <2>1 DEF ClaimTaken
  <2>6. \A q \in Claimants' : target'[q] = target[q] /\ q \in Prober
    BY <2>1 DEF ClaimTaken, Claimants
  <2>7. \A q, r \in Claimants' : target'[q] = target'[r] => q = r
    BY <1>1, <2>3, <2>5, <2>6 DEF Claimed
  <2>8. \A q \in Claimants' : entry'[target'[q]].probing
    BY <1>1, <1>2, <2>4, <2>5, <2>6 DEF Claimed
  <2> QED BY <2>7, <2>8 DEF Claimed
<1>8. ASSUME NEW p \in Prober, FinishOvertaken(p) \/ FinishFailed(p) \/ Remove(p)
      PROVE  Claimed'
  <2>1. ClaimBack(p) /\ target[p] \in Key
    BY <1>1, <1>8, RetireEffect, TargetsAreKeys DEF FinishOvertaken, FinishFailed, Remove
  <2>2. \A j \in Key : entry[j].probing /\ j # target[p] => entry'[j].probing
    <3>1. CASE FinishOvertaken(p) BY <1>1, <3>1 DEF FinishOvertaken, EntryRecord
    <3>2. CASE FinishFailed(p) BY <1>1, <3>2 DEF FinishFailed, EntryRecord
    <3>3. CASE Remove(p) BY <1>1, <3>3 DEF Remove
    <3> QED BY <1>8, <3>1, <3>2, <3>3
  <2> QED BY <1>1, <1>2, <2>1, <2>2, BackClaims
<1>9. CASE Round \/ Join \/ UNCHANGED vars
  BY <1>3, <1>9, OtherSteps DEF Round, Join, vars
<1>10. Manual \subseteq Prober /\ Task \subseteq Prober
  BY DEF Prober
<1> QED
  BY <1>4, <1>5, <1>6, <1>7, <1>8, <1>9, <1>10 DEF Next, Worker, Step

LEMMA AccountedStep ==
  ASSUME RunnerInv, [Next]_vars
  PROVE  ProbesAccounted'
BY SumHolds, ClaimsHold DEF ProbesAccounted, Claimed
-----------------------------------------------------------------------------
(* Types *)

LEMMA VerdictsHold ==
  {"worked", "timeout", "rpm", "auth", "error"} \subseteq Verdicts
BY DEF Verdicts

\* Where a prober may stand with its locals.
LocalsOK ==
  /\ pc \in [Prober -> Place]
  /\ target \in [Prober -> Key \union {None}]
  /\ \A p \in Prober : pc[p] # "idle" => target[p] \in Key
  /\ verdict \in [Prober -> Verdicts]

LEMMA GotoTyped ==
  ASSUME LocalsOK, NEW p \in Prober, NEW l \in Place, pc[p] # "idle", Goto(p, l)
  PROVE  LocalsOK'
BY DEF LocalsOK, Goto

LEMMA ReportTyped ==
  ASSUME LocalsOK, NEW p \in Prober, NEW v \in Verdicts, pc[p] # "idle", Report(p, v)
  PROVE  LocalsOK'
BY DEF LocalsOK, Report, Place

LEMMA EnterTyped ==
  ASSUME LocalsOK, NEW p \in Prober, NEW k \in Key, Enter(p, k)
  PROVE  LocalsOK'
BY DEF LocalsOK, Enter, Place

LEMMA LeaveTyped ==
  ASSUME LocalsOK, NEW p \in Prober, Leave(p)
  PROVE  LocalsOK'
BY VerdictsHold DEF LocalsOK, Leave, Place

\* What is not a local or the semaphore.
SharedOK ==
  /\ entry \in [Key -> EntryRecord]
  /\ active \subseteq Key
  /\ round \in {"asleep", "listed"} /\ pending \subseteq Key
  /\ events \in Nat

LEMMA TypeOKParts ==
  TypeOK <=> SharedOK /\ LocalsOK /\ permits \in 0..Concurrency
BY DEF TypeOK, SharedOK, LocalsOK, EntryRecord, Place

LEMMA LocalsStep ==
  ASSUME LocalsOK, [Next]_vars
  PROVE  LocalsOK'
<1>1. CASE UNCHANGED <<pc, target, verdict>>
  BY <1>1 DEF LocalsOK
<1>2. ASSUME NEW k \in Key, Failure(k) \/ Elapse(k) \/ Toggle(k)
      PROVE  LocalsOK'
  BY <1>1, <1>2 DEF Failure, Elapse, Toggle
<1>3. ASSUME NEW p \in Prober, NEW k \in Key, Request(p, k) \/ Spawn(p, k)
      PROVE  LocalsOK'
  BY <1>3, EnterTyped DEF Request, Spawn
<1>4. ASSUME NEW p \in Prober, Cancel(p)
      PROVE  LocalsOK'
  BY <1>4, LeaveTyped, ReportTyped, VerdictsHold DEF Cancel
<1>5. ASSUME NEW p \in Prober, CheckInactive(p) \/ BeginBusy(p) \/ FinishOvertaken(p)
                                 \/ FinishFailed(p) \/ Remove(p)
      PROVE  LocalsOK'
  BY <1>5, LeaveTyped DEF CheckInactive, BeginBusy, FinishOvertaken, FinishFailed,
                          Remove, Retire
<1>6. ASSUME NEW p \in Prober, CheckActive(p) \/ BeginProbe(p) \/ FinishWorked(p)
      PROVE  LocalsOK'
  BY <1>6, GotoTyped DEF CheckActive, BeginProbe, FinishWorked, Place
<1>7. ASSUME NEW p \in Prober, TakePermit(p)
      PROVE  LocalsOK'
  BY <1>7, LeaveTyped, GotoTyped DEF TakePermit, Place
<1>8. ASSUME NEW p \in Prober, LookUp(p)
      PROVE  LocalsOK'
  BY <1>8, ReportTyped, GotoTyped, VerdictsHold DEF LookUp, Place
<1>9. ASSUME NEW p \in Prober, Return(p)
      PROVE  LocalsOK'
  BY <1>9, ReportTyped DEF Return
<1>10. CASE Round \/ Join \/ UNCHANGED vars
  BY <1>1, <1>10 DEF Round, Join, vars
<1>11. Manual \subseteq Prober /\ Task \subseteq Prober
  BY DEF Prober
<1> QED
  BY <1>2, <1>3, <1>4, <1>5, <1>6, <1>7, <1>8, <1>9, <1>10, <1>11
  DEF Next, Worker, Step

\* A failure of user traffic, or of a probe, rewrites three fields of an entry.
LEMMA ClosedTyped ==
  ASSUME entry \in [Key -> EntryRecord], NEW k \in Key,
         NEW g \in {"open", "cooling", "parked"}, NEW b \in BOOLEAN, NEW d \in BOOLEAN
  PROVE  /\ [entry EXCEPT ![k].gate = g, ![k].due = d, ![k].overtaken = b]
               \in [Key -> EntryRecord]
         /\ [entry EXCEPT ![k].gate = g, ![k].due = FALSE, ![k].probing = b]
               \in [Key -> EntryRecord]
<1>1. entry[k] \in EntryRecord
  OBVIOUS
<1>2. [entry[k] EXCEPT !.gate = g, !.due = d, !.overtaken = b] \in EntryRecord
      /\ [entry[k] EXCEPT !.gate = g, !.due = FALSE, !.probing = b] \in EntryRecord
  BY <1>1 DEF EntryRecord
<1>3. [entry EXCEPT ![k].gate = g, ![k].due = d, ![k].overtaken = b]
        = [entry EXCEPT ![k] = [entry[k] EXCEPT !.gate = g, !.due = d, !.overtaken = b]]
  BY <1>1 DEF EntryRecord
<1>4. [entry EXCEPT ![k].gate = g, ![k].due = FALSE, ![k].probing = b]
        = [entry EXCEPT ![k] = [entry[k] EXCEPT !.gate = g, !.due = FALSE, !.probing = b]]
  BY <1>1 DEF EntryRecord
<1> QED BY <1>2, <1>3, <1>4

LEMMA SharedStep ==
  ASSUME SharedOK, LocalsOK, [Next]_vars
  PROVE  SharedOK'
<1> USE DEF SharedOK
<1>1. ASSUME NEW k \in Key, Failure(k)
      PROVE  SharedOK'
  <2>1. events' \in Nat
    BY <1>1 DEF Failure, Event, SharedOK
  <2>2. entry' \in [Key -> EntryRecord]
    <3>1. entry[k].probing \in BOOLEAN /\ entry[k].due \in BOOLEAN
      BY DEF EntryRecord
    <3>2. PICK g \in {"cooling", "parked"}, d \in {FALSE, entry[k].due} :
            entry' = [entry EXCEPT ![k].gate = g, ![k].due = d,
                                   ![k].overtaken = entry[k].probing]
      BY <1>1 DEF Failure
    <3>3. g \in {"open", "cooling", "parked"} /\ d \in BOOLEAN
      BY <3>1
    <3> QED BY <3>1, <3>2, <3>3, ClosedTyped
  <2> QED BY <1>1, <2>1, <2>2 DEF Failure
<1>2. ASSUME NEW k \in Key, Elapse(k)
      PROVE  SharedOK'
  <2>1. entry' \in [Key -> EntryRecord]
    <3>1. CASE entry' = [entry EXCEPT ![k].gate = "open"]
      BY <3>1 DEF EntryRecord
    <3>2. CASE entry' = [entry EXCEPT ![k].due = TRUE]
      BY <3>2 DEF EntryRecord
    <3> QED BY <1>2, <3>1, <3>2 DEF Elapse
  <2> QED BY <1>2, <2>1 DEF Elapse
<1>3. ASSUME NEW k \in Key, Toggle(k)
      PROVE  SharedOK'
  BY <1>3 DEF Toggle, Event
<1>4. ASSUME NEW p \in Prober, NEW k \in Key, Request(p, k) \/ Spawn(p, k)
      PROVE  SharedOK'
  BY <1>4 DEF Request, Spawn, Event
<1>5. ASSUME NEW p \in Prober,
             \/ CheckInactive(p) \/ CheckActive(p) \/ LookUp(p) \/ Return(p)
             \/ FinishWorked(p) \/ Cancel(p) \/ TakePermit(p) \/ BeginBusy(p)
      PROVE  SharedOK'
  BY <1>5 DEF CheckInactive, CheckActive, LookUp, Return, FinishWorked, Cancel,
              TakePermit, BeginBusy
<1>6. ASSUME NEW p \in Prober,
             BeginProbe(p) \/ FinishOvertaken(p) \/ FinishFailed(p) \/ Remove(p)
      PROVE  SharedOK'
  <2>1. target[p] \in Key
    BY <1>6 DEF LocalsOK, BeginProbe, FinishOvertaken, FinishFailed, Remove
  <2>2. UNCHANGED <<active, round, pending, events>>
    BY <1>6 DEF BeginProbe, FinishOvertaken, FinishFailed, Remove
  <2>3. CASE BeginProbe(p) \/ FinishOvertaken(p)
    <3>1. entry' \in [Key -> EntryRecord]
      <4>1. CASE BeginProbe(p) BY <2>1, <4>1 DEF BeginProbe, EntryRecord
      <4>2. CASE FinishOvertaken(p) BY <2>1, <4>2 DEF FinishOvertaken, EntryRecord
      <4> QED BY <2>3, <4>1, <4>2
    <3> QED BY <2>2, <3>1
  <2>4. CASE FinishFailed(p)
    <3>1. Closed(target[p], verdict[p]) \in {"open", "cooling", "parked"}
      BY <2>1 DEF Closed, EntryRecord
    <3>2. entry' \in [Key -> EntryRecord]
      <4> DEFINE k == target[p]
                 g == Closed(target[p], verdict[p])
      <4>1. CASE entry' = [entry EXCEPT ![k].gate = g, ![k].due = FALSE,
                                        ![k].probing = FALSE]
        BY <2>1, <3>1, <4>1, ClosedTyped
      <4>2. CASE entry' = [entry EXCEPT ![k].probing = FALSE]
        BY <2>1, <4>2 DEF EntryRecord
      <4> QED BY <2>4, <4>1, <4>2 DEF FinishFailed
    <3> QED BY <2>2, <3>2
  <2>5. CASE Remove(p)
    BY <2>1, <2>2, <2>5 DEF Remove, Open, EntryRecord
  <2> QED BY <1>6, <2>3, <2>4, <2>5
<1>7. CASE Round \/ Join \/ UNCHANGED vars
  BY <1>7 DEF Round, Join, vars
<1>8. Manual \subseteq Prober /\ Task \subseteq Prober
  BY DEF Prober
<1> QED
  BY <1>1, <1>2, <1>3, <1>4, <1>5, <1>6, <1>7, <1>8 DEF Next, Worker, Step

LEMMA RunnerInit ==
  ASSUME Init
  PROVE  RunnerInv
<1>1. Holders = {} /\ Claimants = {}
  BY DEF Init, Holders, Claimants
<1>2. Cardinality(Holders) = 0 /\ Concurrency \in Nat
  BY <1>1, FS_EmptySet, ConcurrencyNatural
<1>3. ProbesAccounted
  BY <1>1, <1>2 DEF Init, ProbesAccounted
<1>4. TypeOK
  BY <1>2, VerdictsHold DEF Init, TypeOK, Open
<1> QED BY <1>3, <1>4 DEF RunnerInv

LEMMA RunnerStep ==
  ASSUME RunnerInv, [Next]_vars
  PROVE  RunnerInv'
<1>1. SharedOK /\ LocalsOK
  BY TypeOKParts DEF RunnerInv
<1>2. SharedOK' /\ LocalsOK'
  BY <1>1, SharedStep, LocalsStep
<1>3. TypeOK'
  BY <1>2, SumHolds, TypeOKParts DEF TypeOK, SharedOK, LocalsOK, EntryRecord, Place
<1> QED BY <1>3, AccountedStep DEF RunnerInv

LEMMA RunnerAlways == Spec => []RunnerInv
BY RunnerInit, RunnerStep, PTL DEF Spec

\* Whatever happens the state is well-formed; in particular the semaphore never
\* has more permits than it began with, and never fewer than none.
THEOREM TypesCorrect == Spec => []TypeOK
BY RunnerAlways, PTL DEF RunnerInv

\* ProbeRunner::run on all its paths, refused, busy, cancelled, overtaken or
\* done: a permit is in the semaphore or with a prober at work, and each key has
\* at most one prober, which is why its entry says `probing'.
THEOREM PermitsAndClaims == Spec => []ProbesAccounted
BY RunnerAlways, PTL DEF RunnerInv
-----------------------------------------------------------------------------
(* Every key is a KeyGate *)

\* The claim of a key by what holds it.
LEMMA ClaimStands ==
  ASSUME NEW k \in Key
  PROVE  /\ Claim(k) = "none" <=> \A p \in Claimants : target[p] # k
         /\ \A p \in Claimants :
              target[p] = k => Claim(k) = IF entry[k].overtaken THEN "stale" ELSE "live"
BY DEF Claim

LEMMA GateStutters ==
  ASSUME NEW k \in Key, Claimants' = Claimants,
         \A q \in Claimants : target'[q] = target[q],
         entry'[k].gate = entry[k].gate, entry'[k].overtaken = entry[k].overtaken
  PROVE  UNCHANGED Gate(k)!vars
BY DEF Gate!vars, Claim

\* What the entry of a key must do while its prober gives up the claim.
LEMMA GateGivenUp ==
  ASSUME RunnerInv, NEW p \in Prober, ClaimBack(p), NEW k \in Key, target[p] = k,
         \/ entry[k].overtaken /\ entry'[k].gate = entry[k].gate
         \/ ~entry[k].overtaken /\ entry'[k].gate = "open"
         \/ ~entry[k].overtaken /\ entry'[k].gate \in Gate(k)!AtLeast(entry[k].gate)
  PROVE  Gate(k)!Next
<1>1. p \in Claimants /\ Claimants' = Claimants \ {p}
      /\ \A q \in Claimants' : target'[q] = target[q]
  BY DEF ClaimBack
<1>2. \A q \in Claimants' : target'[q] # k
  BY <1>1 DEF RunnerInv, ProbesAccounted
<1>3. Claim(k)' = "none"
  BY <1>2 DEF Claim
<1>4. Claim(k) = IF entry[k].overtaken THEN "stale" ELSE "live"
  BY <1>1 DEF Claim
<1>5. CASE entry[k].overtaken /\ entry'[k].gate = entry[k].gate
  BY <1>3, <1>4, <1>5 DEF Gate!Next, Gate!ProbeOvertaken
<1>6. CASE ~entry[k].overtaken /\ entry'[k].gate = "open"
  BY <1>3, <1>4, <1>6 DEF Gate!Next, Gate!ProbeWorked
<1>7. CASE ~entry[k].overtaken /\ entry'[k].gate \in Gate(k)!AtLeast(entry[k].gate)
  BY <1>3, <1>4, <1>7 DEF Gate!Next, Gate!ProbeFailed
<1> QED BY <1>5, <1>6, <1>7

LEMMA GateFailure ==
  ASSUME RunnerInv, NEW j \in Key, Failure(j), NEW k \in Key
  PROVE  [Gate(k)!Next]_(Gate(k)!vars)
<1>1. entry \in [Key -> EntryRecord]
  BY DEF RunnerInv, TypeOK, EntryRecord
<1>2. Claimants' = Claimants /\ \A q \in Claimants : target'[q] = target[q]
  BY DEF Failure, Claimants
<1>3. PICK g \in IF entry[j].gate = "parked" THEN {"parked"} ELSE {"cooling", "parked"},
           d \in {FALSE, entry[j].due} :
        entry' = [entry EXCEPT ![j].gate = g, ![j].due = d,
                               ![j].overtaken = entry[j].probing]
  BY DEF Failure
<1>4. CASE j # k
  <2>1. entry'[k] = entry[k]
    BY <1>1, <1>3, <1>4
  <2> QED BY <1>2, <2>1, GateStutters
<1>5. CASE j = k
  <2>1. entry'[k].gate = g /\ entry'[k].overtaken = entry[k].probing
    BY <1>1, <1>3, <1>5 DEF EntryRecord
  <2>2. g \in Gate(k)!AtLeast(entry[k].gate) \ {"open"}
    BY <1>1, <1>3, <1>5 DEF Gate!AtLeast, Gate!Gates, EntryRecord
  <2>3. Claim(k)' = IF Claim(k) = "live" THEN "stale" ELSE Claim(k)
    <3>1. CASE \A q \in Claimants : target[q] # k
      BY <1>2, <3>1 DEF Claim
    <3>2. CASE \E q \in Claimants : target[q] = k
      <4>1. entry[k].probing
        BY <3>2 DEF RunnerInv, ProbesAccounted
      <4>2. Claim(k)' = "stale"
        BY <1>2, <2>1, <3>2, <4>1 DEF Claim
      <4>3. Claim(k) \in {"live", "stale"}
        BY <3>2 DEF Claim
      <4> QED BY <4>2, <4>3
    <3> QED BY <3>1, <3>2
  <2>4. Gate(k)!Failure
    BY <2>1, <2>2, <2>3 DEF Gate!Failure
  <2> QED BY <2>4 DEF Gate!Next
<1> QED BY <1>4, <1>5

LEMMA GateElapse ==
  ASSUME RunnerInv, NEW j \in Key, Elapse(j), NEW k \in Key
  PROVE  [Gate(k)!Next]_(Gate(k)!vars)
<1>1. entry \in [Key -> EntryRecord]
  BY DEF RunnerInv, TypeOK, EntryRecord
<1>2. Claimants' = Claimants /\ \A q \in Claimants : target'[q] = target[q]
  BY DEF Elapse, Claimants
<1>3. CASE j # k
  <2>1. entry'[k] = entry[k]
    BY <1>1, <1>3 DEF Elapse
  <2> QED BY <1>2, <2>1, GateStutters
<1>4. CASE j = k /\ entry[j].gate = "cooling" /\ entry' = [entry EXCEPT ![j].gate = "open"]
  <2>1. entry'[k].gate = "open" /\ entry'[k].overtaken = entry[k].overtaken
    BY <1>1, <1>4 DEF EntryRecord
  <2>2. Claim(k)' = Claim(k)
    BY <1>2, <2>1 DEF Claim
  <2> QED BY <1>4, <2>1, <2>2 DEF Gate!Next, Gate!Expire
<1>5. CASE j = k /\ entry' = [entry EXCEPT ![j].due = TRUE]
  <2>1. entry'[k].gate = entry[k].gate /\ entry'[k].overtaken = entry[k].overtaken
    BY <1>1, <1>5 DEF EntryRecord
  <2> QED BY <1>2, <2>1, GateStutters
<1> QED BY <1>3, <1>4, <1>5 DEF Elapse

LEMMA GateBegin ==
  ASSUME RunnerInv, NEW p \in Prober, BeginProbe(p), NEW k \in Key
  PROVE  [Gate(k)!Next]_(Gate(k)!vars)
<1>1. entry \in [Key -> EntryRecord] /\ TypeOK /\ Claimed
  BY DEF RunnerInv, TypeOK, EntryRecord, ProbesAccounted, Claimed
<1>2. ClaimTaken(p) /\ target[p] \in Key /\ ~entry[target[p]].probing
  BY <1>1, BeginProbeEffect, TargetsAreKeys DEF BeginProbe, MayBegin, Due
<1>3. \A q \in Claimants' : target'[q] = target[q] /\ (q = p \/ q \in Claimants)
  BY <1>2 DEF ClaimTaken, Claimants
<1>4. CASE target[p] # k
  <2>1. entry'[k] = entry[k]
    BY <1>1, <1>2, <1>4 DEF BeginProbe
  <2>2. (\A q \in Claimants' : target'[q] # k) <=> (\A q \in Claimants : target[q] # k)
    BY <1>2, <1>3, <1>4 DEF ClaimTaken
  <2>3. Claim(k)' = Claim(k)
    BY <2>1, <2>2 DEF Claim
  <2> QED BY <2>1, <2>3 DEF Gate!vars
<1>5. CASE target[p] = k
  <2>1. entry'[k].gate = entry[k].gate /\ entry'[k].overtaken = FALSE
    BY <1>1, <1>2, <1>5 DEF BeginProbe, EntryRecord
  <2>2. \A q \in Claimants : target[q] # k
    BY <1>1, <1>2, <1>5 DEF Claimed
  <2>3. p \in Claimants' /\ target'[p] = k
    BY <1>2, <1>5 DEF ClaimTaken
  <2>4. Claim(k) = "none" /\ Claim(k)' = "live"
    BY <2>1, <2>2, <2>3 DEF Claim
  <2> QED BY <2>1, <2>4 DEF Gate!Next, Gate!TakeClaim
<1> QED BY <1>4, <1>5

\* The keys that a prober is not at are not touched when it retires.
LEMMA OthersStutter ==
  ASSUME NEW p \in Prober, ClaimBack(p), NEW k \in Key, target[p] # k,
         entry'[k] = entry[k]
  PROVE  UNCHANGED Gate(k)!vars
<1>1. (\A q \in Claimants' : target'[q] # k) <=> (\A q \in Claimants : target[q] # k)
  BY DEF ClaimBack
<1> QED BY <1>1 DEF Claim, Gate!vars

LEMMA GateFinish ==
  ASSUME RunnerInv, NEW p \in Prober, NEW k \in Key,
         FinishOvertaken(p) \/ FinishFailed(p) \/ Remove(p)
  PROVE  [Gate(k)!Next]_(Gate(k)!vars)
<1>1. entry \in [Key -> EntryRecord] /\ TypeOK
  BY DEF RunnerInv, TypeOK, EntryRecord
<1>2. ClaimBack(p) /\ target[p] \in Key
  BY <1>1, RetireEffect, TargetsAreKeys DEF FinishOvertaken, FinishFailed, Remove
<1>3. entry[k].gate \in {"open", "cooling", "parked"}
  BY <1>1 DEF EntryRecord
<1>4. CASE target[p] # k
  <2>1. entry'[k] = entry[k]
    <3>1. CASE FinishOvertaken(p) BY <1>1, <1>2, <1>4, <3>1 DEF FinishOvertaken
    <3>2. CASE FinishFailed(p) BY <1>1, <1>2, <1>4, <3>2 DEF FinishFailed
    <3>3. CASE Remove(p) BY <1>1, <1>2, <1>4, <3>3 DEF Remove
    <3> QED BY <3>1, <3>2, <3>3
  <2> QED BY <1>2, <1>4, <2>1, OthersStutter
<1>5. CASE target[p] = k
  <2>1. CASE FinishOvertaken(p)
    <3>1. entry[k].overtaken /\ entry'[k].gate = entry[k].gate
      BY <1>1, <1>5, <2>1 DEF FinishOvertaken, EntryRecord
    <3> QED BY <1>2, <1>5, <3>1, GateGivenUp
  <2>2. CASE FinishFailed(p)
    <3>1. ~entry[k].overtaken
      BY <1>5, <2>2 DEF FinishFailed
    <3>2. entry'[k].gate \in {entry[k].gate, Closed(k, verdict[p])}
      BY <1>1, <1>5, <2>2 DEF FinishFailed, EntryRecord
    <3>3. entry'[k].gate \in Gate(k)!AtLeast(entry[k].gate)
      BY <1>3, <3>2 DEF Closed, Gate!AtLeast, Gate!Gates
    <3> QED BY <1>2, <1>5, <3>1, <3>3, GateGivenUp
  <2>3. CASE Remove(p)
    <3>1. CASE entry[k].overtaken
      <4>1. entry' = entry
        BY <1>5, <2>3, <3>1 DEF Remove
      <4> QED BY <1>2, <1>5, <3>1, <4>1, GateGivenUp
    <3>2. CASE ~entry[k].overtaken
      <4>1. entry'[k].gate = "open"
        BY <1>1, <1>5, <2>3, <3>2 DEF Remove, Open
      <4> QED BY <1>2, <1>5, <3>2, <4>1, GateGivenUp
    <3> QED BY <3>1, <3>2
  <2> QED BY <1>5, <2>1, <2>2, <2>3
<1> QED BY <1>4, <1>5

LEMMA GateStep ==
  ASSUME RunnerInv, [Next]_vars
  PROVE  \A k \in Key : [Gate(k)!Next]_(Gate(k)!vars)
<1> SUFFICES ASSUME NEW k \in Key
             PROVE  [Gate(k)!Next]_(Gate(k)!vars)
  OBVIOUS
<1>1. TypeOK
  BY DEF RunnerInv
<1>2. ASSUME ClaimsKept, UNCHANGED entry
      PROVE  UNCHANGED Gate(k)!vars
  BY <1>2, GateStutters DEF ClaimsKept
<1>3. ASSUME NEW p \in Prober,
             \/ CheckInactive(p) \/ CheckActive(p) \/ LookUp(p) \/ Return(p)
             \/ FinishWorked(p) \/ Cancel(p) \/ \E j \in Key : Request(p, j)
             \/ \E j \in Key : Spawn(p, j)
      PROVE  UNCHANGED Gate(k)!vars
  <2>1. UNCHANGED entry
    BY <1>3 DEF CheckInactive, CheckActive, LookUp, Return, FinishWorked, Cancel,
                Request, Spawn
  <2> QED BY <1>1, <1>2, <1>3, <2>1, IdleSteps
<1>4. ASSUME NEW p \in Prober, TakePermit(p) \/ BeginBusy(p)
      PROVE  UNCHANGED Gate(k)!vars
  BY <1>1, <1>2, <1>4, TakePermitEffect, BeginBusyEffect DEF TakePermit, BeginBusy
<1>5. ASSUME \/ \E j \in Key : Toggle(j)
             \/ Round \/ Join \/ UNCHANGED vars
      PROVE  UNCHANGED Gate(k)!vars
  BY <1>2, <1>5, OtherSteps DEF Toggle, Round, Join, vars
<1>6. Manual \subseteq Prober /\ Task \subseteq Prober
  BY DEF Prober
<1> QED
  BY <1>3, <1>4, <1>5, <1>6, GateFailure, GateElapse, GateBegin, GateFinish
  DEF Next, Worker, Step

LEMMA GateInit ==
  ASSUME Init
  PROVE  \A k \in Key : Gate(k)!Init
BY DEF Init, Open, Claim, Claimants, Gate!Init

\* RateLimitState seen from outside while ProbeRunner works on many keys at once:
\* each key keeps the promise of KeyGate, whichever probes, failures, edits and
\* requests by hand of other keys come between.
THEOREM RunnerKeepsGates == Spec => KeysAreGates
<1>1. RunnerInv /\ [Next]_vars => [\A k \in Key : [Gate(k)!Next]_(Gate(k)!vars)]_vars
  BY GateStep
<1> QED BY <1>1, GateInit, RunnerAlways, PTL DEF Spec, KeysAreGates
=============================================================================
