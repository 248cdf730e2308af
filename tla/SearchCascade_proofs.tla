------------------------- MODULE SearchCascade_proofs -------------------------
(***************************************************************************)
(* What one search guarantees, for any keys, providers, tiers and limits,  *)
(* and whatever the other searches do to the keys meanwhile.               *)
(*                                                                         *)
(* The invariant says where the key in hand stands (Hand), how its calls   *)
(* relate to it (CallsOfHand, CallsBehind), why keys were set aside        *)
(* (SetAsideFor), what became of the tiers left behind (TiersBehind), how  *)
(* the attempts are spent (AttemptsCount), and what the record of the last *)
(* failure says of them (TrailKept).                                       *)
(***************************************************************************)
EXTENDS SearchCascade, TLAPS, FiniteSetTheorems

USE DEF trail

InHand == {"wait", "try", "calling", "backoff"}

Hand ==
  /\ pc \in InHand =>
       /\ key \in pool \ excluded
       /\ ProviderOf[key] \notin refused
       /\ TierOf[key] = tier
  /\ pc \notin {"start", "audit", "done"} => pool # {}
  /\ pc \notin {"audit", "done"} => verdict = "none"

CallsOfHand ==
  /\ pc \in {"wait", "try", "backoff"} =>
       called[key] = IF retried \/ pc = "backoff" THEN 1 ELSE 0
  /\ pc = "calling" => called[key] = IF retried THEN 2 ELSE 1
  /\ pc \in {"wait", "backoff"} => ~retried

\* Before the first call of the key in hand.
Fresh == pc = "wait" \/ (pc = "try" /\ ~retried)

\* Keys called so far, but for the one in hand, are set aside or refused.
CallsBehind ==
  pc \notin {"audit", "done"} =>
    \A k \in Key : called[k] > 0 =>
      \/ k \in excluded \/ ProviderOf[k] \in refused
      \/ pc \in InHand /\ k = key

SetAsideFor ==
  /\ \A k \in excluded :
       called[k] > 0 \/ k \in barred \/ k \in Paced \/ k \in Misconfigured \/ Late
  /\ unavailable \subseteq barred

TiersBehind ==
  /\ pc = "start" => \A k \in Key : called[k] = 0
  /\ \A k \in Key : called[k] > 0 => TierOf[k] <= tier
  /\ pc # "start" =>
       \A j \in pool \ (Ineligible \union Misconfigured \union Paced) :
         TierOf[j] < tier =>
           called[j] > 0 \/ j \in barred \/ ProviderOf[j] \in refused

AttemptsCount ==
  /\ Cardinality(Charged) + (IF pc = "try" /\ ~retried THEN 1 ELSE 0) <= attempts
  /\ attempts <= MaxFallbacks + 1
  /\ pc = "wait" => attempts <= MaxFallbacks

RecordsCount ==
  /\ pc \in {"start", "select", "wait"} => attempts <= records
  /\ pc \in {"try", "calling", "backoff"} => attempts <= records + 1
  /\ SkippedNotNegative

\* The charge of the key in hand, which has neither failed nor been given back.
Pending == IF pc \in {"try", "calling", "backoff"} THEN 1 ELSE 0

\* A failure on record is one of a key that was tried and set aside; there is
\* one exactly if an attempt was charged, that of the key in hand apart.
TrailKept ==
  /\ Pending <= attempts
  /\ pc # "done" => (failed = None <=> attempts = Pending)
  /\ failed = None => blamed = {}
  /\ failed # None =>
       failed \in excluded /\ (called[failed] > 0 \/ failed \in blamed)
  /\ pc # "done" => audit = {}
  /\ pc = "audit" => verdict \in {"refused", "unavailable"}

CascadeInv ==
  /\ TypeOK /\ Hand /\ CallsOfHand /\ CallsBehind /\ SetAsideFor
  /\ TiersBehind /\ AttemptsCount /\ RecordsCount
  /\ RefusalIsUnanimous /\ NoBlameWithoutCause /\ TrailKept /\ AuditNamesFailure
-----------------------------------------------------------------------------
LEMMA SubsetFinite ==
  ASSUME NEW S \in SUBSET Key
  PROVE  IsFiniteSet(S) /\ Cardinality(S) \in Nat
BY CascadeAssumption, FS_Subset, FS_CardinalityType

LEMMA InitInv == Init => CascadeInv
<1> SUFFICES ASSUME Init PROVE CascadeInv
  OBVIOUS
<1>1. TypeOK
  <2>1. called \in [Key -> Nat] /\ left \in Nat
    BY CascadeAssumption DEF Init
  <2>2. key \in Key \union {None}
    BY DEF Init
  <2>3. pool \in SUBSET Key /\ unavailable \in SUBSET Key /\ barred \in SUBSET Key
    BY DEF Init
  <2>4. pc \in Pc /\ tier \in Int
    BY DEF Init, Pc
  <2>5. excluded \in SUBSET Key /\ refused \in SUBSET Provider /\ blamed \in SUBSET Key
    BY DEF Init
  <2>6. attempts \in Nat /\ records \in Nat /\ retried \in BOOLEAN
    BY DEF Init
  <2>7. verdict \in {"none", "ok", "refused", "unavailable", "cancelled"}
    BY DEF Init
  <2>8. failed \in Key \union {None} /\ audit \in SUBSET (Provider \union {None})
    BY DEF Init
  <2> QED
    BY <2>1, <2>2, <2>3, <2>4, <2>5, <2>6, <2>7, <2>8 DEF TypeOK
<1>2. Hand /\ CallsOfHand /\ CallsBehind /\ SetAsideFor /\ TiersBehind
  BY DEF Init, Hand, CallsOfHand, CallsBehind, SetAsideFor, TiersBehind, InHand
<1>3. AttemptsCount
  <2>1. Charged = {}
    BY DEF Init, Charged
  <2> QED
    BY <2>1, FS_EmptySet, CascadeAssumption DEF Init, AttemptsCount
<1>4. RecordsCount /\ RefusalIsUnanimous /\ NoBlameWithoutCause
  BY DEF Init, RecordsCount, SkippedNotNegative, RefusalIsUnanimous,
     NoBlameWithoutCause
<1>5. TrailKept /\ AuditNamesFailure
  BY DEF Init, TrailKept, Pending, AuditNamesFailure
<1> QED
  BY <1>1, <1>2, <1>3, <1>4, <1>5 DEF CascadeInv

LEMMA StartInv == CascadeInv /\ Start => CascadeInv'
<1> SUFFICES ASSUME CascadeInv, Start PROVE CascadeInv'
  OBVIOUS
<1>1. TypeOK'
  BY CascadeAssumption DEF CascadeInv, TypeOK, Pc, Start, FirstOf, Tiers,
      EndWithError
<1>2. (Hand /\ CallsOfHand /\ CallsBehind)'
  BY
  DEF CascadeInv, TypeOK, Hand, CallsOfHand, CallsBehind, InHand, Start,
      FirstOf, Tiers, EndWithError
<1>3. (SetAsideFor /\ TiersBehind)'
  BY CascadeAssumption
  DEF CascadeInv, TypeOK, Hand, SetAsideFor, TiersBehind, InHand, Late, Start,
      FirstOf, Tiers, EndWithError
<1>4. Charged' = Charged
  BY DEF Charged, Start, FirstOf, Tiers,
      EndWithError
<1>5. AttemptsCount'
  BY <1>4, CascadeAssumption, SubsetFinite
  DEF CascadeInv, TypeOK, Charged, AttemptsCount, CallsOfHand, Start, FirstOf,
      Tiers, EndWithError
<1>6. (RecordsCount /\ RefusalIsUnanimous /\ NoBlameWithoutCause)'
  BY CascadeAssumption
  DEF CascadeInv, TypeOK, Hand, AttemptsCount, RecordsCount, SkippedNotNegative,
     RefusalIsUnanimous, NoBlameWithoutCause, Late, Start, FirstOf, Tiers,
      EndWithError
<1>7. (TrailKept /\ AuditNamesFailure)'
  BY
  DEF CascadeInv, TypeOK, Hand, InHand, TrailKept, Pending, AuditNamesFailure,
      Start, FirstOf, EndWithError
<1> QED
  BY <1>1, <1>2, <1>3, <1>5, <1>6, <1>7 DEF CascadeInv

LEMMA StopInv == CascadeInv /\ Stop => CascadeInv'
<1> SUFFICES ASSUME CascadeInv, Stop PROVE CascadeInv'
  OBVIOUS
<1>1. TypeOK'
  BY DEF CascadeInv, TypeOK, Pc, Stop, Conclude, EndWithError, AttemptsSpent
<1>2. (Hand /\ CallsOfHand /\ CallsBehind)'
  BY
  DEF CascadeInv, TypeOK, Hand, CallsOfHand, CallsBehind, InHand, Stop,
      Conclude, EndWithError, AttemptsSpent
<1>3. (SetAsideFor /\ TiersBehind)'
  BY
  DEF CascadeInv, TypeOK, Hand, SetAsideFor, TiersBehind, InHand, Late, Stop,
      Conclude, EndWithError, AttemptsSpent
<1>4. Charged' = Charged
  BY DEF Charged, Stop, Conclude, EndWithError, AttemptsSpent
<1>5. AttemptsCount'
  BY <1>4, CascadeAssumption, SubsetFinite
  DEF CascadeInv, TypeOK, Charged, AttemptsCount, CallsOfHand, Stop, Conclude,
      EndWithError, AttemptsSpent
<1>6. (RecordsCount /\ RefusalIsUnanimous /\ NoBlameWithoutCause)'
  BY CascadeAssumption
  DEF CascadeInv, TypeOK, Hand, AttemptsCount, RecordsCount, SkippedNotNegative,
     RefusalIsUnanimous, NoBlameWithoutCause, Late, Stop, Conclude,
      EndWithError, AttemptsSpent
<1>7. (TrailKept /\ AuditNamesFailure)'
  BY
  DEF CascadeInv, TypeOK, Hand, InHand, TrailKept, Pending, AuditNamesFailure,
      Stop, Conclude, EndWithError
<1> QED
  BY <1>1, <1>2, <1>3, <1>5, <1>6, <1>7 DEF CascadeInv

LEMMA WakeInv == CascadeInv /\ Wake => CascadeInv'
<1> SUFFICES ASSUME CascadeInv, Wake PROVE CascadeInv'
  OBVIOUS
<1>1. TypeOK'
  BY DEF CascadeInv, TypeOK, Pc, Wake, SetAside
<1>2. (Hand /\ CallsOfHand /\ CallsBehind)'
  BY
  DEF CascadeInv, TypeOK, Hand, CallsOfHand, CallsBehind, InHand, Wake, SetAside
<1>3. (SetAsideFor /\ TiersBehind)'
  BY
  DEF CascadeInv, TypeOK, Hand, SetAsideFor, TiersBehind, InHand, Late, Wake,
      SetAside
<1>4. Charged' = Charged
  BY DEF Charged, Wake, SetAside
<1>5. AttemptsCount'
  BY <1>4, CascadeAssumption, SubsetFinite
  DEF CascadeInv, TypeOK, Charged, AttemptsCount, CallsOfHand, Wake, SetAside
<1>6. (RecordsCount /\ RefusalIsUnanimous /\ NoBlameWithoutCause)'
  BY CascadeAssumption
  DEF CascadeInv, TypeOK, Hand, AttemptsCount, RecordsCount, SkippedNotNegative,
     RefusalIsUnanimous, NoBlameWithoutCause, Late, Wake, SetAside
<1>7. (TrailKept /\ AuditNamesFailure)'
  BY
  DEF CascadeInv, TypeOK, Hand, InHand, TrailKept, Pending, AuditNamesFailure,
      Wake, SetAside
<1> QED
  BY <1>1, <1>2, <1>3, <1>5, <1>6, <1>7 DEF CascadeInv

LEMMA AnswerInv == CascadeInv /\ Answer => CascadeInv'
<1> SUFFICES ASSUME CascadeInv, Answer PROVE CascadeInv'
  OBVIOUS
<1>1. TypeOK'
  BY DEF CascadeInv, TypeOK, Pc, Answer, End
<1>2. (Hand /\ CallsOfHand /\ CallsBehind)'
  BY DEF CascadeInv, TypeOK, Hand, CallsOfHand, CallsBehind, InHand, Answer, End
<1>3. (SetAsideFor /\ TiersBehind)'
  BY
  DEF CascadeInv, TypeOK, Hand, SetAsideFor, TiersBehind, InHand, Late, Answer,
      End
<1>4. Charged' = Charged
  BY DEF Charged, Answer, End
<1>5. AttemptsCount'
  BY <1>4, CascadeAssumption, SubsetFinite
  DEF CascadeInv, TypeOK, Charged, AttemptsCount, CallsOfHand, Answer, End
<1>6. (RecordsCount /\ RefusalIsUnanimous /\ NoBlameWithoutCause)'
  BY CascadeAssumption
  DEF CascadeInv, TypeOK, Hand, AttemptsCount, RecordsCount, SkippedNotNegative,
     RefusalIsUnanimous, NoBlameWithoutCause, Late, Answer, End
<1>7. (TrailKept /\ AuditNamesFailure)'
  BY
  DEF CascadeInv, TypeOK, Hand, InHand, TrailKept, Pending, AuditNamesFailure,
      Answer, End
<1> QED
  BY <1>1, <1>2, <1>3, <1>5, <1>6, <1>7 DEF CascadeInv

LEMMA FirstFailureInv == CascadeInv /\ CallFailsFirst => CascadeInv'
<1> SUFFICES ASSUME CascadeInv, CallFailsFirst PROVE CascadeInv'
  OBVIOUS
<1>1. TypeOK'
  BY DEF CascadeInv, TypeOK, Pc, CallFailsFirst
<1>2. (Hand /\ CallsOfHand /\ CallsBehind)'
  BY
  DEF CascadeInv, TypeOK, Hand, CallsOfHand, CallsBehind, InHand, CallFailsFirst
<1>3. (SetAsideFor /\ TiersBehind)'
  BY
  DEF CascadeInv, TypeOK, Hand, SetAsideFor, TiersBehind, InHand, Late,
      CallFailsFirst
<1>4. Charged' = Charged
  BY DEF Charged, CallFailsFirst
<1>5. AttemptsCount'
  BY <1>4, CascadeAssumption, SubsetFinite
  DEF CascadeInv, TypeOK, Charged, AttemptsCount, CallsOfHand, CallFailsFirst
<1>6. (RecordsCount /\ RefusalIsUnanimous /\ NoBlameWithoutCause)'
  BY CascadeAssumption
  DEF CascadeInv, TypeOK, Hand, AttemptsCount, RecordsCount, SkippedNotNegative,
     RefusalIsUnanimous, NoBlameWithoutCause, Late, CallFailsFirst
<1>7. (TrailKept /\ AuditNamesFailure)'
  BY
  DEF CascadeInv, TypeOK, Hand, InHand, TrailKept, Pending, AuditNamesFailure,
      CallFailsFirst
<1> QED
  BY <1>1, <1>2, <1>3, <1>5, <1>6, <1>7 DEF CascadeInv

LEMMA RetryInv == CascadeInv /\ Retry => CascadeInv'
<1> SUFFICES ASSUME CascadeInv, Retry PROVE CascadeInv'
  OBVIOUS
<1>1. TypeOK'
  BY DEF CascadeInv, TypeOK, Pc, Retry
<1>2. (Hand /\ CallsOfHand /\ CallsBehind)'
  BY DEF CascadeInv, TypeOK, Hand, CallsOfHand, CallsBehind, InHand, Retry
<1>3. (SetAsideFor /\ TiersBehind)'
  BY DEF CascadeInv, TypeOK, Hand, SetAsideFor, TiersBehind, InHand, Late, Retry
<1>4. Charged' = Charged
  BY DEF Charged, Retry
<1>5. AttemptsCount'
  BY <1>4, CascadeAssumption, SubsetFinite
  DEF CascadeInv, TypeOK, Charged, AttemptsCount, CallsOfHand, Retry
<1>6. (RecordsCount /\ RefusalIsUnanimous /\ NoBlameWithoutCause)'
  BY CascadeAssumption
  DEF CascadeInv, TypeOK, Hand, AttemptsCount, RecordsCount, SkippedNotNegative,
     RefusalIsUnanimous, NoBlameWithoutCause, Late, Retry
<1>7. (TrailKept /\ AuditNamesFailure)'
  BY
  DEF CascadeInv, TypeOK, Hand, InHand, TrailKept, Pending, AuditNamesFailure,
      Retry
<1> QED
  BY <1>1, <1>2, <1>3, <1>5, <1>6, <1>7 DEF CascadeInv

LEMMA LogInv == CascadeInv /\ Log => CascadeInv'
<1> SUFFICES ASSUME CascadeInv, Log PROVE CascadeInv'
  OBVIOUS
<1> USE DEF Log
<1>1. AuditRow \in Provider \union {None}
  BY CascadeAssumption DEF CascadeInv, TypeOK, AuditRow
<1>2. TypeOK'
  BY <1>1 DEF CascadeInv, TypeOK, Pc
<1>3. (Hand /\ CallsOfHand /\ CallsBehind)'
  BY DEF CascadeInv, TypeOK, Hand, CallsOfHand, CallsBehind, InHand
<1>4. (SetAsideFor /\ TiersBehind)'
  BY DEF CascadeInv, TypeOK, SetAsideFor, TiersBehind, Late
<1>5. Charged' = Charged
  BY DEF Charged
<1>6. AttemptsCount'
  BY <1>5 DEF CascadeInv, AttemptsCount
<1>7. (RecordsCount /\ RefusalIsUnanimous /\ NoBlameWithoutCause)'
  BY DEF CascadeInv, TypeOK, Hand, RecordsCount, SkippedNotNegative,
     RefusalIsUnanimous, NoBlameWithoutCause, Late
<1>8. TrailKept'
  BY DEF CascadeInv, TrailKept, Pending
<1>9. AuditNamesFailure'
  <2>1. audit' \subseteq {AuditRow} /\ verdict' \notin {"none", "ok"}
    BY DEF CascadeInv, TrailKept
  <2>2. CASE failed = None
    BY <2>1, <2>2
    DEF CascadeInv, TypeOK, TrailKept, Pending, AuditRow, AuditNamesFailure
  <2>3. CASE failed # None
    <3>1. AuditRow = ProviderOf[failed] /\ AuditRow # None
      BY <2>3, CascadeAssumption DEF CascadeInv, TypeOK, AuditRow
    <3>2. attempts > 0
      BY <2>3 DEF CascadeInv, TypeOK, TrailKept, Pending
    <3> QED
      BY <2>1, <2>3, <3>1, <3>2 DEF CascadeInv, TrailKept, AuditNamesFailure
  <2> QED
    BY <2>2, <2>3
<1> QED
  BY <1>2, <1>3, <1>4, <1>6, <1>7, <1>8, <1>9 DEF CascadeInv

LEMMA CancelInv == CascadeInv /\ Cancel => CascadeInv'
<1> SUFFICES ASSUME CascadeInv, Cancel PROVE CascadeInv'
  OBVIOUS
<1>1. TypeOK'
  BY DEF CascadeInv, TypeOK, Pc, Cancel, End
<1>2. (Hand /\ CallsOfHand /\ CallsBehind)'
  BY DEF CascadeInv, TypeOK, Hand, CallsOfHand, CallsBehind, InHand, Cancel, End
<1>3. (SetAsideFor /\ TiersBehind)'
  BY
  DEF CascadeInv, TypeOK, Hand, SetAsideFor, TiersBehind, InHand, Late, Cancel,
      End
<1>4. Charged' = Charged
  BY DEF Charged, Cancel, End
<1>5. AttemptsCount'
  BY <1>4, CascadeAssumption, SubsetFinite
  DEF CascadeInv, TypeOK, Charged, AttemptsCount, CallsOfHand, Cancel, End
<1>6. (RecordsCount /\ RefusalIsUnanimous /\ NoBlameWithoutCause)'
  BY CascadeAssumption
  DEF CascadeInv, TypeOK, Hand, AttemptsCount, RecordsCount, SkippedNotNegative,
     RefusalIsUnanimous, NoBlameWithoutCause, Late, Cancel, End
<1>7. (TrailKept /\ AuditNamesFailure)'
  BY
  DEF CascadeInv, TypeOK, Hand, InHand, TrailKept, Pending, AuditNamesFailure,
      Cancel, End
<1> QED
  BY <1>1, <1>2, <1>3, <1>5, <1>6, <1>7 DEF CascadeInv

LEMMA SelectInv == CascadeInv /\ (\E k \in Key : Select(k)) => CascadeInv'
<1> SUFFICES ASSUME CascadeInv, NEW k \in Key, Select(k) PROVE CascadeInv'
  OBVIOUS
<1> USE DEF Select, Choosing, Winners, Eligible
<1>1. TypeOK'
  <2>1. attempts' \in Nat /\ pc' \in Pc
    BY DEF CascadeInv, TypeOK, Pc
  <2>2. key' \in Key \union {None} /\ retried' \in BOOLEAN
    OBVIOUS
  <2> QED
    BY <2>1, <2>2 DEF CascadeInv, TypeOK
<1>2. called[k] = 0
  <2>1. called[k] \in Nat
    BY DEF CascadeInv, TypeOK
  <2>2. ~(called[k] > 0)
    BY DEF CascadeInv, CallsBehind, InHand
  <2> QED
    BY <2>1, <2>2
<1>3. (Hand /\ CallsOfHand)'
  BY <1>2 DEF CascadeInv, TypeOK, Hand, CallsOfHand, InHand
<1>4. CallsBehind'
  BY DEF CascadeInv, TypeOK, CallsBehind, InHand
<1>5. (SetAsideFor /\ TiersBehind)'
  BY DEF CascadeInv, TypeOK, Hand, SetAsideFor, TiersBehind, Late
<1>6. Charged' = Charged
  BY DEF Charged
<1>7. AttemptsCount'
  BY <1>6, CascadeAssumption, SubsetFinite
  DEF CascadeInv, TypeOK, Charged, AttemptsCount, AttemptsSpent
<1>8. (RecordsCount /\ RefusalIsUnanimous /\ NoBlameWithoutCause)'
  BY DEF CascadeInv, TypeOK, Hand, RecordsCount, SkippedNotNegative,
     RefusalIsUnanimous, NoBlameWithoutCause, Late
<1>9. (TrailKept /\ AuditNamesFailure)'
  BY DEF CascadeInv, TypeOK, Hand, InHand, TrailKept, Pending, AuditNamesFailure
<1> QED
  BY <1>1, <1>3, <1>4, <1>5, <1>7, <1>8, <1>9 DEF CascadeInv

LEMMA OverflowInv == CascadeInv /\ (\E k \in Key : Overflow(k)) => CascadeInv'
<1> SUFFICES ASSUME CascadeInv, NEW k \in Key, Overflow(k) PROVE CascadeInv'
  OBVIOUS
<1> USE DEF Overflow, Choosing, Winners, SetAside
<1>1. TypeOK'
  BY DEF CascadeInv, TypeOK, Pc
<1>2. (Hand /\ CallsOfHand /\ CallsBehind)'
  BY DEF CascadeInv, TypeOK, Hand, CallsOfHand, CallsBehind, InHand
<1>3. (SetAsideFor /\ TiersBehind)'
  BY DEF CascadeInv, TypeOK, SetAsideFor, TiersBehind, Late
<1>4. Charged' = Charged
  BY DEF Charged
<1>5. AttemptsCount'
  BY <1>4 DEF CascadeInv, AttemptsCount
<1>6. (RecordsCount /\ RefusalIsUnanimous /\ NoBlameWithoutCause)'
  BY DEF CascadeInv, TypeOK, Hand, RecordsCount, SkippedNotNegative,
     RefusalIsUnanimous, NoBlameWithoutCause, Late
<1>7. (TrailKept /\ AuditNamesFailure)'
  BY DEF CascadeInv, TypeOK, Hand, InHand, TrailKept, Pending, AuditNamesFailure
<1> QED
  BY <1>1, <1>2, <1>3, <1>5, <1>6, <1>7 DEF CascadeInv

\* Leaving a tier: all its keys are behind for one of the reasons listed.
LEMMA AdvanceInv == CascadeInv /\ AdvanceTier => CascadeInv'
<1> SUFFICES ASSUME CascadeInv, AdvanceTier PROVE CascadeInv'
  OBVIOUS
<1> DEFINE after == {t \in Tiers : t > tier}
<1>1. Cardinality(Skipped) \in Nat
  BY SubsetFinite DEF CascadeInv, TypeOK, Skipped
<1>2. records' = records + Cardinality(Skipped) /\ records' \in Nat /\ records <= records'
  BY <1>1 DEF AdvanceTier, CascadeInv, TypeOK
<1>3. \/ Conclude /\ tier' = tier
      \/ tier' \in after /\ (\A u \in after : tier' <= u) /\ UNCHANGED <<pc, verdict>>
  BY DEF AdvanceTier, FirstOf
<1>4. /\ pc = "select" /\ ~Late /\ ~\E k \in Key : Eligible(k)
      /\ UNCHANGED <<trail, pool, key, excluded, refused, attempts, retried, called,
                     blamed, left, unavailable, barred>>
  BY DEF AdvanceTier, Choosing, Winners
<1>5. after \subseteq Int /\ tier \in Int
  BY CascadeAssumption DEF CascadeInv, TypeOK, Tiers
<1>6. TypeOK'
  BY <1>2, <1>3, <1>4, <1>5 DEF CascadeInv, TypeOK, Pc, Conclude, EndWithError
<1>7. (Hand /\ CallsOfHand /\ CallsBehind)'
  BY <1>3, <1>4
  DEF CascadeInv, Hand, CallsOfHand, CallsBehind, InHand, Conclude, EndWithError
<1>8. SetAsideFor'
  BY <1>4 DEF CascadeInv, SetAsideFor, Late
<1>9. tier' >= tier
  BY <1>3, <1>5
<1>10. \A j \in pool \ (Ineligible \union Misconfigured \union Paced) :
         TierOf[j] <= tier =>
           called[j] > 0 \/ j \in barred \/ ProviderOf[j] \in refused
  <2> SUFFICES ASSUME NEW j \in pool \ (Ineligible \union Misconfigured \union Paced),
                      TierOf[j] <= tier
               PROVE  called[j] > 0 \/ j \in barred \/ ProviderOf[j] \in refused
    OBVIOUS
  <2>1. TierOf[j] \in Int
    BY CascadeAssumption DEF CascadeInv, TypeOK
  <2>2. CASE TierOf[j] < tier
    BY <2>2, <1>4 DEF CascadeInv, TiersBehind
  <2>3. CASE TierOf[j] = tier
    <3>1. j \in excluded \/ j \in unavailable \/ ProviderOf[j] \in refused
      BY <2>3, <1>4 DEF Eligible, CascadeInv, TypeOK
    <3>2. CASE j \in excluded
      BY <3>2, <1>4 DEF CascadeInv, SetAsideFor
    <3>3. CASE j \in unavailable
      BY <3>3 DEF CascadeInv, SetAsideFor
    <3> QED
      BY <3>1, <3>2, <3>3
  <2> QED
    BY <2>1, <2>2, <2>3, <1>5
<1>11. \A j \in pool : TierOf[j] < tier' => TierOf[j] <= tier
  <2> SUFFICES ASSUME NEW j \in pool, TierOf[j] < tier', ~(TierOf[j] <= tier)
               PROVE  FALSE
    OBVIOUS
  <2>1. TierOf[j] \in Int /\ TierOf[j] \in Tiers
    BY CascadeAssumption DEF CascadeInv, TypeOK, Tiers
  <2>2. TierOf[j] \in after
    BY <2>1, <1>5
  <2> HIDE DEF after
  <2>3. tier' \in Int
    BY <1>3, <1>5
  <2> QED
    BY <2>1, <2>2, <2>3, <1>3, <1>5
<1>12. TiersBehind'
  <2>1. \A k \in Key : called[k] > 0 => TierOf[k] <= tier'
    <3> SUFFICES ASSUME NEW k \in Key, called[k] > 0 PROVE TierOf[k] <= tier'
      OBVIOUS
    <3>1. TierOf[k] \in Int /\ TierOf[k] <= tier
      BY CascadeAssumption DEF CascadeInv, TiersBehind
    <3>2. tier' \in Int
      BY <1>3, <1>5
    <3> QED
      BY <3>1, <3>2, <1>5, <1>9
  <2> QED
    BY <2>1, <1>10, <1>11, <1>3, <1>4 DEF TiersBehind, Conclude, EndWithError
<1>13. Charged' = Charged
  BY <1>4 DEF Charged
<1>14. AttemptsCount'
  BY <1>3, <1>4, <1>13 DEF CascadeInv, AttemptsCount, Conclude, EndWithError
<1>15. (RecordsCount /\ RefusalIsUnanimous /\ NoBlameWithoutCause)'
  BY <1>2, <1>3, <1>4
  DEF CascadeInv, TypeOK, Hand, RecordsCount, SkippedNotNegative,
      RefusalIsUnanimous, NoBlameWithoutCause, Late, Conclude, EndWithError
<1>16. (TrailKept /\ AuditNamesFailure)'
  BY <1>3, <1>4, AdvanceTier
  DEF CascadeInv, Hand, TrailKept, Pending, AuditNamesFailure, AdvanceTier,
      Conclude, EndWithError
<1> QED
  BY <1>6, <1>7, <1>8, <1>12, <1>14, <1>15, <1>16 DEF CascadeInv

\* A failure, with a cause for the blame.
LEMMA FailInv ==
  ASSUME CascadeInv, NEW t, Fail(t), pc \in {"try", "calling", "backoff"},
         called[key] > 0 \/ key \in Misconfigured \/ key \in barred \/ Late,
         t = "empty" => called[key] > 0
  PROVE  CascadeInv'
<1> USE DEF Fail, SetAside
<1>1. key \in Key /\ unavailable' \in SUBSET Key /\ barred \subseteq barred'
  BY DEF CascadeInv, TypeOK, Hand, InHand
<1>2. TypeOK'
  BY <1>1 DEF CascadeInv, TypeOK, Pc
<1>3. (Hand /\ CallsOfHand)'
  BY DEF CascadeInv, TypeOK, Hand, CallsOfHand, InHand
<1>4. CallsBehind'
  BY DEF CascadeInv, TypeOK, CallsBehind, InHand
<1>5. SetAsideFor'
  BY <1>1 DEF CascadeInv, TypeOK, SetAsideFor, Late
<1>6. TiersBehind'
  BY <1>1 DEF CascadeInv, TypeOK, TiersBehind
<1>7. Charged' = Charged
  BY DEF Charged
<1>8. AttemptsCount'
  BY <1>7, CascadeAssumption, SubsetFinite
  DEF CascadeInv, TypeOK, Charged, AttemptsCount
<1>9. (RecordsCount /\ RefusalIsUnanimous)'
  BY
  DEF CascadeInv, TypeOK, Hand, RecordsCount, SkippedNotNegative,
      RefusalIsUnanimous
<1>10. NoBlameWithoutCause'
  BY <1>1 DEF CascadeInv, TypeOK, NoBlameWithoutCause, Late
<1>11. TrailKept'
  BY <1>1, CascadeAssumption DEF CascadeInv, TypeOK, TrailKept, Pending
<1>12. AuditNamesFailure'
  BY DEF CascadeInv, TrailKept, AuditNamesFailure
<1> QED
  BY <1>2, <1>3, <1>4, <1>5, <1>6, <1>8, <1>9, <1>10, <1>11, <1>12 DEF CascadeInv

LEMMA FailuresInv ==
  ASSUME CascadeInv,
         FailMisconfigured \/ FailUncalled \/ AnswerEmpty \/ CallFails \/ OverflowRetry
  PROVE  CascadeInv'
<1>1. CASE FailMisconfigured
  BY <1>1, FailInv DEF FailMisconfigured
<1>2. CASE FailUncalled
  <2>1. Late \/ key \in barred
    BY <1>2 DEF FailUncalled, Callable, CascadeInv, SetAsideFor
  <2> QED
    BY <2>1, <1>2, FailInv DEF FailUncalled
<1>3. CASE AnswerEmpty \/ CallFails
  <2>1. called[key] > 0
    BY <1>3 DEF AnswerEmpty, CallFails, CascadeInv, CallsOfHand, TypeOK
  <2> QED
    BY <2>1, <1>3, FailInv DEF AnswerEmpty, CallFails
<1>4. CASE OverflowRetry
  <2>1. called[key] > 0
    BY <1>4 DEF OverflowRetry, CascadeInv, CallsOfHand, TypeOK
  <2> QED
    BY <2>1, <1>4, FailInv DEF OverflowRetry
<1> QED
  BY <1>1, <1>2, <1>3, <1>4

\* The attempt given back is one that was charged, or not yet used.
LEMMA RefuseInv ==
  ASSUME CascadeInv, Refuse, (pc = "try" /\ ~retried) \/ pc = "calling"
  PROVE  CascadeInv'
<1> USE DEF Refuse
<1>1. key \in Key /\ ProviderOf[key] \in Provider
  BY CascadeAssumption DEF CascadeInv, TypeOK, Hand, InHand
<1>2. Charged \in SUBSET Key /\ Charged' \in SUBSET Key
  BY DEF Charged
<1>3. Cardinality(Charged') + 1 <= attempts
  <2>1. CASE pc = "try" /\ ~retried
    <3>1. Charged' \subseteq Charged
      BY DEF Charged
    <3>2. Cardinality(Charged') <= Cardinality(Charged)
      BY <3>1, <1>2, SubsetFinite, FS_Subset
    <3> QED
      BY <2>1, <3>2, <1>2, SubsetFinite DEF CascadeInv, AttemptsCount, TypeOK
  <2>2. CASE pc = "calling"
    <3>1. key \in Charged
      BY <2>2, <1>1 DEF Charged, CascadeInv, CallsOfHand, Hand, InHand
    <3>2. Charged' \subseteq Charged \ {key}
      BY <1>1 DEF Charged
    <3>3. Cardinality(Charged \ {key}) = Cardinality(Charged) - 1
      BY <3>1, <1>2, SubsetFinite, FS_RemoveElement
    <3>4. Cardinality(Charged') <= Cardinality(Charged \ {key})
      BY <3>2, <1>2, SubsetFinite, FS_Subset
    <3> QED
      BY <2>2, <3>3, <3>4, <1>2, SubsetFinite
      DEF CascadeInv, AttemptsCount, TypeOK
  <2> QED
    BY <2>1, <2>2
<1>4. attempts - 1 \in Nat
  BY <1>2, <1>3, SubsetFinite DEF CascadeInv, TypeOK
<1>5. TypeOK'
  BY <1>1, <1>4 DEF CascadeInv, TypeOK, Pc
<1>6. (Hand /\ CallsOfHand)'
  BY DEF CascadeInv, TypeOK, Hand, CallsOfHand, InHand
<1>7. CallsBehind'
  BY DEF CascadeInv, TypeOK, CallsBehind, InHand
<1>8. (SetAsideFor /\ TiersBehind)'
  BY DEF CascadeInv, TypeOK, SetAsideFor, TiersBehind, Late
<1>9. AttemptsCount'
  BY <1>2, <1>3, CascadeAssumption, SubsetFinite
  DEF CascadeInv, TypeOK, AttemptsCount
<1>10. (RecordsCount /\ RefusalIsUnanimous /\ NoBlameWithoutCause)'
  BY DEF CascadeInv, TypeOK, Hand, RecordsCount, SkippedNotNegative,
     RefusalIsUnanimous, NoBlameWithoutCause, Late
<1>11. (TrailKept /\ AuditNamesFailure)'
  BY DEF CascadeInv, TypeOK, Hand, InHand, TrailKept, Pending, AuditNamesFailure
<1> QED
  BY <1>5, <1>6, <1>7, <1>8, <1>9, <1>10, <1>11 DEF CascadeInv

LEMMA CallInv == CascadeInv /\ Call => CascadeInv'
<1> SUFFICES ASSUME CascadeInv, Call PROVE CascadeInv'
  OBVIOUS
<1> USE DEF Call, Callable
<1>1. key \in Key
  BY DEF CascadeInv, TypeOK, Hand, InHand
<1>2. TypeOK'
  BY <1>1 DEF CascadeInv, TypeOK, Pc
<1>3. (Hand /\ CallsOfHand)'
  BY <1>1 DEF CascadeInv, TypeOK, Hand, CallsOfHand, InHand
<1>4. CallsBehind'
  BY <1>1 DEF CascadeInv, TypeOK, CallsBehind, InHand
<1>5. SetAsideFor'
  BY <1>1 DEF CascadeInv, TypeOK, SetAsideFor, Late
<1>6. TiersBehind'
  BY <1>1, CascadeAssumption DEF CascadeInv, TypeOK, TiersBehind, Hand, InHand
<1>7. AttemptsCount'
  <2>1. Charged \in SUBSET Key
    BY DEF Charged
  <2>2. CASE retried
    <3>1. Charged' = Charged
      BY <2>2, <1>1 DEF Charged, CascadeInv, TypeOK, CallsOfHand
    <3> QED
      BY <3>1, <2>2 DEF CascadeInv, TypeOK, AttemptsCount
  <2>3. CASE ~retried
    <3>1. Charged' = Charged \union {key}
      BY <2>3, <1>1 DEF Charged, CascadeInv, TypeOK, Hand, InHand
    <3>2. key \notin Charged
      BY <2>3, <1>1 DEF Charged, CascadeInv, TypeOK, CallsOfHand
    <3>3. Cardinality(Charged') = Cardinality(Charged) + 1
      BY <3>1, <3>2, <2>1, SubsetFinite, FS_AddElement
    <3> QED
      BY <3>3, <2>1, <2>3, SubsetFinite DEF CascadeInv, TypeOK, AttemptsCount
  <2> QED
    BY <2>2, <2>3
<1>8. (RecordsCount /\ RefusalIsUnanimous /\ NoBlameWithoutCause)'
  BY <1>1 DEF CascadeInv, TypeOK, Hand, RecordsCount, SkippedNotNegative,
     RefusalIsUnanimous, NoBlameWithoutCause, Late
<1>9. TrailKept'
  BY <1>1 DEF CascadeInv, TypeOK, TrailKept, Pending
<1>10. AuditNamesFailure'
  BY DEF CascadeInv, TrailKept, AuditNamesFailure
<1> QED
  BY <1>2, <1>3, <1>4, <1>5, <1>6, <1>7, <1>8, <1>9, <1>10 DEF CascadeInv

\* Neither the others nor time touch the search itself.
LEMMA EnvironmentInv == CascadeInv /\ (Others \/ Tick \/ UNCHANGED vars) => CascadeInv'
<1> SUFFICES ASSUME CascadeInv, Others \/ Tick \/ UNCHANGED vars PROVE CascadeInv'
  OBVIOUS
<1>1. UNCHANGED request
  BY DEF Others, Tick, vars
<1>2. /\ unavailable' \in SUBSET Key /\ barred' \in SUBSET Key
      /\ barred \subseteq barred' /\ unavailable' \subseteq barred'
      /\ left' \in Nat /\ (Late => Late')
  BY DEF Others, Tick, vars, CascadeInv, TypeOK, SetAsideFor, Late
<1>3. TypeOK'
  BY <1>1, <1>2 DEF CascadeInv, TypeOK, request
<1>4. (Hand /\ CallsOfHand /\ CallsBehind)'
  BY <1>1 DEF CascadeInv, Hand, CallsOfHand, CallsBehind, request
<1>5. (SetAsideFor /\ TiersBehind)'
  BY <1>1, <1>2 DEF CascadeInv, SetAsideFor, TiersBehind, request
<1>6. AttemptsCount'
  <2>1. Charged' = Charged
    BY <1>1 DEF Charged, request
  <2> QED
    BY <1>1, <2>1 DEF CascadeInv, AttemptsCount, request
<1>7. (RecordsCount /\ RefusalIsUnanimous /\ NoBlameWithoutCause)'
  BY <1>1, <1>2 DEF CascadeInv, RecordsCount, SkippedNotNegative,
     RefusalIsUnanimous, NoBlameWithoutCause, request
<1>8. (TrailKept /\ AuditNamesFailure)'
  BY <1>1 DEF CascadeInv, TrailKept, Pending, AuditNamesFailure, request
<1> QED
  BY <1>3, <1>4, <1>5, <1>6, <1>7, <1>8 DEF CascadeInv

LEMMA NextInv == CascadeInv /\ [Next]_vars => CascadeInv'
<1> SUFFICES ASSUME CascadeInv, [Next]_vars PROVE CascadeInv'
  OBVIOUS
<1>1. CASE Start \/ Stop \/ AdvanceTier \/ Wake \/ Answer
  BY <1>1, StartInv, StopInv, AdvanceInv, WakeInv, AnswerInv
<1>2. CASE \E k \in Key : Select(k) \/ Overflow(k)
  BY <1>2, SelectInv, OverflowInv
<1>3. CASE FailMisconfigured \/ FailUncalled \/ AnswerEmpty \/ CallFails \/ OverflowRetry
  BY <1>3, FailuresInv
<1>4. CASE RefuseLocally \/ RefuseRemotely
  BY <1>4, RefuseInv DEF RefuseLocally, RefuseRemotely
<1>5. CASE Call \/ CallFailsFirst \/ Retry \/ Log \/ Cancel
  BY <1>5, CallInv, FirstFailureInv, RetryInv, LogInv, CancelInv
<1>6. CASE Others \/ Tick \/ UNCHANGED vars
  BY <1>6, EnvironmentInv
<1> QED
  BY <1>1, <1>2, <1>3, <1>4, <1>5, <1>6 DEF Next, Step

THEOREM InvHolds == Spec => []CascadeInv
<1> QED
  BY InitInv, NextInv, PTL DEF Spec
-----------------------------------------------------------------------------
\* Every reachable state is well typed; the attempts given back for refusals
\* never outnumber those taken.
THEOREM TypeCorrect == Spec => []TypeOK
<1>1. CascadeInv => TypeOK
  BY DEF CascadeInv
<1> QED
  BY <1>1, InvHolds, PTL

\* At most MaxFallbacks + 1 keys are called and charged.
THEOREM AttemptsAreBounded == Spec => []FallbacksBounded
<1>1. CascadeInv => FallbacksBounded
  <2>1. Charged \in SUBSET Key
    BY DEF Charged
  <2> QED
    BY <2>1, SubsetFinite, CascadeAssumption
    DEF CascadeInv, TypeOK, AttemptsCount, FallbacksBounded
<1> QED
  BY <1>1, InvHolds, PTL

\* No tier is left while an eligible key of it could still be called.
THEOREM TiersAreStrict == Spec => []TiersInOrder
<1>1. CascadeInv => TiersInOrder
  <2> SUFFICES ASSUME CascadeInv, NEW k \in Key,
                      NEW j \in pool \ (Ineligible \union Misconfigured \union Paced),
                      called[k] > 0, TierOf[j] < TierOf[k]
               PROVE  called[j] > 0 \/ j \in barred \/ ProviderOf[j] \in refused
    BY DEF TiersInOrder
  <2>1. TierOf[j] \in Int /\ TierOf[k] \in Int /\ tier \in Int
    BY CascadeAssumption DEF CascadeInv, TypeOK
  <2>2. TierOf[k] <= tier /\ pc # "start"
    BY DEF CascadeInv, TiersBehind
  <2>3. TierOf[j] < tier
    BY <2>1, <2>2
  <2> QED
    BY <2>2, <2>3 DEF CascadeInv, TiersBehind
<1> QED
  BY <1>1, InvHolds, PTL

\* 422 exactly when every candidate's provider turned the query down.
THEOREM VerdictIsTruthful == Spec => []RefusalIsUnanimous
<1>1. CascadeInv => RefusalIsUnanimous
  BY DEF CascadeInv
<1> QED
  BY <1>1, InvHolds, PTL

\* No key is reported for a failure that is not its own.
THEOREM BlameHasCause == Spec => []NoBlameWithoutCause
<1>1. CascadeInv => NoBlameWithoutCause
  BY DEF CascadeInv
<1> QED
  BY <1>1, InvHolds, PTL

\* The audit row of a failed search names the provider of a key that was tried, if
\* any was, and only of such a key.
THEOREM AuditIsTruthful == Spec => []AuditNamesFailure
<1>1. CascadeInv => AuditNamesFailure
  BY DEF CascadeInv
<1> QED
  BY <1>1, InvHolds, PTL

\* The unsigned subtraction of the final log line cannot wrap.
THEOREM SkippedCountSafe == Spec => []SkippedNotNegative
<1>1. CascadeInv => SkippedNotNegative
  BY DEF CascadeInv, RecordsCount
<1> QED
  BY <1>1, InvHolds, PTL

LEMMA OnlyCallCalls ==
  ASSUME CascadeInv, [Next]_vars, NEW k \in Key, called'[k] # called[k]
  PROVE  Call
BY DEF Next, Step, Start, Stop, AdvanceTier, Select, Overflow, Wake,
   FailMisconfigured, RefuseLocally, FailUncalled, Answer, AnswerEmpty,
   RefuseRemotely, CallFails, CallFailsFirst, Retry, OverflowRetry, Fail, Refuse,
   Log, Cancel, Others, Tick, request, vars

\* Two calls per key at most, in a row, the second one a retry.
THEOREM KeysAreNotRevisited == Spec => NoKeyComesBack
<1> DEFINE Once == \A k \in Key : called'[k] > called[k] =>
                     k = key /\ called[k] = IF retried THEN 1 ELSE 0
<1>1. CascadeInv /\ [Next]_vars => Once
  <2> SUFFICES ASSUME CascadeInv, [Next]_vars, NEW k \in Key, called'[k] > called[k]
               PROVE  k = key /\ called[k] = IF retried THEN 1 ELSE 0
    OBVIOUS
  <2>1. called[k] \in Nat
    BY DEF CascadeInv, TypeOK
  <2>2. CASE called'[k] = called[k]
    BY <2>1, <2>2
  <2>3. CASE Call
    BY <2>3, <2>1 DEF Call, CascadeInv, TypeOK, CallsOfHand
  <2> QED
    BY <2>2, <2>3, OnlyCallCalls
<1>2. CascadeInv /\ [Next]_vars => [Once]_vars
  BY <1>1
<1> HIDE DEF Once
<1>3. Spec => [][Once]_vars
  BY <1>2, InvHolds, PTL DEF Spec
<1> QED
  BY <1>3 DEF NoKeyComesBack, Once

\* Once its provider turned the query down, a key is neither called nor blamed.
THEOREM RefusalsAreHarmless == Spec => RefusalHeldAgainstNoKey
<1> DEFINE Harmless == \A k \in Key : ProviderOf[k] \in refused' =>
                         called'[k] = called[k] /\ (k \in blamed' => k \in blamed)
<1>1. CascadeInv /\ [Next]_vars => Harmless
  <2> SUFFICES ASSUME CascadeInv, [Next]_vars, NEW k \in Key,
                      ProviderOf[k] \in refused'
               PROVE  called'[k] = called[k] /\ (k \in blamed' => k \in blamed)
    OBVIOUS
  <2>1. CASE Call
    BY <2>1 DEF Call, CascadeInv, TypeOK, Hand, InHand
  <2>2. CASE \E t \in {"error", "empty"} : Fail(t) /\ pc \in {"try", "calling", "backoff"}
    BY <2>2 DEF Fail, CascadeInv, TypeOK, Hand, InHand
  <2>3. CASE UNCHANGED <<called, blamed>>
    BY <2>3
  <2> QED
    BY <2>1, <2>2, <2>3
    DEF Next, Step, Start, Stop, AdvanceTier, Select, Overflow, Wake,
        FailMisconfigured, RefuseLocally, FailUncalled, Answer, AnswerEmpty,
        RefuseRemotely, CallFails, CallFailsFirst, Retry, OverflowRetry, Refuse,
        Log, Cancel, Others, Tick, request, vars
<1>2. CascadeInv /\ [Next]_vars => [Harmless]_vars
  BY <1>1
<1> HIDE DEF Harmless
<1>3. Spec => [][Harmless]_vars
  BY <1>2, InvHolds, PTL DEF Spec
<1> QED
  BY <1>3 DEF RefusalHeldAgainstNoKey, Harmless
-----------------------------------------------------------------------------
(* The search implements Fallback. *)

LEMMA SameCardinality == \A S : Rule!Cardinality(S) = Cardinality(S)
BY DEF Rule!Cardinality, Cardinality

\* What the refinement mapping sees of a step without a call or a refusal.
LEMMA QuietStep ==
  ASSUME UNCHANGED <<called, refused>>, Over => Over'
  PROVE  [Rule!Next]_(Rule!vars)
<1>1. Called' = Called /\ Charged' = Charged
  BY DEF Called, Charged
<1>2. CASE Over' = Over
  BY <1>1, <1>2 DEF Rule!vars
<1>3. CASE Over' # Over
  <2>1. Over = FALSE /\ Over' = TRUE
    BY <1>3 DEF Over
  <2> QED
    BY <1>1, <2>1 DEF Rule!Next, Rule!Finish
<1> QED
  BY <1>2, <1>3

\* The first call of a key is a try, which its attempt has paid for.
LEMMA FirstCallTries ==
  ASSUME CascadeInv, Call, ~retried
  PROVE  Rule!Next
<1>1. /\ key \in Key /\ called[key] = 0 /\ called \in [Key -> Nat]
      /\ ProviderOf[key] \notin refused /\ TierOf[key] = tier
  BY DEF Call, CascadeInv, TypeOK, Hand, CallsOfHand, InHand
<1>2. called' = [called EXCEPT ![key] = 1] /\ refused' = refused
  BY <1>1 DEF Call
<1>3. Called' = Called \union {key} /\ key \notin Called
  BY <1>1, <1>2 DEF Called
<1>4. Charged' = Charged \union {key}
  BY <1>1, <1>2 DEF Charged
<1>5. \A j \in Called : TierOf[j] <= TierOf[key]
  BY <1>1 DEF Called, CascadeInv, TiersBehind
<1>6. Cardinality(Charged) < MaxFallbacks + 1
  <2>1. Cardinality(Charged) + 1 <= attempts /\ attempts <= MaxFallbacks + 1
    BY DEF Call, CascadeInv, AttemptsCount
  <2>2. Cardinality(Charged) \in Nat /\ attempts \in Nat /\ MaxFallbacks \in Nat
    BY SubsetFinite, CascadeAssumption DEF Charged, CascadeInv, TypeOK
  <2> QED
    BY <2>1, <2>2
<1>7. ~Over /\ Over' = Over
  BY DEF Call, Over
<1> QED
  BY <1>1, <1>3, <1>4, <1>5, <1>6, <1>7, SameCardinality
  DEF Rule!Next, Rule!Try

\* The second call is no try.
LEMMA RetryIsNoTry ==
  ASSUME CascadeInv, Call, retried
  PROVE  UNCHANGED Rule!vars
<1>1. key \in Key /\ called[key] = 1 /\ called \in [Key -> Nat]
  BY DEF Call, CascadeInv, TypeOK, Hand, CallsOfHand, InHand
<1>2. called' = [called EXCEPT ![key] = 2] /\ refused' = refused
  BY <1>1 DEF Call
<1>3. Called' = Called /\ Charged' = Charged
  BY <1>1, <1>2 DEF Called, Charged
<1>4. Over' = Over
  BY DEF Call, Over
<1> QED
  BY <1>3, <1>4 DEF Rule!vars

\* A refusal gives back the tries of the provider's keys.
LEMMA RefusalForgives ==
  ASSUME CascadeInv, RefuseLocally \/ RefuseRemotely
  PROVE  Rule!Next
<1> DEFINE keys == {k \in Charged : ProviderOf[k] = ProviderOf[key]}
<1>1. called' = called /\ refused' = refused \union {ProviderOf[key]}
  BY DEF RefuseLocally, RefuseRemotely, Refuse
<1>2. Called' = Called /\ Charged' = Charged \ keys
  BY <1>1 DEF Called, Charged
<1>3. ~Over /\ Over' = Over
  BY DEF RefuseLocally, RefuseRemotely, Refuse, Over
<1>4. Rule!Forgive(keys)
  BY <1>2, <1>3 DEF Rule!Forgive
<1>5. keys \in SUBSET Charged
  OBVIOUS
<1> QED
  BY <1>4, <1>5 DEF Rule!Next

LEMMA StepsFollowRule == CascadeInv /\ [Next]_vars => [Rule!Next]_(Rule!vars)
<1> SUFFICES ASSUME CascadeInv, [Next]_vars PROVE [Rule!Next]_(Rule!vars)
  OBVIOUS
<1>1. CASE Call
  BY <1>1, FirstCallTries, RetryIsNoTry
<1>2. CASE RefuseLocally \/ RefuseRemotely
  BY <1>2, RefusalForgives
<1>3. CASE Start \/ Stop \/ AdvanceTier
  BY <1>3, QuietStep
  DEF Start, Stop, AdvanceTier, Choosing, Conclude, EndWithError, Over
<1>4. ASSUME NEW k \in Key, Select(k) \/ Overflow(k)
      PROVE  [Rule!Next]_(Rule!vars)
  BY <1>4, QuietStep DEF Select, Overflow, Choosing, Over
<1>5. CASE Wake \/ CallFailsFirst \/ Retry \/ Answer \/ Cancel
  BY <1>5, QuietStep DEF Wake, CallFailsFirst, Retry, Answer, Cancel, End, Over
<1>6. CASE FailMisconfigured \/ FailUncalled \/ AnswerEmpty \/ CallFails \/ OverflowRetry
  BY <1>6, QuietStep
  DEF FailMisconfigured, FailUncalled, AnswerEmpty, CallFails, OverflowRetry, Fail, Over
<1>7. CASE Log
  BY <1>7, QuietStep DEF Log, Over
<1>8. CASE Others \/ Tick \/ UNCHANGED vars
  BY <1>8, QuietStep DEF Others, Tick, request, vars, Over
<1> QED
  BY <1>1, <1>2, <1>3, <1>4, <1>5, <1>6, <1>7, <1>8 DEF Next, Step

\* Whatever the others do to the keys, a search tries them as Fallback does: each
\* once, tier after tier, and within its budget.
THEOREM Refinement == Spec => ImplementsFallback
<1>1. Init => Rule!Init
  BY DEF Init, Rule!Init, Called, Charged, Over
<1> QED
  BY <1>1, InvHolds, StepsFollowRule, PTL DEF Spec, ImplementsFallback, Rule!Spec
=============================================================================
