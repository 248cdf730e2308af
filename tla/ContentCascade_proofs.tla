------------------------ MODULE ContentCascade_proofs ------------------------
(***************************************************************************)
(* What one content request guarantees, for any URLs, keys, batch sizes    *)
(* and tiers, and whatever the rest of the system does to the keys.        *)
(*                                                                         *)
(* The invariant says where each URL is (Whereabouts), what the key in     *)
(* hand was sent (Hand), whose failure each reason is (Reasons), what was  *)
(* reported (Verdicts), and what became of the attempts (AttemptsCount)    *)
(* and of the tiers left behind (TiersBehind).                             *)
(***************************************************************************)
EXTENDS ContentCascade, TLAPS, FiniteSetTheorems

InHand == pc \in {"send", "calling"}

\* A URL is resolved, or goes on, or is in the batch in hand.
Whereabouts ==
  /\ unresolved \subseteq urls /\ batch \subseteq urls
  /\ pc \in {"start", "select", "done"} => batch = {}
  /\ pc # "calling" => pc = "cancelled" \/ chunk = {}
  /\ \A u \in urls : u \in unresolved \/ u \in batch \/ source[u] # None
  /\ pc \in {"start", "select"} => \A u \in unresolved : source[u] = None

Hand ==
  /\ InHand => /\ key \in excluded \ Misconfigured /\ TierOf[key] = tier
               /\ \A u \in batch : source[u] \in {None, key}
               /\ \A u \in batch \ chunk : offered[key][u] = 0
  /\ pc = "calling" => chunk # {} /\ \A u \in chunk : offered[key][u] > 0
  /\ \A k \in Key \ excluded : \A u \in Url : offered[k][u] = 0
  /\ pc = "start" => excluded = {} /\ key = None

Reasons ==
  /\ pc \in {"select", "done"} =>
       \A u \in unresolved : /\ Tried # {} => reason[u] \in Tried
                             /\ key \in Tried => reason[u] = key
  /\ InHand => \A u \in unresolved : reason[u] = key

Verdicts ==
  /\ OneVerdictPerKey
  /\ InHand => key \notin praised \union blamed
  /\ \A u \in Url : source[u] # None =>
       \/ source[u] \in praised \union blamed
       \/ source[u] = key /\ gotAny /\ pc \in {"send", "calling", "cancelled"}

AttemptsCount ==
  /\ Cardinality(excluded) <= attempts
  /\ attempts <= MaxFallbacks + 1

TiersBehind ==
  /\ unavailable \subseteq barred
  /\ \A k \in excluded \ Misconfigured : k \in Tried \/ (pc = "send" /\ k = key)
  /\ \A k \in Tried : TierOf[k] <= tier
  /\ Tried # {} \/ InHand \/ pc = "select" =>
       \A j \in pool \ Misconfigured : TierOf[j] < tier => j \in Tried \/ j \in barred

ContentInv ==
  /\ TypeOK /\ Whereabouts /\ Hand /\ Reasons /\ Verdicts /\ AttemptsCount
  /\ TiersBehind
-----------------------------------------------------------------------------
LEMMA TriedIsExcluded ==
  ASSUME TypeOK, Hand
  PROVE  Tried \subseteq excluded
BY DEF TypeOK, Hand, Tried

LEMMA InitInv == Init => ContentInv
<1> SUFFICES ASSUME Init PROVE ContentInv
  OBVIOUS
<1> USE ContentAssumption DEF Init
<1>1. TypeOK
  <2>1. urls \in SUBSET Url /\ pool \in SUBSET Key /\ unavailable \in SUBSET Key
    OBVIOUS
  <2>2. source \in [Url -> Key \union {None}] /\ reason \in [Url -> Key \union {None}]
    OBVIOUS
  <2>3. offered \in [Key -> [Url -> Nat]]
    OBVIOUS
  <2>4. key \in Key \union {None}
    OBVIOUS
  <2>5. pc \in {"start", "select", "send", "calling", "done", "cancelled"} /\ tier \in Int
    OBVIOUS
  <2>6. excluded \in SUBSET Key /\ attempts \in Nat /\ gotAny \in BOOLEAN
    OBVIOUS
  <2>7. unresolved \in SUBSET Url /\ batch \in SUBSET Url /\ chunk \in SUBSET batch
    OBVIOUS
  <2>8. barred \in SUBSET Key /\ praised \in SUBSET Key /\ blamed \in SUBSET Key
    OBVIOUS
  <2> QED
    BY <2>1, <2>2, <2>3, <2>4, <2>5, <2>6, <2>7, <2>8 DEF TypeOK
<1>2. Tried = {}
  BY DEF Tried
<1>3. Whereabouts /\ Hand
  BY DEF Whereabouts, Hand, InHand
<1>4. Reasons /\ Verdicts /\ TiersBehind
  BY <1>2 DEF Reasons, Verdicts, OneVerdictPerKey, TiersBehind, InHand
<1>5. AttemptsCount
  BY FS_EmptySet DEF AttemptsCount
<1> QED
  BY <1>1, <1>3, <1>4, <1>5 DEF ContentInv

LEMMA StartInv ==
  ASSUME ContentInv, Start
  PROVE  ContentInv'
<1> USE ContentAssumption DEF ContentInv, outcome, Start, FirstOf, Tiers
<1>0. Tried' = Tried /\ Tried = {}
  BY DEF Tried, TypeOK, Hand
<1>1. TypeOK'
  <2>1. (/\ urls \in SUBSET Url /\ pool \in SUBSET Key /\ tier \in Int
         /\ key \in Key \union {None} /\ gotAny \in BOOLEAN
         /\ pc \in {"start", "select", "send", "calling", "done", "cancelled"})'
    BY DEF TypeOK
  <2>2. (/\ excluded \in SUBSET Key /\ attempts \in Nat
         /\ unavailable \in SUBSET Key /\ barred \in SUBSET Key
         /\ praised \in SUBSET Key /\ blamed \in SUBSET Key)'
    BY DEF TypeOK, Hand, InHand
  <2>3. (unresolved \in SUBSET Url /\ batch \in SUBSET Url /\ chunk \in SUBSET batch)'
    BY DEF TypeOK, Whereabouts
  <2>4. (source \in [Url -> Key \union {None}] /\ reason \in [Url -> Key \union {None}])'
    BY DEF TypeOK, Hand, InHand
  <2>5. (offered \in [Key -> [Url -> Nat]])'
    BY DEF TypeOK
  <2> QED
    BY <2>1, <2>2, <2>3, <2>4, <2>5 DEF TypeOK
<1>2. Whereabouts'
  BY DEF TypeOK, Whereabouts, Hand, InHand
<1>3. Hand'
  BY DEF TypeOK, Whereabouts, Hand, InHand
<1>4. Reasons'
  BY <1>0 DEF TypeOK, Whereabouts, Hand, InHand, Reasons
<1>5. Verdicts'
  BY <1>0 DEF TypeOK, Hand, InHand, Verdicts, OneVerdictPerKey
<1>6. AttemptsCount'
  BY DEF AttemptsCount
<1>7. TiersBehind'
  <2>1. pc' = "select" => \A j \in pool : tier' <= TierOf[j]
    BY DEF TypeOK
  <2>2. pc' \in {"select", "done"}
    OBVIOUS
  <2> QED
    BY <1>0, <1>1, <2>1, <2>2 DEF TypeOK, Hand, InHand, TiersBehind
<1> QED
  BY <1>1, <1>2, <1>3, <1>4, <1>5, <1>6, <1>7

LEMMA StopInv ==
  ASSUME ContentInv, Stop
  PROVE  ContentInv'
<1> USE ContentAssumption DEF ContentInv, outcome, Stop, Enough
<1>0. Tried' = Tried
  BY DEF Tried
<1>1. TypeOK'
  <2>1. (/\ urls \in SUBSET Url /\ pool \in SUBSET Key /\ tier \in Int
         /\ key \in Key \union {None} /\ gotAny \in BOOLEAN
         /\ pc \in {"start", "select", "send", "calling", "done", "cancelled"})'
    BY DEF TypeOK
  <2>2. (/\ excluded \in SUBSET Key /\ attempts \in Nat
         /\ unavailable \in SUBSET Key /\ barred \in SUBSET Key
         /\ praised \in SUBSET Key /\ blamed \in SUBSET Key)'
    BY DEF TypeOK, Hand, InHand
  <2>3. (unresolved \in SUBSET Url /\ batch \in SUBSET Url /\ chunk \in SUBSET batch)'
    BY DEF TypeOK, Whereabouts
  <2>4. (source \in [Url -> Key \union {None}] /\ reason \in [Url -> Key \union {None}])'
    BY DEF TypeOK, Hand, InHand
  <2>5. (offered \in [Key -> [Url -> Nat]])'
    BY DEF TypeOK
  <2> QED
    BY <2>1, <2>2, <2>3, <2>4, <2>5 DEF TypeOK
<1>2. Whereabouts'
  BY DEF TypeOK, Whereabouts, Hand, InHand
<1>3. Hand'
  BY DEF TypeOK, Whereabouts, Hand, InHand
<1>4. Reasons'
  BY <1>0 DEF TypeOK, Whereabouts, Hand, InHand, Reasons
<1>5. Verdicts'
  BY <1>0 DEF TypeOK, Hand, InHand, Verdicts, OneVerdictPerKey
<1>6. AttemptsCount'
  BY DEF AttemptsCount
<1>7. TiersBehind'
  BY <1>0 DEF TypeOK, Hand, InHand, TiersBehind
<1> QED
  BY <1>1, <1>2, <1>3, <1>4, <1>5, <1>6, <1>7

LEMMA AdvanceTierInv ==
  ASSUME ContentInv, AdvanceTier
  PROVE  ContentInv'
<1> USE ContentAssumption DEF ContentInv, outcome, AdvanceTier, Choosing, Enough, Eligible, FirstOf, Tiers
<1>0. Tried' = Tried
  BY DEF Tried
<1>1. TypeOK'
  <2>1. (/\ urls \in SUBSET Url /\ pool \in SUBSET Key /\ tier \in Int
         /\ key \in Key \union {None} /\ gotAny \in BOOLEAN
         /\ pc \in {"start", "select", "send", "calling", "done", "cancelled"})'
    BY DEF TypeOK
  <2>2. (/\ excluded \in SUBSET Key /\ attempts \in Nat
         /\ unavailable \in SUBSET Key /\ barred \in SUBSET Key
         /\ praised \in SUBSET Key /\ blamed \in SUBSET Key)'
    BY DEF TypeOK, Hand, InHand
  <2>3. (unresolved \in SUBSET Url /\ batch \in SUBSET Url /\ chunk \in SUBSET batch)'
    BY DEF TypeOK, Whereabouts
  <2>4. (source \in [Url -> Key \union {None}] /\ reason \in [Url -> Key \union {None}])'
    BY DEF TypeOK, Hand, InHand
  <2>5. (offered \in [Key -> [Url -> Nat]])'
    BY DEF TypeOK
  <2> QED
    BY <2>1, <2>2, <2>3, <2>4, <2>5 DEF TypeOK
<1>2. Whereabouts'
  BY DEF TypeOK, Whereabouts, Hand, InHand
<1>3. Hand'
  BY DEF TypeOK, Whereabouts, Hand, InHand
<1>4. Reasons'
  BY <1>0 DEF TypeOK, Whereabouts, Hand, InHand, Reasons
<1>5. Verdicts'
  BY <1>0 DEF TypeOK, Hand, InHand, Verdicts, OneVerdictPerKey
<1>6. AttemptsCount'
  BY DEF AttemptsCount
<1>7. TiersBehind'
  <2>1. \A j \in pool \ Misconfigured : TierOf[j] = tier => j \in Tried \/ j \in barred
    BY DEF TypeOK, TiersBehind
  <2>2. ASSUME NEW j \in pool, TierOf[j] < tier', TierOf[j] > tier PROVE FALSE
    <3>1. TierOf[j] \in {t \in {TierOf[k] : k \in pool} : t > tier}
      BY <2>2
    <3> QED
      BY <2>2, <3>1 DEF TypeOK
  <2>3. ASSUME NEW j \in pool \ Misconfigured, TierOf[j] < tier'
        PROVE  j \in Tried \/ j \in barred
    <3>1. TierOf[j] \in Int /\ tier \in Int /\ pc = "select"
      BY DEF TypeOK
    <3>2. TierOf[j] = tier \/ TierOf[j] < tier
      BY <2>2, <2>3, <3>1
    <3> QED
      BY <2>1, <3>1, <3>2 DEF TiersBehind
  <2>4. /\ tier <= tier' /\ ~InHand' /\ pc = "select"
        /\ \A k \in Tried : TierOf[k] \in Int
        /\ barred' = barred /\ unavailable' = unavailable /\ excluded' = excluded
        /\ pool' = pool /\ key' = key
    BY DEF TypeOK, InHand, Tried
  <2>5. \A k \in Tried : TierOf[k] <= tier'
    BY <1>1, <2>4 DEF TypeOK, TiersBehind
  <2> QED
    BY <1>0, <2>3, <2>4, <2>5 DEF TiersBehind
<1> QED
  BY <1>1, <1>2, <1>3, <1>4, <1>5, <1>6, <1>7

LEMMA SelectInv ==
  ASSUME NEW k \in Key, ContentInv, Select(k)
  PROVE  ContentInv'
<1> USE ContentAssumption DEF ContentInv, outcome, Select, Choosing, Enough, Eligible
<1>0. Tried' = Tried /\ k \notin Tried
  BY DEF Tried, TypeOK, Hand
<1>1. TypeOK'
  <2>1. (/\ urls \in SUBSET Url /\ pool \in SUBSET Key /\ tier \in Int
         /\ key \in Key \union {None} /\ gotAny \in BOOLEAN
         /\ pc \in {"start", "select", "send", "calling", "done", "cancelled"})'
    BY DEF TypeOK
  <2>2. (/\ excluded \in SUBSET Key /\ attempts \in Nat
         /\ unavailable \in SUBSET Key /\ barred \in SUBSET Key
         /\ praised \in SUBSET Key /\ blamed \in SUBSET Key)'
    BY DEF TypeOK, Hand, InHand
  <2>3. (unresolved \in SUBSET Url /\ batch \in SUBSET Url /\ chunk \in SUBSET batch)'
    BY DEF TypeOK, Whereabouts
  <2>4. (source \in [Url -> Key \union {None}] /\ reason \in [Url -> Key \union {None}])'
    BY DEF TypeOK, Hand, InHand
  <2>5. (offered \in [Key -> [Url -> Nat]])'
    BY DEF TypeOK
  <2> QED
    BY <2>1, <2>2, <2>3, <2>4, <2>5 DEF TypeOK
<1>2. Whereabouts'
  BY DEF TypeOK, Whereabouts, Hand, InHand
<1>3. Hand'
  BY DEF TypeOK, Whereabouts, Hand, InHand
<1>4. Reasons'
  BY <1>0 DEF TypeOK, Whereabouts, Hand, InHand, Reasons
<1>5. Verdicts'
  BY <1>0 DEF TypeOK, Hand, InHand, Verdicts, OneVerdictPerKey
<1>6. AttemptsCount'
  <2>1. IsFiniteSet(excluded) /\ Cardinality(excluded) \in Nat
    BY FS_Subset, FS_CardinalityType DEF TypeOK
  <2>2. Cardinality(excluded') = Cardinality(excluded) + 1
    BY <2>1, FS_AddElement DEF TypeOK
  <2> QED
    BY <2>1, <2>2 DEF AttemptsCount, TypeOK
<1>7. TiersBehind'
  BY <1>0 DEF TypeOK, Hand, InHand, TiersBehind
<1> QED
  BY <1>1, <1>2, <1>3, <1>4, <1>5, <1>6, <1>7

LEMMA SendInv ==
  ASSUME NEW c \in SUBSET Url, ContentInv, Send(c)
  PROVE  ContentInv'
<1> USE ContentAssumption DEF ContentInv, outcome, Send, IsChunk
<1>0. Tried' = Tried \union {key} /\ key \in Key
  BY DEF Tried, TypeOK, Hand, InHand
<1>1. TypeOK'
  <2>1. (/\ urls \in SUBSET Url /\ pool \in SUBSET Key /\ tier \in Int
         /\ key \in Key \union {None} /\ gotAny \in BOOLEAN
         /\ pc \in {"start", "select", "send", "calling", "done", "cancelled"})'
    BY DEF TypeOK
  <2>2. (/\ excluded \in SUBSET Key /\ attempts \in Nat
         /\ unavailable \in SUBSET Key /\ barred \in SUBSET Key
         /\ praised \in SUBSET Key /\ blamed \in SUBSET Key)'
    BY DEF TypeOK, Hand, InHand
  <2>3. (unresolved \in SUBSET Url /\ batch \in SUBSET Url /\ chunk \in SUBSET batch)'
    BY DEF TypeOK, Whereabouts
  <2>4. (source \in [Url -> Key \union {None}] /\ reason \in [Url -> Key \union {None}])'
    BY DEF TypeOK, Hand, InHand
  <2>5. (offered \in [Key -> [Url -> Nat]])'
    <3>1. key \in Key /\ offered[key] \in [Url -> Nat]
      BY DEF TypeOK, Hand, InHand
    <3>2. [u \in Url |-> offered[key][u] + IF u \in c THEN 1 ELSE 0] \in [Url -> Nat]
      BY <3>1
    <3> QED
      BY <3>2 DEF TypeOK
  <2> QED
    BY <2>1, <2>2, <2>3, <2>4, <2>5 DEF TypeOK
<1>2. Whereabouts'
  BY DEF TypeOK, Whereabouts, Hand, InHand
<1>3. Hand'
  BY DEF TypeOK, Whereabouts, Hand, InHand
<1>4. Reasons'
  BY <1>0 DEF TypeOK, Whereabouts, Hand, InHand, Reasons
<1>5. Verdicts'
  BY <1>0 DEF TypeOK, Hand, InHand, Verdicts, OneVerdictPerKey
<1>6. AttemptsCount'
  BY DEF AttemptsCount
<1>7. TiersBehind'
  BY <1>0 DEF TypeOK, Hand, InHand, TiersBehind
<1> QED
  BY <1>1, <1>2, <1>3, <1>4, <1>5, <1>6, <1>7

LEMMA AnswerInv ==
  ASSUME NEW docs \in SUBSET (Url \union {Elsewhere}), ContentInv, Answer(docs)
  PROVE  ContentInv'
<1> USE ContentAssumption DEF ContentInv, outcome, Answer, Pages, Missing, Remaining, Praise
<1>0. Tried' = Tried /\ key \in Tried
  BY DEF Tried, TypeOK, Hand, InHand
<1>1. TypeOK'
  <2>1. (/\ urls \in SUBSET Url /\ pool \in SUBSET Key /\ tier \in Int
         /\ key \in Key \union {None} /\ gotAny \in BOOLEAN
         /\ pc \in {"start", "select", "send", "calling", "done", "cancelled"})'
    BY DEF TypeOK
  <2>2. (/\ excluded \in SUBSET Key /\ attempts \in Nat
         /\ unavailable \in SUBSET Key /\ barred \in SUBSET Key
         /\ praised \in SUBSET Key /\ blamed \in SUBSET Key)'
    BY DEF TypeOK, Hand, InHand
  <2>3. (unresolved \in SUBSET Url /\ batch \in SUBSET Url /\ chunk \in SUBSET batch)'
    BY DEF TypeOK, Whereabouts
  <2>4. (source \in [Url -> Key \union {None}] /\ reason \in [Url -> Key \union {None}])'
    BY DEF TypeOK, Hand, InHand
  <2>5. (offered \in [Key -> [Url -> Nat]])'
    BY DEF TypeOK
  <2> QED
    BY <2>1, <2>2, <2>3, <2>4, <2>5 DEF TypeOK
<1>2. Whereabouts'
  BY DEF TypeOK, Whereabouts, Hand, InHand
<1>3. Hand'
  BY DEF TypeOK, Whereabouts, Hand, InHand
<1>4. Reasons'
  BY <1>0 DEF TypeOK, Whereabouts, Hand, InHand, Reasons
<1>5. Verdicts'
  <2>1. /\ praised' = IF gotAny' /\ batch' = {} THEN praised \union {key} ELSE praised
        /\ blamed' = blamed /\ key' = key
        /\ pc' = IF batch' = {} THEN "select" ELSE "send"
    OBVIOUS
  <2>2. (OneVerdictPerKey /\ (InHand => key \notin praised \union blamed))'
    BY <1>0, <2>1 DEF InHand, Verdicts, OneVerdictPerKey
  <2>3. ASSUME NEW u \in Url, source'[u] # None
        PROVE  \/ source'[u] \in praised' \union blamed'
               \/ source'[u] = key' /\ gotAny' /\ pc' = "send"
    <3>1. CASE u \in docs
      <4>1. source'[u] = key /\ gotAny'
        BY <3>1 DEF TypeOK
      <4> QED
        BY <2>1, <4>1
    <3>2. CASE u \notin docs
      <4>1. source'[u] = source[u] /\ (gotAny => gotAny')
        BY <3>2 DEF TypeOK
      <4>2. source[u] \in praised \union blamed \/ (source[u] = key /\ gotAny)
        BY <2>3, <4>1 DEF Verdicts
      <4> QED
        BY <2>1, <4>1, <4>2
    <3> QED
      BY <3>1, <3>2
  <2> QED
    BY <2>2, <2>3 DEF Verdicts
<1>6. AttemptsCount'
  BY DEF AttemptsCount
<1>7. TiersBehind'
  BY <1>0 DEF TypeOK, Hand, InHand, TiersBehind
<1> QED
  BY <1>1, <1>2, <1>3, <1>4, <1>5, <1>6, <1>7

LEMMA FailInv ==
  ASSUME ContentInv, Fail
  PROVE  ContentInv'
<1> USE ContentAssumption DEF ContentInv, outcome, Fail, Remaining
<1>0. Tried' = Tried /\ key \in Tried
  BY DEF Tried, TypeOK, Hand, InHand
<1>1. TypeOK'
  <2>1. (/\ urls \in SUBSET Url /\ pool \in SUBSET Key /\ tier \in Int
         /\ key \in Key \union {None} /\ gotAny \in BOOLEAN
         /\ pc \in {"start", "select", "send", "calling", "done", "cancelled"})'
    BY DEF TypeOK
  <2>2. (/\ excluded \in SUBSET Key /\ attempts \in Nat
         /\ unavailable \in SUBSET Key /\ barred \in SUBSET Key
         /\ praised \in SUBSET Key /\ blamed \in SUBSET Key)'
    BY DEF TypeOK, Hand, InHand
  <2>3. (unresolved \in SUBSET Url /\ batch \in SUBSET Url /\ chunk \in SUBSET batch)'
    BY DEF TypeOK, Whereabouts
  <2>4. (source \in [Url -> Key \union {None}] /\ reason \in [Url -> Key \union {None}])'
    BY DEF TypeOK, Hand, InHand
  <2>5. (offered \in [Key -> [Url -> Nat]])'
    BY DEF TypeOK
  <2> QED
    BY <2>1, <2>2, <2>3, <2>4, <2>5 DEF TypeOK
<1>2. Whereabouts'
  BY DEF TypeOK, Whereabouts, Hand, InHand
<1>3. Hand'
  BY DEF TypeOK, Whereabouts, Hand, InHand
<1>4. Reasons'
  BY <1>0 DEF TypeOK, Whereabouts, Hand, InHand, Reasons
<1>5. Verdicts'
  BY <1>0 DEF TypeOK, Hand, InHand, Verdicts, OneVerdictPerKey
<1>6. AttemptsCount'
  BY DEF AttemptsCount
<1>7. TiersBehind'
  BY <1>0 DEF TypeOK, Hand, InHand, TiersBehind
<1> QED
  BY <1>1, <1>2, <1>3, <1>4, <1>5, <1>6, <1>7

LEMMA CancelInv ==
  ASSUME ContentInv, Cancel
  PROVE  ContentInv'
<1> USE ContentAssumption DEF ContentInv, outcome, Cancel
<1>0. Tried' = Tried
  BY DEF Tried
<1>1. TypeOK'
  <2>1. (/\ urls \in SUBSET Url /\ pool \in SUBSET Key /\ tier \in Int
         /\ key \in Key \union {None} /\ gotAny \in BOOLEAN
         /\ pc \in {"start", "select", "send", "calling", "done", "cancelled"})'
    BY DEF TypeOK
  <2>2. (/\ excluded \in SUBSET Key /\ attempts \in Nat
         /\ unavailable \in SUBSET Key /\ barred \in SUBSET Key
         /\ praised \in SUBSET Key /\ blamed \in SUBSET Key)'
    BY DEF TypeOK, Hand, InHand
  <2>3. (unresolved \in SUBSET Url /\ batch \in SUBSET Url /\ chunk \in SUBSET batch)'
    BY DEF TypeOK, Whereabouts
  <2>4. (source \in [Url -> Key \union {None}] /\ reason \in [Url -> Key \union {None}])'
    BY DEF TypeOK, Hand, InHand
  <2>5. (offered \in [Key -> [Url -> Nat]])'
    BY DEF TypeOK
  <2> QED
    BY <2>1, <2>2, <2>3, <2>4, <2>5 DEF TypeOK
<1>2. Whereabouts'
  BY DEF TypeOK, Whereabouts, Hand, InHand
<1>3. Hand'
  BY DEF TypeOK, Whereabouts, Hand, InHand
<1>4. Reasons'
  BY <1>0 DEF TypeOK, Whereabouts, Hand, InHand, Reasons
<1>5. Verdicts'
  BY <1>0 DEF TypeOK, Hand, InHand, Verdicts, OneVerdictPerKey
<1>6. AttemptsCount'
  BY DEF AttemptsCount
<1>7. TiersBehind'
  BY <1>0 DEF TypeOK, Hand, InHand, TiersBehind
<1> QED
  BY <1>1, <1>2, <1>3, <1>4, <1>5, <1>6, <1>7

LEMMA OthersInv ==
  ASSUME ContentInv, Others
  PROVE  ContentInv'
<1> USE ContentAssumption DEF ContentInv, outcome, Others
<1>0. Tried' = Tried
  BY DEF Tried
<1>1. TypeOK'
  <2>1. (/\ urls \in SUBSET Url /\ pool \in SUBSET Key /\ tier \in Int
         /\ key \in Key \union {None} /\ gotAny \in BOOLEAN
         /\ pc \in {"start", "select", "send", "calling", "done", "cancelled"})'
    BY DEF TypeOK
  <2>2. (/\ excluded \in SUBSET Key /\ attempts \in Nat
         /\ unavailable \in SUBSET Key /\ barred \in SUBSET Key
         /\ praised \in SUBSET Key /\ blamed \in SUBSET Key)'
    BY DEF TypeOK, Hand, InHand
  <2>3. (unresolved \in SUBSET Url /\ batch \in SUBSET Url /\ chunk \in SUBSET batch)'
    BY DEF TypeOK, Whereabouts
  <2>4. (source \in [Url -> Key \union {None}] /\ reason \in [Url -> Key \union {None}])'
    BY DEF TypeOK, Hand, InHand
  <2>5. (offered \in [Key -> [Url -> Nat]])'
    BY DEF TypeOK
  <2> QED
    BY <2>1, <2>2, <2>3, <2>4, <2>5 DEF TypeOK
<1>2. Whereabouts'
  BY DEF TypeOK, Whereabouts, Hand, InHand
<1>3. Hand'
  BY DEF TypeOK, Whereabouts, Hand, InHand
<1>4. Reasons'
  BY <1>0 DEF TypeOK, Whereabouts, Hand, InHand, Reasons
<1>5. Verdicts'
  BY <1>0 DEF TypeOK, Hand, InHand, Verdicts, OneVerdictPerKey
<1>6. AttemptsCount'
  BY DEF AttemptsCount
<1>7. TiersBehind'
  BY <1>0 DEF TypeOK, Hand, InHand, TiersBehind
<1> QED
  BY <1>1, <1>2, <1>3, <1>4, <1>5, <1>6, <1>7

LEMMA StutterInv ==
  ASSUME ContentInv, UNCHANGED vars
  PROVE  ContentInv'
<1> USE ContentAssumption DEF ContentInv, outcome, vars
<1>0. Tried' = Tried
  BY DEF Tried
<1>1. TypeOK'
  <2>1. (/\ urls \in SUBSET Url /\ pool \in SUBSET Key /\ tier \in Int
         /\ key \in Key \union {None} /\ gotAny \in BOOLEAN
         /\ pc \in {"start", "select", "send", "calling", "done", "cancelled"})'
    BY DEF TypeOK
  <2>2. (/\ excluded \in SUBSET Key /\ attempts \in Nat
         /\ unavailable \in SUBSET Key /\ barred \in SUBSET Key
         /\ praised \in SUBSET Key /\ blamed \in SUBSET Key)'
    BY DEF TypeOK, Hand, InHand
  <2>3. (unresolved \in SUBSET Url /\ batch \in SUBSET Url /\ chunk \in SUBSET batch)'
    BY DEF TypeOK, Whereabouts
  <2>4. (source \in [Url -> Key \union {None}] /\ reason \in [Url -> Key \union {None}])'
    BY DEF TypeOK, Hand, InHand
  <2>5. (offered \in [Key -> [Url -> Nat]])'
    BY DEF TypeOK
  <2> QED
    BY <2>1, <2>2, <2>3, <2>4, <2>5 DEF TypeOK
<1>2. Whereabouts'
  BY DEF TypeOK, Whereabouts, Hand, InHand
<1>3. Hand'
  BY DEF TypeOK, Whereabouts, Hand, InHand
<1>4. Reasons'
  BY <1>0 DEF TypeOK, Whereabouts, Hand, InHand, Reasons
<1>5. Verdicts'
  BY <1>0 DEF TypeOK, Hand, InHand, Verdicts, OneVerdictPerKey
<1>6. AttemptsCount'
  BY DEF AttemptsCount
<1>7. TiersBehind'
  BY <1>0 DEF TypeOK, Hand, InHand, TiersBehind
<1> QED
  BY <1>1, <1>2, <1>3, <1>4, <1>5, <1>6, <1>7
-----------------------------------------------------------------------------
\* Whatever the adapter, an answer brings pages under the addresses of URLs, or
\* under one that was not asked for.
LEMMA AddressesKnown ==
  ContentInv => \A docs \in Returned : docs \in SUBSET (Url \union {Elsewhere})
<1> SUFFICES ASSUME ContentInv, NEW docs \in Returned
             PROVE  docs \in SUBSET (Url \union {Elsewhere})
  OBVIOUS
<1>1. urls \subseteq Url /\ chunk \subseteq Url
  BY DEF ContentInv, TypeOK
<1> QED
  BY <1>1 DEF Returned, OnePage, AnyPages

LEMMA NextInv == ContentInv /\ [Next]_vars => ContentInv'
<1> SUFFICES ASSUME ContentInv, [Next]_vars PROVE ContentInv'
  OBVIOUS
<1>1. CASE \E docs \in Returned : Answer(docs)
  BY <1>1, AddressesKnown, AnswerInv
<1>2. CASE Step /\ ~\E docs \in Returned : Answer(docs)
  BY <1>2, StartInv, StopInv, AdvanceTierInv, SelectInv, SendInv, FailInv
  DEF Step
<1> QED
  BY <1>1, <1>2, CancelInv, OthersInv, StutterInv DEF Next

LEMMA Invariance == Spec => []ContentInv
BY InitInv, NextInv, PTL DEF Spec

\* Every variable keeps its range.
THEOREM TypeCorrect == Spec => []TypeOK
<1>1. ContentInv => TypeOK
  BY DEF ContentInv
<1> QED
  BY Invariance, <1>1, PTL

\* Between two keys and in the end each URL is resolved or goes on.
THEOREM EachUrlAccountedFor == Spec => []NoUrlForgotten
<1>1. ContentInv => NoUrlForgotten
  BY DEF ContentInv, TypeOK, Whereabouts, NoUrlForgotten, Resolved
<1> QED
  BY Invariance, <1>1, PTL

\* No URL goes to a key twice, or to one key after another had its page.
THEOREM UrlsArePaidOnce == Spec => NoUrlPaidTwice
<1>1. ASSUME ContentInv, Next
      PROVE  \A k \in Key, u \in Url :
               offered'[k][u] > offered[k][u] =>
                 offered[k][u] = 0 /\ source[u] \in {None, k}
  <2>1. ASSUME NEW c \in SUBSET Url, Send(c)
        PROVE  \A k \in Key, u \in Url :
                 offered'[k][u] > offered[k][u] =>
                   k = key /\ u \in batch
    BY <1>1, <2>1 DEF ContentInv, TypeOK, Send, IsChunk
  <2>2. CASE \E c \in SUBSET Url : Send(c)
    BY <1>1, <2>1, <2>2 DEF ContentInv, TypeOK, Whereabouts, Hand, InHand, Send
  <2>3. CASE offered' = offered
    BY <1>1, <2>3 DEF ContentInv, TypeOK
  <2> QED
    BY <1>1, <2>2, <2>3
    DEF Next, Step, Start, Stop, AdvanceTier, Select, Answer, Fail, Cancel, Others,
        outcome
<1>2. ContentInv /\ [Next]_vars
      => [\A k \in Key, u \in Url :
            offered'[k][u] > offered[k][u] =>
              offered[k][u] = 0 /\ source[u] \in {None, k}]_vars
  BY <1>1
<1> QED
  BY Invariance, <1>2, PTL DEF Spec, NoUrlPaidTwice

\* No failure takes a page back.
THEOREM PagesAreKept == Spec => PagesKept
<1>1. ASSUME ContentInv, Next
      PROVE  \A u \in Url : source[u] # None => source'[u] # None
  <2>1. ASSUME NEW docs \in Returned, Answer(docs)
        PROVE  \A u \in Url : source[u] # None => source'[u] # None
    BY <1>1, <2>1, ContentAssumption
    DEF ContentInv, TypeOK, Hand, InHand, Answer, Pages
  <2> QED
    BY <1>1, <2>1
    DEF Next, Step, Start, Stop, AdvanceTier, Select, Send, Fail, Cancel, Others
<1>2. ContentInv /\ [Next]_vars
      => [\A u \in Url : source[u] # None => source'[u] # None]_vars
  BY <1>1
<1> QED
  BY Invariance, <1>2, PTL DEF Spec, PagesKept

\* At most MaxFallbacks + 1 keys are sent anything.
THEOREM AttemptsAreBounded == Spec => []FallbacksBounded
<1>1. ContentInv => FallbacksBounded
  <2> SUFFICES ASSUME ContentInv PROVE FallbacksBounded
    OBVIOUS
  <2>1. IsFiniteSet(excluded) /\ Cardinality(excluded) \in Nat
    BY ContentAssumption, FS_Subset, FS_CardinalityType DEF ContentInv, TypeOK
  <2>2. Tried \subseteq excluded
    BY TriedIsExcluded DEF ContentInv
  <2>3. Cardinality(Tried) \in Nat /\ Cardinality(Tried) <= Cardinality(excluded)
    BY <2>1, <2>2, FS_Subset, FS_CardinalityType
  <2> QED
    BY <2>1, <2>3, ContentAssumption
    DEF ContentInv, TypeOK, AttemptsCount, FallbacksBounded
<1> QED
  BY Invariance, <1>1, PTL

\* A page comes from a key that was reported, an error names the last key tried.
THEOREM DocumentsAreExplained == Spec => []DocumentsExplained
<1>1. ContentInv => DocumentsExplained
  <2> SUFFICES ASSUME ContentInv, pc \in {"select", "done"}, NEW u \in urls
               PROVE  IF u \in Resolved
                      THEN source[u] \in praised \union blamed
                      ELSE /\ Tried # {} => reason[u] \in Tried
                           /\ key \in Tried => reason[u] = key
    BY DEF DocumentsExplained, Documents
  <2>1. u \in Url /\ (u \notin Resolved => u \in unresolved)
    BY DEF ContentInv, TypeOK, Whereabouts, Resolved
  <2> QED
    BY <2>1 DEF ContentInv, Reasons, Verdicts, Resolved
<1> QED
  BY Invariance, <1>1, PTL

\* A key gets one verdict, after it was called.
THEOREM VerdictsAreConsistent == Spec => []OneVerdictPerKey
<1>1. ContentInv => OneVerdictPerKey
  BY DEF ContentInv, Verdicts
<1> QED
  BY Invariance, <1>1, PTL

\* Tiers are tried in order.
THEOREM TiersAreStrict == Spec => []TiersInOrder
<1>1. ContentInv => TiersInOrder
  <2> SUFFICES ASSUME ContentInv,
                      NEW k \in Tried, NEW j \in pool \ Misconfigured,
                      TierOf[j] < TierOf[k]
               PROVE  j \in Tried \/ j \in barred
    BY DEF TiersInOrder
  <2>1. Tried # {}
    OBVIOUS
  <2>2. TierOf[j] < tier
    BY ContentAssumption DEF ContentInv, TypeOK, TiersBehind, Tried
  <2> QED
    BY <2>1, <2>2 DEF ContentInv, TiersBehind
<1> QED
  BY Invariance, <1>1, PTL
-----------------------------------------------------------------------------
(* The request implements Fallback. *)

LEMMA SameCardinality == \A S : Rule!Cardinality(S) = Cardinality(S)
BY DEF Rule!Cardinality, Cardinality

\* What the refinement mapping sees of a step that sends nothing.
LEMMA QuietStep ==
  ASSUME UNCHANGED offered, Over => Over'
  PROVE  [Rule!Next]_(Rule!vars)
<1>1. Tried' = Tried
  BY DEF Tried
<1>2. CASE Over' = Over
  BY <1>1, <1>2 DEF Rule!vars
<1>3. CASE Over' # Over
  <2>1. Over = FALSE /\ Over' = TRUE
    BY <1>3 DEF Over
  <2> QED
    BY <1>1, <2>1 DEF Rule!Next, Rule!Finish
<1> QED
  BY <1>2, <1>3

\* The first chunk a key is sent is its try, the others are none.
LEMMA SendFollowsRule ==
  ASSUME ContentInv, NEW c \in SUBSET Url, Send(c)
  PROVE  [Rule!Next]_(Rule!vars)
<1>1. /\ key \in Key /\ key \in excluded /\ TierOf[key] = tier
      /\ offered \in [Key -> [Url -> Nat]]
  BY DEF Send, ContentInv, TypeOK, Hand, InHand
<1>2. c # {} /\ offered' = [offered EXCEPT ![key] =
                              [u \in Url |-> offered[key][u] + IF u \in c THEN 1 ELSE 0]]
  BY DEF Send, IsChunk
<1>3. Tried' = Tried \union {key}
  <2>1. \A k \in Key \ {key} : offered'[k] = offered[k]
    BY <1>1, <1>2
  <2>2. \A u \in Url : offered'[key][u] >= offered[key][u]
    BY <1>1, <1>2
  <2>3. \E u \in Url : offered'[key][u] > 0
    <3>1. PICK u \in c : TRUE
      BY <1>2
    <3>2. offered'[key][u] = offered[key][u] + 1 /\ offered[key][u] \in Nat
      BY <1>1, <1>2, <3>1
    <3> QED
      BY <3>1, <3>2
  <2> QED
    BY <1>1, <2>1, <2>3 DEF Tried
<1>4. ~Over /\ Over' = Over
  BY DEF Send, Over
<1>5. CASE key \in Tried
  BY <1>3, <1>4, <1>5 DEF Rule!vars
<1>6. CASE key \notin Tried
  <2>1. \A j \in Tried : TierOf[j] <= TierOf[key]
    BY <1>1 DEF ContentInv, TiersBehind
  <2>2. Cardinality(Tried) < MaxFallbacks + 1
    <3>1. /\ IsFiniteSet(excluded) /\ Cardinality(excluded) \in Nat
          /\ IsFiniteSet(Tried \union {key})
      BY <1>1, ContentAssumption, FS_Subset, FS_CardinalityType
      DEF ContentInv, TypeOK, Tried
    <3>2. Tried \union {key} \subseteq excluded /\ IsFiniteSet(Tried)
      BY <1>1, <3>1, TriedIsExcluded, FS_Subset DEF ContentInv
    <3>3. Cardinality(Tried \union {key}) = Cardinality(Tried) + 1
      BY <1>6, <3>2, FS_AddElement
    <3>4. Cardinality(Tried \union {key}) <= Cardinality(excluded)
      BY <3>1, <3>2, FS_Subset
    <3>5. Cardinality(Tried) \in Nat
      BY <3>2, FS_CardinalityType
    <3> QED
      BY <3>1, <3>3, <3>4, <3>5, ContentAssumption
      DEF ContentInv, TypeOK, AttemptsCount
  <2> QED
    BY <1>1, <1>3, <1>4, <1>6, <2>1, <2>2, SameCardinality
    DEF Rule!Next, Rule!Try
<1> QED
  BY <1>5, <1>6

LEMMA StepsFollowRule == ContentInv /\ [Next]_vars => [Rule!Next]_(Rule!vars)
<1> SUFFICES ASSUME ContentInv, [Next]_vars PROVE [Rule!Next]_(Rule!vars)
  OBVIOUS
<1> USE DEF outcome
<1>1. ASSUME NEW c \in SUBSET Url, Send(c)
      PROVE  [Rule!Next]_(Rule!vars)
  BY <1>1, SendFollowsRule
<1>2. CASE Start \/ Stop \/ AdvanceTier
  BY <1>2, QuietStep DEF Start, Stop, AdvanceTier, Choosing, Over
<1>3. ASSUME NEW k \in Key, Select(k)
      PROVE  [Rule!Next]_(Rule!vars)
  BY <1>3, QuietStep DEF Select, Choosing, Over
<1>4. ASSUME NEW docs \in Returned, Answer(docs)
      PROVE  [Rule!Next]_(Rule!vars)
  BY <1>4, QuietStep DEF Answer, Over
<1>5. CASE Fail \/ Cancel
  BY <1>5, QuietStep DEF Fail, Cancel, Over
<1>6. CASE Others \/ UNCHANGED vars
  BY <1>6, QuietStep DEF Others, vars, Over
<1> QED
  BY <1>1, <1>2, <1>3, <1>4, <1>5, <1>6 DEF Next, Step

\* The keys of a request are tried as those of a search: each once, tier after
\* tier, and within its budget.
THEOREM Refinement == Spec => ImplementsFallback
<1>1. Init => Rule!Init
  BY DEF Init, Rule!Init, Tried, Over
<1> QED
  BY <1>1, Invariance, StepsFollowRule, PTL DEF Spec, ImplementsFallback, Rule!Spec
=============================================================================
