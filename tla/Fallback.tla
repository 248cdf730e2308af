------------------------------- MODULE Fallback -------------------------------
(***************************************************************************)
(* What a request that falls back from key to key promises its caller,     *)
(* without waits, retries, batches or interference: each key is tried      *)
(* once, no tier is gone back to, and a bounded number of the keys tried   *)
(* is charged to the request.  The search executor and the content         *)
(* executor follow the same rule.                                          *)
(***************************************************************************)
EXTENDS Integers, FiniteSets

CONSTANTS Key, TierOf, MaxTries

VARIABLES tried, charged, over

vars == <<tried, charged, over>>

Init == tried = {} /\ charged = {} /\ over = FALSE

Try(k) ==
  /\ ~over
  /\ k \notin tried /\ \A j \in tried : TierOf[j] <= TierOf[k]
  /\ Cardinality(charged) < MaxTries
  /\ tried' = tried \union {k} /\ charged' = charged \union {k}
  /\ UNCHANGED over

\* The keys of a provider that turned the request down cost it nothing.
Forgive(keys) ==
  /\ ~over
  /\ charged' = charged \ keys
  /\ UNCHANGED <<tried, over>>

Finish ==
  /\ ~over /\ over' = TRUE
  /\ UNCHANGED <<tried, charged>>

Next ==
  \/ \E k \in Key : Try(k)
  \/ \E keys \in SUBSET charged : Forgive(keys)
  \/ Finish

Spec == Init /\ [][Next]_vars
=============================================================================
