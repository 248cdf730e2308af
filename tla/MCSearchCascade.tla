--------------------------- MODULE MCSearchCascade ---------------------------
(* Small instances of SearchCascade for TLC. *)
EXTENDS SearchCascade, TLC

CONSTANTS a1, a2, b1, c2, a, b, c

\* Provider a has a key in each of two tiers, b one in the first and c one in
\* the second.
MCProviderOf == [k \in Key |-> CASE k \in {a1, a2} -> a [] k = b1 -> b [] k = c2 -> c]
MCTierOf     == [k \in Key |-> IF k \in {a1, b1} THEN 1 ELSE 2]
=============================================================================
