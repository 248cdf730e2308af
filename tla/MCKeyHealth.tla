----------------------------- MODULE MCKeyHealth -----------------------------
(* Small instances of KeyHealth for TLC. *)
EXTENDS KeyHealth, TLC

CONSTANTS r1, r2, worker, admin

\* The code's durations in units of its shortest: only their order and which
\* of them tie is kept.
MCCooldownSecs ==
  [t \in ErrorType |->
     CASE t = "rps" -> 1 [] t \in {"rpm", "timeout"} -> 1
       [] t \in {"error", "rpd"} -> 2 [] t = "auth" -> 2 [] t = "billing" -> 3]

Symmetry == Permutations({r1, r2}) \union Permutations({worker, admin})
=============================================================================
