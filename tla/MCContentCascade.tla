--------------------------- MODULE MCContentCascade ---------------------------
(* Small instances of ContentCascade for TLC. *)
EXTENDS ContentCascade, TLC

CONSTANTS deepseek, you, nokey, other, u1, u2, u3

\* DeepSeek takes one URL a call; You.com needs two calls for all three.
MCMaxBatch == [k \in Key |-> IF k = deepseek THEN 1 ELSE 2]

MCTierOf == [k \in Key |-> IF k = deepseek THEN 1 ELSE 0]
=============================================================================
