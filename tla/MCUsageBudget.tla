---------------------------- MODULE MCUsageBudget ----------------------------
(* Small instances of UsageBudget for TLC. *)
EXTENDS UsageBudget, TLC

CONSTANTS search, content, probe

\* A search retries once, a content request has two batches, a probe calls once.
MCCalls == [u \in User |-> IF u = probe THEN 1 ELSE 2]
=============================================================================
