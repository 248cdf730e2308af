------------------------------- MODULE MCPacer -------------------------------
(* Small instances of Pacer for TLC. *)
EXTENDS Pacer, TLC

CONSTANTS r1, r2

\* A key before and after an edit of its limits.  The aux horizon and one
\* interval fit in either main horizon.
MCSetting == {[interval |-> 1, main |-> 2, aux |-> 1],
              [interval |-> 2, main |-> 2, aux |-> 0]}

MCSymmetry == Permutations(Request)
=============================================================================
