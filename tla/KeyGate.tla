------------------------------- MODULE KeyGate -------------------------------
(***************************************************************************)
(* What RateLimitState promises of one key, without entries, generations   *)
(* or clocks.  A key is open, cooling (a deadline will open it) or parked  *)
(* (only a probe will).  At most one probe holds the claim on it; the      *)
(* claim is live until a failure of user traffic makes it stale.           *)
(***************************************************************************)
VARIABLES gate, claim

vars == <<gate, claim>>

Gates  == {"open", "cooling", "parked"}
Claims == {"none", "live", "stale"}

\* The gates at least as closed as g.
AtLeast(g) == CASE g = "open"    -> Gates
                [] g = "cooling" -> {"cooling", "parked"}
                [] g = "parked"  -> {"parked"}

Init == gate = "open" /\ claim = "none"

\* A failure closes the gate and overtakes the probe in flight.
Failure ==
  /\ gate' \in AtLeast(gate) \ {"open"}
  /\ claim' = IF claim = "live" THEN "stale" ELSE claim

Expire ==
  /\ gate = "cooling" /\ gate' = "open"
  /\ UNCHANGED claim

TakeClaim ==
  /\ claim = "none" /\ claim' = "live"
  /\ UNCHANGED gate

ProbeFailed ==
  /\ claim = "live" /\ claim' = "none"
  /\ gate' \in AtLeast(gate)

\* The verdict of an overtaken probe counts for nothing.
ProbeOvertaken ==
  /\ claim = "stale" /\ claim' = "none"
  /\ UNCHANGED gate

ProbeWorked ==
  /\ claim = "live" /\ claim' = "none"
  /\ gate' = "open"

Next ==
  \/ Failure \/ Expire
  \/ TakeClaim \/ ProbeFailed \/ ProbeOvertaken \/ ProbeWorked

Spec == Init /\ [][Next]_vars
=============================================================================
