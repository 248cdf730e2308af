-------------------------- MODULE KeyHealth_proofs --------------------------
(***************************************************************************)
(* Proofs about KeyHealth, for every set of callers and probers, every     *)
(* configuration of the durations and every number of adverse events.      *)
(***************************************************************************)
EXTENDS KeyHealth, TLAPS

\* A failed probe always buys at least one tick: the backoff table and both
\* caps are positive, whatever the number of failures.
LEMMA ProbeDelayPositive ==
  ASSUME NEW n \in Positive, NEW reason
  PROVE  ProbeDelay(n, reason) \in Positive
<1>1. Smaller(n, 21) \in 1..21
  BY DEF Smaller, Positive
<1>2. \A k \in 1..21 : Shift[k] \in Positive
  BY SMT DEF Shift, Positive
<1>3. PICK s \in Positive : s = Shift[Smaller(n, 21)]
  BY <1>1, <1>2
<1>4. Backoff * s \in Positive
  BY <1>3, ConfigAssumption DEF Positive
<1>5. QED
  BY <1>3, <1>4, ConfigAssumption DEF ProbeDelay, Smaller, Positive

\* Struck yields a well-formed entry, limited at once, whose deadline and
\* gate are at least those of the entry before.
LEMMA StruckFacts ==
  ASSUME NEW e \in Cooldown, NEW t \in ErrorType, NEW secs \in Positive
  PROVE  /\ Struck(e, t, secs) \in Cooldown
         /\ Struck(e, t, secs).left >= e.left
         /\ Struck(e, t, secs).left > 0
         /\ Struck(e, t, secs).generation = e.generation + 1
         /\ Struck(e, t, secs).probing = e.probing
         /\ Struck(e, t, secs).probe_generation = e.probe_generation
         /\ e.requires_probe => Struck(e, t, secs).requires_probe
         /\ t \in Fatal => Struck(e, t, secs).requires_probe
         /\ Struck(e, t, secs).auth_episode = (e.auth_episode \/ t = "auth")
<1> DEFINE left     == Deadline(e.left, secs)
           episodes == e.transient_cooldowns
                         + IF ~IsLimited(e) /\ t \in Transient THEN 1 ELSE 0
<1>1. /\ left \in Nat
      /\ left >= e.left
      /\ left > 0
  BY DEF Deadline, Cooldown, Positive
<1>2. episodes \in Nat /\ e.generation + 1 \in Nat
  BY DEF Cooldown
<1>3. Struck(e, t, secs).left = left
  BY DEF Struck
<1>4. Struck(e, t, secs).transient_cooldowns = episodes
  BY DEF Struck
<1> HIDE DEF left, episodes
<1>5. Struck(e, t, secs) \in Cooldown
  BY <1>1, <1>2, <1>3, <1>4 DEF Struck, Cooldown
<1>6. QED
  BY <1>1, <1>3, <1>5 DEF Struck, Cooldown

LEMMA NewCooldownType ==
  ASSUME NEW reason \in ErrorType \union {"none"}
  PROVE  NewCooldown(reason) \in Cooldown
BY DEF NewCooldown, Cooldown

LEMMA AuthCooldownPositive == AuthCooldown \in Positive
BY ConfigAssumption DEF AuthCooldown, ErrorType, Fatal
-----------------------------------------------------------------------------
(***************************************************************************)
(* A failure's effect on the entry, in the terms the invariants speak of.  *)
(***************************************************************************)
LEMMA StrikeFacts ==
  ASSUME TypeOK, NEW t \in ErrorType, Strike(t)
  PROVE  /\ cooldown' \in Cooldown
         /\ history' \in [success : Nat, auth_error : Nat]
         /\ cooldown'.generation = cooldown.generation + 1
         /\ cooldown'.probing = cooldown.probing
         /\ cooldown'.probe_generation = cooldown.probe_generation
         /\ cooldown'.left >= cooldown.left
         /\ cooldown.requires_probe => cooldown'.requires_probe
         /\ cooldown'.left > 0 \/ (cooldown.auth_episode /\ cooldown' = [cooldown EXCEPT !.generation = @ + 1])
<1> DEFINE e == IF cooldown = NoEntry THEN NewCooldown(t) ELSE cooldown
<1>1. /\ e \in Cooldown
      /\ e.generation = cooldown.generation
      /\ e.probing = cooldown.probing
      /\ e.probe_generation = cooldown.probe_generation
      /\ e.left = cooldown.left
      /\ e.requires_probe = cooldown.requires_probe
      /\ e.auth_episode = cooldown.auth_episode
  <2>1. CASE cooldown = NoEntry
    BY <2>1, NewCooldownType DEF NoEntry, NewCooldown
  <2>2. CASE cooldown # NoEntry
    BY <2>2 DEF TypeOK
  <2>3. QED
    BY <2>1, <2>2
<1>2. CASE t = "auth" /\ e.auth_episode
  <2>1. cooldown # NoEntry
    BY <1>1, <1>2 DEF NoEntry, NewCooldown
  <2>2. cooldown' = [cooldown EXCEPT !.generation = @ + 1] /\ history' = history
    BY <1>2, <2>1 DEF Strike
  <2>3. QED
    BY <1>1, <1>2, <2>2 DEF TypeOK, Cooldown
<1>3. CASE ~(t = "auth" /\ e.auth_episode)
  <2> DEFINE secs == IF t = "auth" THEN AuthCooldown ELSE CooldownSecs[t]
  <2>1. secs \in Positive
    BY AuthCooldownPositive, ConfigAssumption
  <2>2. cooldown' = Struck(e, t, secs)
    BY <1>3 DEF Strike
  <2>3. history' \in [success : Nat, auth_error : Nat]
    BY <1>3, ConfigAssumption DEF Strike, TypeOK, Fresh, Positive
  <2> HIDE DEF e, secs
  <2>4. QED
    BY <1>1, <2>1, <2>2, <2>3, StruckFacts
<1>4. QED
  BY <1>2, <1>3
-----------------------------------------------------------------------------
(***************************************************************************)
(* Type correctness, one step per action.                                  *)
(***************************************************************************)
LEMMA BeginProbeType ==
  ASSUME TypeOK, NEW p \in Prober, NEW force \in BOOLEAN, BeginProbe(p, force)
  PROVE  TypeOK'
<1> DEFINE e == IF cooldown = NoEntry THEN NewCooldown("error") ELSE cooldown
<1>1. e \in Cooldown
  BY NewCooldownType DEF TypeOK, ErrorType, Transient
<1>2. /\ cooldown' = [e EXCEPT !.probing = TRUE,
                               !.generation = e.generation + 1,
                               !.probe_generation = e.generation + 1]
      /\ token' = [token EXCEPT ![p] = e.generation + 1]
      /\ probe' = [probe EXCEPT ![p] = "calling"]
      /\ UNCHANGED <<run, history, caller>>
      /\ trouble' \in Nat
  BY DEF BeginProbe, Adverse, TypeOK
<1> HIDE DEF e
<1>3. cooldown' \in Cooldown
  <2> DEFINE g == e.generation + 1
  <2>1. g \in Nat
    BY <1>1 DEF Cooldown
  <2>2. cooldown' = [e EXCEPT !.probing = TRUE, !.generation = g,
                              !.probe_generation = g]
    BY <1>2
  <2> HIDE DEF g
  <2>3. QED
    BY <1>1, <2>1, <2>2 DEF Cooldown
<1>4. token' \in [Prober -> Nat]
  BY <1>1, <1>2 DEF Cooldown, TypeOK
<1>5. QED
  BY <1>2, <1>3, <1>4 DEF TypeOK

LEMMA ProbeFailedFacts ==
  ASSUME NEW e \in Cooldown, NEW r \in ErrorType
  PROVE  /\ ProbeFailed(e, r) \in Cooldown
         /\ ProbeFailed(e, r).probing = FALSE
         /\ ProbeFailed(e, r).generation = e.generation
         /\ ProbeFailed(e, r).probe_generation = e.probe_generation
         /\ ProbeFailed(e, r).left = e.left \/ ProbeFailed(e, r).left > 0
         /\ e.requires_probe => ProbeFailed(e, r).requires_probe
<1> DEFINE reason   == IF r \in Fatal THEN r ELSE e.reason
           timeouts == IF r = "timeout" THEN e.probe_timeouts + 1 ELSE 0
           failures == e.failures + 1
           d        == ProbeDelay(failures, reason)
           told     == [e EXCEPT !.probing = FALSE, !.probe_timeouts = timeouts,
                                 !.auth_episode = @ \/ r = "auth"]
<1>1. timeouts \in Nat /\ failures \in Positive
  BY DEF Cooldown, Positive
<1>2. d \in Positive
  BY <1>1, ProbeDelayPositive
<1>3. reason \in ErrorType \union {"none"}
  BY DEF Cooldown
<1>4. ProbeFailed(e, r) = IF r = "timeout" /\ timeouts < 2 THEN told
                          ELSE [told EXCEPT !.reason = reason,
                                            !.requires_probe = @ \/ r \in Fatal,
                                            !.failures = failures,
                                            !.left = d]
  BY DEF ProbeFailed
<1> HIDE DEF reason, timeouts, failures, d
<1>5. /\ told \in Cooldown
      /\ told.probing = FALSE
      /\ told.generation = e.generation
      /\ told.probe_generation = e.probe_generation
      /\ told.left = e.left
      /\ told.requires_probe = e.requires_probe
  BY <1>1 DEF Cooldown
<1> HIDE DEF told
<1>6. CASE r = "timeout" /\ timeouts < 2
  BY <1>4, <1>5, <1>6
<1>7. CASE ~(r = "timeout" /\ timeouts < 2)
  <2> DEFINE gate == told.requires_probe \/ r \in Fatal
  <2>1. gate \in BOOLEAN
    OBVIOUS
  <2>2. ProbeFailed(e, r) =
          [told EXCEPT !.reason = reason, !.requires_probe = gate,
                       !.failures = failures, !.left = d]
    BY <1>4, <1>7
  <2>3. told.requires_probe => gate
    OBVIOUS
  <2> HIDE DEF gate
  <2>4. ProbeFailed(e, r) \in Cooldown
    BY <1>1, <1>2, <1>3, <1>5, <2>1, <2>2 DEF Cooldown, Positive
  <2>5. QED
    BY <1>2, <1>5, <2>2, <2>3, <2>4 DEF Cooldown, Positive
<1>8. QED
  BY <1>6, <1>7

LEMMA FinishFailedType ==
  ASSUME TypeOK, NEW p \in Prober, NEW r \in ErrorType, FinishFailed(p, r)
  PROVE  TypeOK'
<1>1. cooldown' \in Cooldown
  <2>1. CASE Disowned(p)
    BY <2>1 DEF FinishFailed, TypeOK
  <2>2. CASE ~Disowned(p) /\ cooldown.generation # token[p]
    BY <2>2 DEF FinishFailed, TypeOK, Cooldown
  <2>3. CASE ~Disowned(p) /\ cooldown.generation = token[p]
    <3>1. cooldown' = ProbeFailed(cooldown, r)
      BY <2>3 DEF FinishFailed
    <3>2. QED
      BY <3>1, ProbeFailedFacts DEF TypeOK
  <2>4. QED
    BY <2>1, <2>2, <2>3
<1>2. history' \in [success : Nat, auth_error : Nat]
  BY ConfigAssumption DEF FinishFailed, TypeOK, Fresh, Positive
<1>3. probe' = [probe EXCEPT ![p] = "idle"] /\ token' = [token EXCEPT ![p] = 0]
  BY DEF FinishFailed, Retire
<1>4. QED
  BY <1>1, <1>2, <1>3 DEF FinishFailed, Adverse, TypeOK

LEMMA TypeStep == TypeOK /\ [Next]_vars => TypeOK'
<1> SUFFICES ASSUME TypeOK, [Next]_vars PROVE TypeOK'
  OBVIOUS
<1>1. ASSUME NEW c \in Caller, NEW t \in ErrorType, ReportError(c, t)
      PROVE  TypeOK'
  BY <1>1, StrikeFacts DEF ReportError, Adverse, TypeOK
<1>2. ASSUME NEW c \in Caller, NEW t \in ErrorType, ReportTransient(c, t)
      PROVE  TypeOK'
  BY <1>2, ConfigAssumption
  DEF ReportTransient, Adverse, TypeOK, Failures, NoRun, Fresh, Transient
<1>3. ASSUME NEW c \in Caller, StrikePending(c)
      PROVE  TypeOK'
  <2>1. caller[c] \in ErrorType
    BY <1>3 DEF StrikePending, ErrorType
  <2>2. cooldown' \in Cooldown /\ history' \in [success : Nat, auth_error : Nat]
    BY <1>3, <2>1, StrikeFacts DEF StrikePending
  <2>3. QED
    BY <1>3, <2>2 DEF StrikePending, TypeOK
<1>4. ASSUME NEW c \in Caller, NoteSuccess(c)
      PROVE  TypeOK'
  BY <1>4, ConfigAssumption DEF NoteSuccess, TypeOK, Fresh, Positive
<1>5. ASSUME NEW c \in Caller, ForgetRun(c)
      PROVE  TypeOK'
  BY <1>5 DEF ForgetRun, TypeOK, NoRun
<1>6. ASSUME NEW c \in Caller, ForgetEpisodes(c)
      PROVE  TypeOK'
  BY <1>6 DEF ForgetEpisodes, TypeOK, Cooldown
<1>7. ASSUME NEW p \in Prober, NEW force \in BOOLEAN, BeginProbe(p, force)
      PROVE  TypeOK'
  BY <1>7, BeginProbeType
<1>8. ASSUME NEW p \in Prober, NEW r \in ErrorType, FinishFailed(p, r)
      PROVE  TypeOK'
  BY <1>8, FinishFailedType
<1>9. ASSUME NEW p \in Prober, FinishStale(p)
      PROVE  TypeOK'
  BY <1>9 DEF FinishStale, Retire, TypeOK, Cooldown
<1>10. ASSUME NEW p \in Prober, FinishWorked(p)
       PROVE  TypeOK'
  BY <1>10 DEF FinishWorked, TypeOK
<1>11. ASSUME NEW p \in Prober, RemoveEntry(p)
       PROVE  TypeOK'
  BY <1>11, NewCooldownType DEF RemoveEntry, TypeOK, NoEntry
<1>12. ASSUME NEW p \in Prober, ClearRun(p)
       PROVE  TypeOK'
  BY <1>12 DEF ClearRun, TypeOK, NoRun
<1>13. CASE Tick
  BY <1>13 DEF Tick, CountDown, TypeOK, Cooldown, NoRun
<1>14. CASE UNCHANGED vars
  BY <1>14 DEF vars, TypeOK
<1>15. QED
  BY <1>1, <1>2, <1>3, <1>4, <1>5, <1>6, <1>7, <1>8, <1>9, <1>10, <1>11,
     <1>12, <1>13, <1>14 DEF Next, CallerStep, ProberStep

\* Every reachable state is well typed: in particular no countdown, count or
\* generation ever leaves the naturals.
THEOREM TypeCorrect == Spec => []TypeOK
<1>1. Init => TypeOK
  BY NewCooldownType, ConfigAssumption DEF Init, TypeOK, NoEntry, NoRun
<1>2. QED
  BY <1>1, TypeStep, PTL DEF Spec
-----------------------------------------------------------------------------
(***************************************************************************)
(* Exclusion of probes.  Neither conjunct is inductive alone: that a claim *)
(* is current needs that nobody else can release or remove the entry, and  *)
(* that claims exclude each other needs that a holder's entry is marked.   *)
(* The generations are ordered so that a new one is nobody's token.        *)
(***************************************************************************)
ClaimInv ==
  /\ OneClaim
  /\ ClaimIsCurrent
  /\ cooldown.probe_generation <= cooldown.generation

LEMMA ClaimStep == TypeOK /\ ClaimInv /\ [Next]_vars => ClaimInv'
<1> SUFFICES ASSUME TypeOK, ClaimInv, [Next]_vars PROVE ClaimInv'
  OBVIOUS
<1> USE DEF ClaimInv, OneClaim, ClaimIsCurrent, Holds, Disowned
\* A failure changes neither the mark nor the claim's generation.
<1>1. ASSUME cooldown'.probing = cooldown.probing,
             cooldown'.probe_generation = cooldown.probe_generation,
             cooldown'.generation >= cooldown.generation,
             cooldown'.generation \in Nat,
             UNCHANGED <<probe, token>>
      PROVE  ClaimInv'
  BY <1>1 DEF TypeOK, Cooldown
<1>2. ASSUME NEW c \in Caller, NEW t \in ErrorType, ReportError(c, t)
      PROVE  ClaimInv'
  <2>1. Strike(t) /\ UNCHANGED <<probe, token>>
    BY <1>2 DEF ReportError
  <2>2. QED
    BY <1>1, <2>1, StrikeFacts DEF TypeOK, Cooldown
<1>3. ASSUME NEW c \in Caller, StrikePending(c)
      PROVE  ClaimInv'
  <2>1. caller[c] \in ErrorType /\ Strike(caller[c]) /\ UNCHANGED <<probe, token>>
    BY <1>3 DEF StrikePending, ErrorType
  <2>2. QED
    BY <1>1, <2>1, StrikeFacts DEF TypeOK, Cooldown
<1>4. ASSUME NEW c \in Caller,
             \/ \E t \in ErrorType : ReportTransient(c, t)
             \/ NoteSuccess(c) \/ ForgetRun(c)
      PROVE  ClaimInv'
  BY <1>1, <1>4 DEF ReportTransient, NoteSuccess, ForgetRun, TypeOK, Cooldown
<1>5. ASSUME NEW c \in Caller, ForgetEpisodes(c)
      PROVE  ClaimInv'
  BY <1>1, <1>5 DEF ForgetEpisodes, TypeOK, Cooldown
\* Only an unmarked entry can be claimed, and an unmarked entry has no holder.
<1>6. ASSUME NEW p \in Prober, NEW force \in BOOLEAN, BeginProbe(p, force)
      PROVE  ClaimInv'
  <2>1. \A q \in Prober : ~Holds(q)
    BY <1>6 DEF BeginProbe, Due
  <2>2. probe' = [probe EXCEPT ![p] = "calling"]
    BY <1>6 DEF BeginProbe
  <2>3. \A q \in Prober : Holds(q)' => q = p
    BY <2>1, <2>2 DEF TypeOK
  <2>4. /\ cooldown'.probing
        /\ cooldown'.probe_generation = token'[p]
        /\ cooldown'.probe_generation = cooldown'.generation
        /\ cooldown'.generation \in Nat
    <3> DEFINE e == IF cooldown = NoEntry THEN NewCooldown("error") ELSE cooldown
               g == e.generation + 1
    <3>1. e \in Cooldown
      BY NewCooldownType DEF TypeOK, ErrorType, Transient
    <3>2. /\ cooldown' = [e EXCEPT !.probing = TRUE, !.generation = g,
                                   !.probe_generation = g]
          /\ token' = [token EXCEPT ![p] = g]
      BY <1>6 DEF BeginProbe
    <3>3. g \in Nat
      BY <3>1 DEF Cooldown
    <3> HIDE DEF e, g
    <3>4. QED
      BY <3>1, <3>2, <3>3 DEF Cooldown, TypeOK
  <2>5. OneClaim' /\ ClaimIsCurrent'
    BY <2>3, <2>4
  <2>6. cooldown'.probe_generation <= cooldown'.generation
    BY <2>4
  <2>7. QED
    BY <2>5, <2>6
\* The holder gives its claim up; there was no other.
<1>7. ASSUME NEW p \in Prober, Holds(p),
             \/ probe' = [probe EXCEPT ![p] = "idle"]
             \/ probe' = [probe EXCEPT ![p] = "clearing"],
             cooldown'.probe_generation <= cooldown'.generation
      PROVE  ClaimInv'
  <2>1. \A q \in Prober : ~Holds(q)'
    BY <1>7 DEF TypeOK
  <2>2. QED
    BY <1>7, <2>1
<1>8. ASSUME NEW p \in Prober, NEW r \in ErrorType, FinishFailed(p, r)
      PROVE  ClaimInv'
  <2>1. /\ cooldown'.probe_generation = cooldown.probe_generation
        /\ cooldown'.generation = cooldown.generation
    <3>1. CASE cooldown' = ProbeFailed(cooldown, r)
      BY <3>1, ProbeFailedFacts DEF TypeOK
    <3>2. CASE cooldown' # ProbeFailed(cooldown, r)
      BY <1>8, <3>2 DEF FinishFailed, TypeOK, Cooldown
    <3>3. QED
      BY <3>1, <3>2
  <2>2. QED
    BY <1>7, <1>8, <2>1 DEF FinishFailed, Retire
<1>14. ASSUME NEW p \in Prober, FinishStale(p) \/ RemoveEntry(p)
       PROVE  ClaimInv'
  <2>1. cooldown'.probe_generation <= cooldown'.generation
    BY <1>14
    DEF FinishStale, RemoveEntry, NoEntry, NewCooldown, TypeOK, Cooldown
  <2>2. QED
    BY <1>7, <1>14, <2>1 DEF FinishStale, RemoveEntry, Retire
<1>9. ASSUME NEW p \in Prober, FinishWorked(p)
      PROVE  ClaimInv'
  BY <1>9 DEF FinishWorked, TypeOK
<1>10. ASSUME NEW p \in Prober, ClearRun(p)
       PROVE  ClaimInv'
  BY <1>10 DEF ClearRun, TypeOK
<1>11. CASE Tick
  BY <1>1, <1>11 DEF Tick, TypeOK, Cooldown
<1>12. CASE UNCHANGED vars
  BY <1>12 DEF vars
<1>13. QED
  BY <1>2, <1>3, <1>4, <1>5, <1>6, <1>8, <1>9, <1>10, <1>11, <1>12, <1>14
  DEF Next, CallerStep, ProberStep

LEMMA ClaimInvariant == Spec => [](TypeOK /\ ClaimInv)
<1>1. Init => ClaimInv
  BY DEF Init, ClaimInv, OneClaim, ClaimIsCurrent, Holds, NoEntry, NewCooldown
<1>2. QED
  BY <1>1, ClaimStep, TypeCorrect, PTL DEF Spec

\* begin_probe's mark excludes probes from each other, for any number of
\* probers and whatever failures are reported meanwhile.
THEOREM ProbesExclusive == Spec => []OneClaim
BY ClaimInvariant, PTL DEF ClaimInv

\* The token of a probe in flight is the entry's: the entry was neither
\* replaced nor claimed again behind its back.
THEOREM ClaimsCurrent == Spec => []ClaimIsCurrent
BY ClaimInvariant, PTL DEF ClaimInv
-----------------------------------------------------------------------------
(***************************************************************************)
(* The gate and the reason.  GateMatchesReason is inductive: its three     *)
(* conjuncts support each other (an early return for a running auth        *)
(* episode is harmless because that episode already closed the gate).      *)
(***************************************************************************)
LEMMA StrikeConsistent ==
  ASSUME TypeOK, GateMatchesReason, NEW t \in ErrorType, Strike(t)
  PROVE  /\ GateMatchesReason'
         /\ cooldown.reason = "billing" => cooldown'.reason = "billing"
<1> DEFINE e == IF cooldown = NoEntry THEN NewCooldown(t) ELSE cooldown
<1> USE DEF GateMatchesReason, Throttle, Transient, Fatal, ErrorType
<1>1. CASE t = "auth" /\ e.auth_episode
  <2>1. cooldown # NoEntry
    BY <1>1 DEF NoEntry, NewCooldown
  <2>2. cooldown' = [cooldown EXCEPT !.generation = @ + 1]
    BY <1>1, <2>1 DEF Strike
  <2>3. QED
    BY <2>2 DEF TypeOK, Cooldown
<1>2. CASE ~(t = "auth" /\ e.auth_episode)
  <2>1. PICK secs : cooldown' = Struck(e, t, secs)
    BY <1>2 DEF Strike
  <2>2. CASE cooldown = NoEntry
    BY <2>1, <2>2 DEF NoEntry, NewCooldown, Struck, Outranks, IsLimited
  <2>3. CASE cooldown # NoEntry
    <3>1. cooldown' = Struck(cooldown, t, secs)
      BY <2>1, <2>3
    <3>2. QED
      BY <3>1 DEF Struck, Outranks, IsLimited, TypeOK, Cooldown
  <2>4. QED
    BY <2>2, <2>3
<1>3. QED
  BY <1>1, <1>2

LEMMA GateStep ==
  TypeOK /\ GateMatchesReason /\ [Next]_vars => GateMatchesReason'
<1> SUFFICES ASSUME TypeOK, GateMatchesReason, [Next]_vars
             PROVE  GateMatchesReason'
  OBVIOUS
\* Most actions leave alone the three fields that matter.
<1>1. ASSUME cooldown'.reason = cooldown.reason,
             cooldown'.auth_episode = cooldown.auth_episode,
             cooldown'.requires_probe = cooldown.requires_probe
      PROVE  GateMatchesReason'
  BY <1>1 DEF GateMatchesReason
<1>2. ASSUME NEW c \in Caller, NEW t \in ErrorType, ReportError(c, t)
      PROVE  GateMatchesReason'
  BY <1>2, StrikeConsistent DEF ReportError
<1>3. ASSUME NEW c \in Caller, StrikePending(c)
      PROVE  GateMatchesReason'
  BY <1>3, StrikeConsistent DEF StrikePending, ErrorType
<1>4. ASSUME NEW c \in Caller,
             \/ \E t \in ErrorType : ReportTransient(c, t)
             \/ NoteSuccess(c) \/ ForgetRun(c) \/ ForgetEpisodes(c)
      PROVE  GateMatchesReason'
  BY <1>1, <1>4
  DEF ReportTransient, NoteSuccess, ForgetRun, ForgetEpisodes, TypeOK, Cooldown
<1>5. ASSUME NEW p \in Prober, NEW force \in BOOLEAN, BeginProbe(p, force)
      PROVE  GateMatchesReason'
  <2>1. CASE cooldown = NoEntry
    BY <1>5, <2>1
    DEF BeginProbe, NoEntry, NewCooldown, GateMatchesReason, Fatal, Throttle
  <2>2. CASE cooldown # NoEntry
    BY <1>1, <1>5, <2>2 DEF BeginProbe, TypeOK, Cooldown
  <2>3. QED
    BY <2>1, <2>2
<1>6. ASSUME NEW p \in Prober, NEW r \in ErrorType, FinishFailed(p, r)
      PROVE  GateMatchesReason'
  <2>1. CASE cooldown' = ProbeFailed(cooldown, r)
    BY <2>1 DEF ProbeFailed, GateMatchesReason, TypeOK, Cooldown, Fatal, Throttle
  <2>2. CASE cooldown' # ProbeFailed(cooldown, r)
    BY <1>1, <1>6, <2>2 DEF FinishFailed, TypeOK, Cooldown
  <2>3. QED
    BY <2>1, <2>2
<1>7. ASSUME NEW p \in Prober, FinishStale(p) \/ FinishWorked(p) \/ ClearRun(p)
      PROVE  GateMatchesReason'
  BY <1>1, <1>7 DEF FinishStale, FinishWorked, ClearRun, TypeOK, Cooldown
<1>8. ASSUME NEW p \in Prober, RemoveEntry(p)
      PROVE  GateMatchesReason'
  BY <1>1, <1>8
  DEF RemoveEntry, NoEntry, NewCooldown, GateMatchesReason, Fatal, Throttle
<1>9. CASE Tick
  BY <1>1, <1>9 DEF Tick, TypeOK, Cooldown
<1>10. CASE UNCHANGED vars
  BY <1>1, <1>10 DEF vars
<1>11. QED
  BY <1>2, <1>3, <1>4, <1>5, <1>6, <1>7, <1>8, <1>9, <1>10
  DEF Next, CallerStep, ProberStep

LEMMA GateInit == Init => GateMatchesReason
BY DEF Init, NoEntry, NewCooldown, GateMatchesReason, Fatal, Throttle

\* What the entry shows as its reason tells how it will be released: by
\* expiry for a throttle, by a probe for auth and billing.
THEOREM ReasonsTruthful == Spec => []GateMatchesReason
BY GateInit, GateStep, TypeCorrect, PTL DEF Spec
-----------------------------------------------------------------------------
(***************************************************************************)
(* How the gate moves.                                                     *)
(***************************************************************************)

\* A report of a failure, seen from the entry.
LEMMA ReportedStrike ==
  ASSUME TypeOK, ClaimInv, Next, FailureReported
  PROVE  \E t \in ErrorType : Strike(t)
<1>1. ASSUME NEW c \in Caller, CallerStep(c)
      PROVE  \E t \in ErrorType : Strike(t)
  BY <1>1
  DEF CallerStep, FailureReported, ReportError, ReportTransient, StrikePending,
      NoteSuccess, ForgetRun, ForgetEpisodes, TypeOK, Cooldown, ErrorType
<1>2. ASSUME NEW p \in Prober, ProberStep(p)
      PROVE  FALSE
  BY <1>2
  DEF ProberStep, FailureReported, BeginProbe, FinishFailed, FinishStale,
      FinishWorked, RemoveEntry, ClearRun, Retire, TypeOK
<1>3. CASE Tick
  BY <1>3 DEF Tick, FailureReported, TypeOK, Cooldown
<1>4. QED
  BY <1>1, <1>2, <1>3 DEF Next

\* No failure that was already in flight can shorten a parking, open it, or
\* replace its billing reason by a lighter one.
THEOREM FailuresOnlyClose == Spec => ParkingNotWeakened
<1> DEFINE A == FailureReported =>
                  /\ cooldown'.left >= cooldown.left
                  /\ cooldown.requires_probe => cooldown'.requires_probe
                  /\ cooldown.reason = "billing" => cooldown'.reason = "billing"
<1>1. TypeOK /\ ClaimInv /\ GateMatchesReason /\ [Next]_vars => [A]_vars
  <2> SUFFICES ASSUME TypeOK, ClaimInv, GateMatchesReason, Next, FailureReported
               PROVE  A
    OBVIOUS
  <2>1. PICK t \in ErrorType : Strike(t)
    BY ReportedStrike
  <2>2. QED
    BY <2>1, StrikeFacts, StrikeConsistent
<1>2. QED
  BY <1>1, ClaimInvariant, ReasonsTruthful, PTL DEF Spec, ParkingNotWeakened

LEMMA OnlyRemovalOpens ==
  ASSUME TypeOK, Next, cooldown.requires_probe, ~cooldown'.requires_probe
  PROVE  \E p \in Prober : /\ RemoveEntry(p)
                          /\ token[p] = cooldown.generation
                          /\ cooldown' = NoEntry
<1>1. ASSUME NEW t \in ErrorType, Strike(t)
      PROVE  FALSE
  BY <1>1, StrikeFacts
<1>2. ASSUME NEW c \in Caller, CallerStep(c)
      PROVE  FALSE
  BY <1>1, <1>2
  DEF CallerStep, ReportError, ReportTransient, StrikePending, NoteSuccess,
      ForgetRun, ForgetEpisodes, TypeOK, Cooldown, ErrorType
<1>3. ASSUME NEW p \in Prober, NEW force \in BOOLEAN, BeginProbe(p, force)
      PROVE  FALSE
  BY <1>3 DEF BeginProbe, TypeOK, Cooldown, NoEntry, NewCooldown
<1>4. ASSUME NEW p \in Prober, NEW r \in ErrorType, FinishFailed(p, r)
      PROVE  FALSE
  <2>1. CASE cooldown' = ProbeFailed(cooldown, r)
    BY <2>1, ProbeFailedFacts DEF TypeOK
  <2>2. CASE cooldown' # ProbeFailed(cooldown, r)
    BY <1>4, <2>2 DEF FinishFailed, TypeOK, Cooldown
  <2>3. QED
    BY <2>1, <2>2
<1>5. ASSUME NEW p \in Prober, FinishStale(p) \/ FinishWorked(p) \/ ClearRun(p)
      PROVE  FALSE
  BY <1>5 DEF FinishStale, FinishWorked, ClearRun, TypeOK, Cooldown
<1>6. CASE Tick
  BY <1>6 DEF Tick, TypeOK, Cooldown
<1>7. QED
  BY <1>2, <1>3, <1>4, <1>5, <1>6 DEF Next, ProberStep, RemoveEntry

\* A key that needs a probe is opened by nothing but a probe that worked and
\* that no failure has overtaken.
THEOREM GateOpenedByProbeOnly == Spec => OpenedByProbe
<1> DEFINE A == cooldown.requires_probe /\ ~cooldown'.requires_probe
                  => \E p \in Prober : probe[p] = "releasing"
                                      /\ token[p] = cooldown.generation
<1>1. TypeOK /\ [Next]_vars => [A]_vars
  BY OnlyRemovalOpens DEF RemoveEntry
<1>2. QED
  BY <1>1, TypeCorrect, PTL DEF Spec, OpenedByProbe

\* Within an auth episode no failure, reported or probed, renews the window in
\* which a further episode counts as a repetition.
THEOREM RepeatWindowNotRenewed == Spec => EpisodeCountedOnce
<1> DEFINE A == cooldown.auth_episode /\ cooldown'.auth_episode
                  => history'.auth_error <= history.auth_error
<1>1. ASSUME TypeOK, Next, cooldown.auth_episode
      PROVE  history'.auth_error <= history.auth_error
  <2>1. cooldown # NoEntry
    BY <1>1 DEF NoEntry, NewCooldown
  <2>2. ASSUME NEW t \in ErrorType, Strike(t)
        PROVE  history'.auth_error <= history.auth_error
    BY <1>1, <2>1, <2>2 DEF Strike, TypeOK
  <2>3. ASSUME NEW c \in Caller, CallerStep(c)
        PROVE  history'.auth_error <= history.auth_error
    BY <1>1, <2>2, <2>3
    DEF CallerStep, ReportError, ReportTransient, StrikePending, NoteSuccess,
        ForgetRun, ForgetEpisodes, TypeOK, ErrorType
  <2>4. ASSUME NEW p \in Prober, ProberStep(p)
        PROVE  history'.auth_error <= history.auth_error
    BY <1>1, <2>4
    DEF ProberStep, BeginProbe, FinishFailed, FinishStale, FinishWorked,
        RemoveEntry, ClearRun, TypeOK
  <2>5. CASE Tick
    BY <1>1, <2>5 DEF Tick, CountDown, TypeOK
  <2>6. QED
    BY <1>1, <2>3, <2>4, <2>5 DEF Next
<1>2. TypeOK /\ [Next]_vars => [A]_vars
  BY <1>1
<1>3. QED
  BY <1>2, TypeCorrect, PTL DEF Spec, EpisodeCountedOnce
-----------------------------------------------------------------------------
(***************************************************************************)
(* KeyHealth implements KeyGate.                                           *)
(***************************************************************************)

\* What a failure does to the mapped variables.
LEMMA StrikeRefines ==
  ASSUME TypeOK, ClaimInv, GateMatchesReason, NEW t \in ErrorType, Strike(t),
         UNCHANGED <<probe, token>>
  PROVE  Abstract!Failure
<1>1. Gate' \in Abstract!AtLeast(Gate) \ {"open"}
  <2>1. cooldown'.left > 0 \/ cooldown'.requires_probe
    BY StrikeFacts DEF GateMatchesReason, TypeOK, Cooldown
  <2>2. cooldown.requires_probe => cooldown'.requires_probe
    BY StrikeFacts
  <2>3. QED
    BY <2>1, <2>2 DEF Gate, Abstract!AtLeast, Abstract!Gates
<1>2. Claim' = IF Claim = "live" THEN "stale" ELSE Claim
  <2>1. \A p \in Prober : Holds(p) => token[p] <= cooldown.generation
    BY DEF ClaimInv, ClaimIsCurrent, Disowned
  <2>2. \A p \in Prober : Holds(p) => token[p] # cooldown'.generation
    BY <2>1, StrikeFacts DEF TypeOK, Cooldown
  <2>3. /\ \A p \in Prober : Holds(p)' <=> Holds(p)
        /\ token' = token
    BY DEF Holds
  <2>4. QED
    BY <2>2, <2>3 DEF Claim
<1>3. QED
  BY <1>1, <1>2 DEF Abstract!Failure

\* Steps that leave the deadline, the gate and all claims as they are.
LEMMA SilentStep ==
  ASSUME cooldown'.left = cooldown.left,
         cooldown'.requires_probe = cooldown.requires_probe,
         cooldown'.generation = cooldown.generation,
         UNCHANGED token,
         \A p \in Prober : Holds(p)' <=> Holds(p)
  PROVE  UNCHANGED <<Gate, Claim>>
BY DEF Gate, Claim

\* The only holder gives its claim up: the abstract claim is given up too, and
\* it was live exactly when no failure has overtaken the token.
LEMMA ClaimGivenUp ==
  ASSUME TypeOK, ClaimInv, NEW p \in Prober, Holds(p),
         \/ probe' = [probe EXCEPT ![p] = "idle"]
         \/ probe' = [probe EXCEPT ![p] = "clearing"]
  PROVE  /\ Claim = IF token[p] = cooldown.generation THEN "live" ELSE "stale"
         /\ Claim' = "none"
<1>1. \A q \in Prober : Holds(q) => q = p
  BY DEF ClaimInv, OneClaim
<1>2. \A q \in Prober : ~Holds(q)'
  BY <1>1 DEF Holds, TypeOK
<1>3. QED
  BY <1>1, <1>2 DEF Claim

THEOREM StepsRefine ==
  TypeOK /\ ClaimInv /\ GateMatchesReason /\ [Next]_vars
    => [Abstract!Next]_(Abstract!vars)
<1> SUFFICES ASSUME TypeOK, ClaimInv, GateMatchesReason, [Next]_vars
             PROVE  Abstract!Next \/ UNCHANGED <<Gate, Claim>>
  BY DEF Abstract!vars
<1> USE DEF Abstract!Next
<1>1. ASSUME NEW c \in Caller, NEW t \in ErrorType, ReportError(c, t)
      PROVE  Abstract!Next
  BY <1>1, StrikeRefines DEF ReportError
<1>2. ASSUME NEW c \in Caller, StrikePending(c)
      PROVE  Abstract!Next
  BY <1>2, StrikeRefines DEF StrikePending, ErrorType
<1>3. ASSUME NEW c \in Caller,
             \/ \E t \in ErrorType : ReportTransient(c, t)
             \/ NoteSuccess(c) \/ ForgetRun(c) \/ ForgetEpisodes(c)
      PROVE  UNCHANGED <<Gate, Claim>>
  BY <1>3, SilentStep
  DEF ReportTransient, NoteSuccess, ForgetRun, ForgetEpisodes, TypeOK,
      Cooldown, Holds
<1>4. ASSUME NEW p \in Prober, NEW force \in BOOLEAN, BeginProbe(p, force)
      PROVE  Abstract!Next
  <2> DEFINE e == IF cooldown = NoEntry THEN NewCooldown("error") ELSE cooldown
             g == e.generation + 1
  <2>1. /\ e \in Cooldown
        /\ e.left = cooldown.left
        /\ e.requires_probe = cooldown.requires_probe
    <3>1. CASE cooldown = NoEntry
      BY <3>1, NewCooldownType DEF NoEntry, NewCooldown, ErrorType, Transient
    <3>2. CASE cooldown # NoEntry
      BY <3>2 DEF TypeOK
    <3>3. QED
      BY <3>1, <3>2
  <2>2. /\ cooldown' = [e EXCEPT !.probing = TRUE, !.generation = g,
                                 !.probe_generation = g]
        /\ token' = [token EXCEPT ![p] = g]
        /\ probe' = [probe EXCEPT ![p] = "calling"]
    BY <1>4 DEF BeginProbe
  <2> HIDE DEF e, g
  <2>3. \A q \in Prober : ~Holds(q)
    BY <1>4 DEF BeginProbe, Due, ClaimInv, ClaimIsCurrent, Disowned
  <2>4. UNCHANGED Gate
    BY <2>1, <2>2 DEF Gate, Cooldown
  <2>5. Claim = "none"
    BY <2>3 DEF Claim
  <2>6. Holds(p)' /\ token'[p] = cooldown'.generation
    BY <2>1, <2>2 DEF Holds, TypeOK, Cooldown
  <2>7. Claim' = "live"
    BY <2>6 DEF Claim
  <2>8. QED
    BY <2>4, <2>5, <2>7 DEF Abstract!TakeClaim
<1>5. ASSUME NEW p \in Prober, NEW r \in ErrorType, FinishFailed(p, r)
      PROVE  Abstract!Next
  <2>1. /\ Claim = IF token[p] = cooldown.generation THEN "live" ELSE "stale"
        /\ Claim' = "none"
    BY <1>5, ClaimGivenUp DEF FinishFailed, Retire, Holds
  <2>2. ~Disowned(p)
    BY <1>5 DEF FinishFailed, ClaimInv, ClaimIsCurrent, Holds
  <2>3. CASE cooldown.generation = token[p]
    <3>1. cooldown' = ProbeFailed(cooldown, r)
      BY <1>5, <2>2, <2>3 DEF FinishFailed
    <3>2. Gate' \in Abstract!AtLeast(Gate)
      BY <3>1, ProbeFailedFacts
      DEF Gate, Abstract!AtLeast, Abstract!Gates, TypeOK, Cooldown
    <3>3. QED
      BY <2>1, <2>3, <3>2 DEF Abstract!ProbeFailed
  <2>4. CASE cooldown.generation # token[p]
    <3>1. UNCHANGED Gate
      BY <1>5, <2>2, <2>4 DEF FinishFailed, Gate, TypeOK, Cooldown
    <3>2. QED
      BY <2>1, <2>4, <3>1 DEF Abstract!ProbeOvertaken
  <2>5. QED
    BY <2>3, <2>4
<1>6. ASSUME NEW p \in Prober, FinishStale(p)
      PROVE  Abstract!Next
  <2>1. ~Disowned(p) /\ token[p] # cooldown.generation
    BY <1>6 DEF FinishStale, ClaimInv, ClaimIsCurrent, Holds
  <2>2. Claim = "stale" /\ Claim' = "none"
    BY <1>6, <2>1, ClaimGivenUp DEF FinishStale, Retire, Holds
  <2>3. UNCHANGED Gate
    BY <1>6 DEF FinishStale, Gate, TypeOK, Cooldown
  <2>4. QED
    BY <2>2, <2>3 DEF Abstract!ProbeOvertaken
<1>7. ASSUME NEW p \in Prober, RemoveEntry(p)
      PROVE  Abstract!Next
  <2>1. /\ Claim = IF token[p] = cooldown.generation THEN "live" ELSE "stale"
        /\ Claim' = "none"
    BY <1>7, ClaimGivenUp DEF RemoveEntry, Holds
  <2>2. cooldown.probing
    BY <1>7 DEF RemoveEntry, ClaimInv, ClaimIsCurrent, Holds, Disowned
  <2>3. CASE token[p] = cooldown.generation
    <3>1. Gate' = "open"
      BY <1>7, <2>2, <2>3 DEF RemoveEntry, NoEntry, NewCooldown, Gate
    <3>2. QED
      BY <2>1, <2>3, <3>1 DEF Abstract!ProbeWorked
  <2>4. CASE token[p] # cooldown.generation
    BY <1>7, <2>1, <2>4 DEF RemoveEntry, Gate, Abstract!ProbeOvertaken
  <2>5. QED
    BY <2>3, <2>4
<1>8. ASSUME NEW p \in Prober, FinishWorked(p) \/ ClearRun(p)
      PROVE  UNCHANGED <<Gate, Claim>>
  <2>1. \A q \in Prober : Holds(q)' <=> Holds(q)
    BY <1>8 DEF FinishWorked, ClearRun, Holds, TypeOK
  <2>2. QED
    BY <1>8, <2>1, SilentStep DEF FinishWorked, ClearRun
<1>9. CASE Tick
  <2>1. UNCHANGED Claim
    BY <1>9 DEF Tick, Claim, Holds, TypeOK, Cooldown
  <2>2. Gate' = Gate \/ (Gate = "cooling" /\ Gate' = "open")
    BY <1>9 DEF Tick, Gate, CountDown, TypeOK, Cooldown
  <2>3. QED
    BY <2>1, <2>2 DEF Abstract!Expire
<1>10. CASE UNCHANGED vars
  BY <1>10 DEF vars, Gate, Claim, Holds
<1>11. QED
  BY <1>1, <1>2, <1>3, <1>4, <1>5, <1>6, <1>7, <1>8, <1>9, <1>10
  DEF Next, CallerStep, ProberStep

\* For every number of requests and probes, the entry behaves as the gate of
\* KeyGate, whose only way out of `parked' is a live claim's success.
THEOREM Refinement == Spec => ImplementsKeyGate
<1>1. Init => Abstract!Init
  BY DEF Init, Abstract!Init, Gate, Claim, Holds, NoEntry, NewCooldown
<1>2. QED
  BY <1>1, StepsRefine, ClaimInvariant, ReasonsTruthful, PTL
  DEF Spec, ImplementsKeyGate, Abstract!Spec
=============================================================================
