------------------------------ MODULE KeyHealth ------------------------------
(***************************************************************************)
(* The reactive health of ONE API key: RateLimitState in                   *)
(* crates/core/src/rate_limit.rs, and the probe claims that ProbeRunner    *)
(* takes on it.  The state lives in three DashMaps (cooldowns, transient,  *)
(* auth_history); every operation touches the entries of a single key, so  *)
(* the module keeps those three entries and nothing else.                  *)
(*                                                                         *)
(* Each map locks on its own.  An operation that visits several maps is    *)
(* split where it lets go of a lock: report_error is a step on transient   *)
(* and then one on cooldowns, report_success is three steps, and a probe   *)
(* that succeeded drops the entry it had checked before it removes it.     *)
(*                                                                         *)
(* Time.  Instants only ever meet now() in a comparison, so an instant is  *)
(* kept as the ticks that separate it from now: `until' as the time left,  *)
(* a past event as what is left of the window in which it still counts.    *)
(***************************************************************************)
EXTENDS Integers

CONSTANTS
  Caller,               \* user requests in flight on the key
  Prober,               \* tasks that may run a probe: the worker's, the admin's
  TransientThreshold,   \* transient_threshold
  TransientWindow,      \* TRANSIENT_WINDOW
  CooldownSecs,         \* ErrorType::cooldown_secs, and billing_cooldown_secs
  RecentSuccess,        \* auth_recent_success_secs
  RepeatWindow,         \* auth_repeat_window_secs
  FirstAuthCooldown,    \* auth_first_cooldown_secs
  Backoff,              \* PROBE_BACKOFF_SECS
  MaxBackoff,           \* PROBE_MAX_BACKOFF_SECS
  MaxTransientBackoff,  \* PROBE_MAX_BACKOFF_TRANSIENT_SECS
  MaxTrouble            \* bound: adverse events (failures and forced probes)

Throttle  == {"rps", "rpm", "rpd"}
Transient == {"timeout", "error"}
Fatal     == {"auth", "billing"}

\* The error types that can start a cooldown; "empty" is a success and
\* "request" says nothing about the key, so report_error ignores it.
ErrorType == Throttle \union Transient \union Fatal

Positive == Nat \ {0}

ASSUME ConfigAssumption ==
  /\ TransientThreshold \in Positive
  /\ TransientWindow \in Nat
  /\ CooldownSecs \in [ErrorType -> Positive]
  /\ RecentSuccess \in Positive /\ RepeatWindow \in Positive
  /\ FirstAuthCooldown \in Positive
  /\ Backoff \in Positive
  /\ MaxBackoff \in Positive /\ MaxTransientBackoff \in Positive
  /\ MaxTrouble \in Nat

VARIABLES
  cooldown,   \* the key's entry in `cooldowns'
  run,        \* its entry in `transient': failures in a row, and time to live
  history,    \* its entry in `auth_history'
  caller,     \* where each user request stands inside a report
  probe,      \* where each prober stands
  token,      \* the generation a prober got from begin_probe
  trouble     \* adverse events still allowed (MaxTrouble)

vars == <<cooldown, run, history, caller, probe, token, trouble>>

Smaller(a, b) == IF a <= b THEN a ELSE b

\* Mutant: a remaining time that does not saturate.
CountDownUnsaturated(n) == n - 1

\* One tick off a remaining time (saturating_duration_since).
CountDown(n) == IF n = 0 THEN 0 ELSE n - 1
-----------------------------------------------------------------------------
(* Entries *)

Cooldown ==
  [left : Nat, reason : ErrorType \union {"none"}, failures : Nat,
   probing : BOOLEAN, generation : Nat, probe_generation : Nat,
   requires_probe : BOOLEAN, auth_episode : BOOLEAN,
   transient_cooldowns : Nat, probe_timeouts : Nat]

\* Cooldown::new(reason)
NewCooldown(reason) ==
  [left |-> 0, reason |-> reason, failures |-> 0, probing |-> FALSE,
   generation |-> 0, probe_generation |-> 0, requires_probe |-> FALSE,
   auth_episode |-> FALSE, transient_cooldowns |-> 0, probe_timeouts |-> 0]

\* The map holds no entry for the key: a lookup finds an unlimited one.
NoEntry == NewCooldown("none")

IsLimited(e) == e.requires_probe \/ e.left > 0

NoRun == [failures |-> 0, left |-> 0]

\* What is still counted of the run: nothing once the window has passed.
Failures == IF run.left = 0 THEN 0 ELSE run.failures

\* `elapsed <= window' holds at the event and until window + 1 ticks passed.
Fresh(window) == window + 1

\* auth_cooldown_secs: lenient with a key that worked a moment ago and did
\* not fail that way before.
AuthCooldown ==
  IF history.success > 0 /\ history.auth_error = 0
  THEN FirstAuthCooldown
  ELSE CooldownSecs["auth"]

\* 1u64 << n for n in 0..20
Shift == <<1, 2, 4, 8, 16, 32, 64, 128, 256, 512, 1024, 2048, 4096, 8192,
           16384, 32768, 65536, 131072, 262144, 524288, 1048576>>

\* Exponential delay after the n-th failed probe, under the reason's cap.
ProbeDelay(n, reason) ==
  Smaller(Backoff * Shift[Smaller(n, 21)],
          IF reason \in Fatal THEN MaxBackoff ELSE MaxTransientBackoff)
-----------------------------------------------------------------------------
(* report_error *)

\* Mutant: the last failure sets the deadline.
DeadlineOverwritten(left, secs) == secs

\* until.max(now + seconds): a failure may push the deadline, never pull it.
Deadline(left, secs) == IF left >= secs THEN left ELSE secs

\* Mutant: a throttle shows as the reason of a key that waits for a probe.
OutranksGate(t, reason, gated) ==
  \/ t = "billing"
  \/ reason # "billing" /\ (reason # "auth" \/ t = "auth")

\* Whether failure t takes the recorded reason over: billing always does, auth
\* yields to billing only, and a throttle does not hide a gate.
Outranks(t, reason, gated) ==
  \/ t = "billing"
  \/ /\ reason # "billing"
     /\ reason # "auth" \/ t = "auth"
     /\ ~gated \/ t \notin Throttle

(***************************************************************************)
(* The entry after a failure of type t that earns `secs' of cooldown.  A   *)
(* key that was not limited starts a new cooldown episode; one that was    *)
(* keeps its own, and a weaker failure may not undo a stronger parking.    *)
(***************************************************************************)
Struck(e, t, secs) ==
  LET fresh    == ~IsLimited(e)
      episodes == e.transient_cooldowns + IF fresh /\ t \in Transient THEN 1 ELSE 0
      reason   == IF fresh THEN t ELSE e.reason
      gated    == \/ e.requires_probe
                  \/ t \in Fatal
                  \/ t \in Transient /\ episodes >= 2
  IN  [left |-> Deadline(e.left, secs),
       reason |-> IF Outranks(t, reason, gated) THEN t ELSE reason,
       failures |-> IF fresh THEN 0 ELSE e.failures,
       probing |-> e.probing,
       generation |-> e.generation + 1,
       probe_generation |-> e.probe_generation,
       requires_probe |-> gated,
       auth_episode |-> e.auth_episode \/ t = "auth",
       transient_cooldowns |-> episodes,
       probe_timeouts |-> IF fresh THEN 0 ELSE e.probe_timeouts]

\* report_error's critical section on the cooldown entry.  A second auth
\* error of the running episode only invalidates a probe in flight.
Strike(t) ==
  LET e == IF cooldown = NoEntry THEN NewCooldown(t) ELSE cooldown IN
  IF t = "auth" /\ e.auth_episode
  THEN /\ cooldown' = [e EXCEPT !.generation = @ + 1]
       /\ UNCHANGED history
  ELSE /\ cooldown' =
            Struck(e, t, IF t = "auth" THEN AuthCooldown ELSE CooldownSecs[t])
       /\ history' = IF t = "auth"
                     THEN [history EXCEPT !.auth_error = Fresh(RepeatWindow)]
                     ELSE history

Adverse == trouble > 0 /\ trouble' = trouble - 1

\* A throttle, an auth or a billing refusal parks the key at once, and so
\* does a transient failure under a threshold of one.
ReportError(c, t) ==
  /\ caller[c] = "idle"
  /\ t \in Transient => TransientThreshold = 1
  /\ Adverse
  /\ Strike(t)
  /\ UNCHANGED <<run, caller, probe, token>>

\* First half of a transient report: the run grows, and only the failure
\* that completes it goes on, as a pending strike, to the cooldown entry.
ReportTransient(c, t) ==
  /\ caller[c] = "idle"
  /\ t \in Transient /\ TransientThreshold > 1
  /\ Adverse
  /\ IF Failures + 1 < TransientThreshold
     THEN /\ run' = [failures |-> Failures + 1, left |-> Fresh(TransientWindow)]
          /\ UNCHANGED caller
     ELSE /\ run' = NoRun
          /\ caller' = [caller EXCEPT ![c] = t]
  /\ UNCHANGED <<cooldown, history, probe, token>>

\* Second half, under the other map's lock.
StrikePending(c) ==
  /\ caller[c] \in Transient
  /\ Strike(caller[c])
  /\ caller' = [caller EXCEPT ![c] = "idle"]
  /\ UNCHANGED <<run, probe, token, trouble>>
-----------------------------------------------------------------------------
(* report_success, and report_error of an empty answer: three maps in turn *)

NoteSuccess(c) ==
  /\ caller[c] = "idle"
  /\ history' = [history EXCEPT !.success = Fresh(RecentSuccess)]
  /\ caller' = [caller EXCEPT ![c] = "forget_run"]
  /\ UNCHANGED <<cooldown, run, probe, token, trouble>>

ForgetRun(c) ==
  /\ caller[c] = "forget_run"
  /\ run' = NoRun
  /\ caller' = [caller EXCEPT ![c] = "forget_episodes"]
  /\ UNCHANGED <<cooldown, history, probe, token, trouble>>

ForgetEpisodes(c) ==
  /\ caller[c] = "forget_episodes"
  /\ cooldown' = [cooldown EXCEPT !.transient_cooldowns = 0]
  /\ caller' = [caller EXCEPT ![c] = "idle"]
  /\ UNCHANGED <<run, history, probe, token, trouble>>
-----------------------------------------------------------------------------
(* Probes *)

\* Mutant: only auth and billing are thought to need a probe.
DueFatal ==
  cooldown.reason \in Fatal /\ ~cooldown.probing /\ cooldown.left = 0

\* due_probes lists the key, and begin_probe(force = FALSE) accepts it.
Due == cooldown.requires_probe /\ ~cooldown.probing /\ cooldown.left = 0

\* Mutant: an administrator's probe does not ask whether one is running.
BeginProbeUnchecked(p, force) ==
  /\ probe[p] = "idle"
  /\ IF force THEN Adverse ELSE Due /\ UNCHANGED trouble
  /\ LET e == IF cooldown = NoEntry THEN NewCooldown("error") ELSE cooldown IN
       /\ cooldown' = [e EXCEPT !.probing = TRUE,
                                !.generation = e.generation + 1,
                                !.probe_generation = e.generation + 1]
       /\ token' = [token EXCEPT ![p] = e.generation + 1]
  /\ probe' = [probe EXCEPT ![p] = "calling"]
  /\ UNCHANGED <<run, history, caller>>

BeginProbe(p, force) ==
  /\ probe[p] = "idle"
  /\ IF force THEN ~cooldown.probing /\ Adverse
              ELSE Due /\ UNCHANGED trouble
  /\ LET e == IF cooldown = NoEntry THEN NewCooldown("error") ELSE cooldown IN
       /\ cooldown' = [e EXCEPT !.probing = TRUE,
                                !.generation = e.generation + 1,
                                !.probe_generation = e.generation + 1]
       /\ token' = [token EXCEPT ![p] = e.generation + 1]
  /\ probe' = [probe EXCEPT ![p] = "calling"]
  /\ UNCHANGED <<run, history, caller>>

\* finish_probe returns at once: p's claim is not the entry's.
Disowned(p) == ~(cooldown.probing /\ cooldown.probe_generation = token[p])

\* The entry after the probe failed with r, no newer failure being known.
ProbeFailed(e, r) ==
  LET timeouts == IF r = "timeout" THEN e.probe_timeouts + 1 ELSE 0
      failures == e.failures + 1
      reason   == IF r \in Fatal THEN r ELSE e.reason
      told     == [e EXCEPT !.probing = FALSE, !.probe_timeouts = timeouts,
                            !.auth_episode = @ \/ r = "auth"]
  IN  IF r = "timeout" /\ timeouts < 2
      THEN told   \* one slow probe: retried at the next scan
      ELSE [told EXCEPT !.reason = reason,
                        !.requires_probe = @ \/ r \in Fatal,
                        !.failures = failures,
                        !.left = ProbeDelay(failures, reason)]

Retire(p) ==
  /\ probe' = [probe EXCEPT ![p] = "idle"]
  /\ token' = [token EXCEPT ![p] = 0]

\* finish_probe of a failed call, or the claim's Drop after a cancellation,
\* which reports a timeout.
FinishFailed(p, r) ==
  /\ probe[p] = "calling"
  /\ Adverse
  /\ IF Disowned(p)
     THEN UNCHANGED <<cooldown, history>>
     ELSE IF cooldown.generation # token[p]
     THEN /\ cooldown' = [cooldown EXCEPT !.probing = FALSE]
          /\ UNCHANGED history
     ELSE /\ cooldown' = ProbeFailed(cooldown, r)
          /\ history' = IF r = "auth" /\ ~cooldown.auth_episode
                        THEN [history EXCEPT !.auth_error = Fresh(RepeatWindow)]
                        ELSE history
  /\ Retire(p)
  /\ UNCHANGED <<run, caller>>

\* finish_probe of a call that worked, overtaken by a newer failure.
FinishStale(p) ==
  /\ probe[p] = "calling"
  /\ Disowned(p) \/ cooldown.generation # token[p]
  /\ cooldown' = IF Disowned(p) THEN cooldown
                 ELSE [cooldown EXCEPT !.probing = FALSE]
  /\ Retire(p)
  /\ UNCHANGED <<run, history, caller, trouble>>

\* finish_probe of a call that worked: checked, the entry is dropped ...
FinishWorked(p) ==
  /\ probe[p] = "calling"
  /\ ~Disowned(p) /\ cooldown.generation = token[p]
  /\ probe' = [probe EXCEPT ![p] = "releasing"]
  /\ UNCHANGED <<cooldown, run, history, caller, token, trouble>>

\* Mutant: an unconditional remove.
RemoveAnyEntry(p) ==
  /\ probe[p] = "releasing"
  /\ cooldown' = NoEntry
  /\ probe' = [probe EXCEPT ![p] = "clearing"]
  /\ token' = [token EXCEPT ![p] = 0]
  /\ UNCHANGED <<run, history, caller, trouble>>

\* ... then remove_if takes the lock again ...
RemoveEntry(p) ==
  /\ probe[p] = "releasing"
  /\ cooldown' = IF cooldown.generation = token[p] /\ cooldown.probing
                 THEN NoEntry ELSE cooldown
  /\ probe' = [probe EXCEPT ![p] = "clearing"]
  /\ token' = [token EXCEPT ![p] = 0]
  /\ UNCHANGED <<run, history, caller, trouble>>

\* ... and the run of transient failures is forgotten.
ClearRun(p) ==
  /\ probe[p] = "clearing"
  /\ run' = NoRun
  /\ probe' = [probe EXCEPT ![p] = "idle"]
  /\ UNCHANGED <<cooldown, history, caller, token, trouble>>
-----------------------------------------------------------------------------
(* Time, and the specification *)

Tick ==
  /\ cooldown' = [cooldown EXCEPT !.left = CountDown(@)]
  /\ run' = IF run.left <= 1 THEN NoRun ELSE [run EXCEPT !.left = @ - 1]
  /\ history' = [success    |-> CountDown(history.success),
                 auth_error |-> CountDown(history.auth_error)]
  /\ UNCHANGED <<caller, probe, token, trouble>>

Init ==
  /\ cooldown = NoEntry
  /\ run = NoRun
  /\ history = [success |-> 0, auth_error |-> 0]
  /\ caller = [c \in Caller |-> "idle"]
  /\ probe = [p \in Prober |-> "idle"]
  /\ token = [p \in Prober |-> 0]
  /\ trouble = MaxTrouble

CallerStep(c) ==
  \/ \E t \in ErrorType : ReportError(c, t) \/ ReportTransient(c, t)
  \/ StrikePending(c)
  \/ NoteSuccess(c) \/ ForgetRun(c) \/ ForgetEpisodes(c)

ProberStep(p) ==
  \/ \E force \in BOOLEAN : BeginProbe(p, force)
  \/ \E r \in ErrorType : FinishFailed(p, r)
  \/ FinishStale(p) \/ FinishWorked(p) \/ RemoveEntry(p) \/ ClearRun(p)

Next ==
  \/ \E c \in Caller : CallerStep(c)
  \/ \E p \in Prober : ProberStep(p)
  \/ Tick

Spec == Init /\ [][Next]_vars

(***************************************************************************)
(* Fairness.  Time passes; a report that has begun ends, since it never    *)
(* awaits; a probe has a deadline (PROBE_TIMEOUT_MS), so it ends; and the  *)
(* worker scans for due probes again and again (spawn_worker).  User       *)
(* requests owe nothing.                                                   *)
(***************************************************************************)
ReportGoesOn(c) == StrikePending(c) \/ ForgetRun(c) \/ ForgetEpisodes(c)

ProbeGoesOn(p) ==
  \/ \E r \in ErrorType : FinishFailed(p, r)
  \/ FinishStale(p) \/ FinishWorked(p) \/ RemoveEntry(p) \/ ClearRun(p)

FairSpec ==
  /\ Spec
  /\ WF_vars(Tick)
  /\ \A c \in Caller : WF_vars(ReportGoesOn(c))
  /\ \A p \in Prober : WF_vars(ProbeGoesOn(p))
  /\ WF_vars(\E p \in Prober : BeginProbe(p, FALSE))
-----------------------------------------------------------------------------
(* Properties *)

TypeOK ==
  /\ cooldown \in Cooldown
  /\ run \in [failures : Nat, left : Nat]
  /\ history \in [success : Nat, auth_error : Nat]
  /\ caller \in [Caller -> {"idle", "forget_run", "forget_episodes"}
                            \union Transient]
  /\ probe \in [Prober -> {"idle", "calling", "releasing", "clearing"}]
  /\ token \in [Prober -> Nat]
  /\ trouble \in Nat

\* The prober has claimed the key and not yet given the claim up.
Holds(p) == probe[p] \in {"calling", "releasing"}

\* At most one probe of a key is in flight, whoever asked for it and however
\* user failures come in between: begin_probe is the only exclusion, and the
\* entry it marks may be replaced while others still believe in their token.
OneClaim == \A p, q \in Prober : Holds(p) /\ Holds(q) => p = q

\* A probe in flight still owns the entry when it comes to report: its token
\* is the entry's probe_generation, so finish_probe never discards a verdict
\* and no other probe's claim is released in its place.
ClaimIsCurrent == \A p \in Prober : Holds(p) => ~Disowned(p)

\* The recorded reason and the gate agree: what was parked for auth or
\* billing, and an auth episode that still runs, needs a probe; what shows a
\* throttle as its reason is released by expiry alone.
GateMatchesReason ==
  /\ cooldown.reason \in Fatal => cooldown.requires_probe
  /\ cooldown.auth_episode => cooldown.requires_probe
  /\ cooldown.requires_probe => cooldown.reason \notin Throttle

\* A key that needs a probe is opened by a probe that worked and that no
\* failure has overtaken since it was claimed: not by time, not by a user's
\* success, not by a probe that began before the last failure.
OpenedByProbe ==
  [][cooldown.requires_probe /\ ~cooldown'.requires_probe
       => \E p \in Prober : probe[p] = "releasing"
                           /\ token[p] = cooldown.generation]_vars

\* A failure was reported: the generation moved and no probe did.
FailureReported ==
  cooldown'.generation > cooldown.generation /\ UNCHANGED probe

\* In-flight failures that arrive after the key was parked neither bring its
\* deadline forward, nor open the gate, nor take over a billing reason.
ParkingNotWeakened ==
  [][FailureReported =>
       /\ cooldown'.left >= cooldown.left
       /\ cooldown.requires_probe => cooldown'.requires_probe
       /\ cooldown.reason = "billing" => cooldown'.reason = "billing"]_vars

\* While an auth episode lasts nothing renews the repeat window: neither the
\* other in-flight auth errors nor the probes that fail with one.
EpisodeCountedOnce ==
  [][cooldown.auth_episode /\ cooldown'.auth_episode
       => history'.auth_error <= history.auth_error]_vars

\* The entry is marked as being probed and no probe holds it: begin_probe
\* refuses it and due_probes skips it from now on.
Orphaned == cooldown.probing /\ \A p \in Prober : ~Holds(p)

\* Once failures stop, a key that needs a probe gets one that opens it,
\* unless its claim was orphaned.
GatedKeyReleased ==
  cooldown.requires_probe ~> (~cooldown.requires_probe \/ Orphaned)

\* README: expiry makes a background probe of a gated key due.  A gated key
\* whose entry says `probing' must therefore be under a probe.
GatedKeyProbeable == cooldown.requires_probe => ~Orphaned

-----------------------------------------------------------------------------
(* Refinement: what the rest of the router relies on *)

Gate == IF cooldown.requires_probe THEN "parked"
        ELSE IF cooldown.left > 0 THEN "cooling" ELSE "open"

Claim == IF \E p \in Prober : Holds(p) /\ token[p] = cooldown.generation
         THEN "live"
         ELSE IF \E p \in Prober : Holds(p) THEN "stale" ELSE "none"

Abstract == INSTANCE KeyGate WITH gate <- Gate, claim <- Claim

\* Every behaviour of the entry is one of the gate below: the abstract
\* ProbeWorked is the only step that leaves `parked'.
ImplementsKeyGate == Abstract!Spec
=============================================================================
