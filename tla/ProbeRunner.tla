------------------------------ MODULE ProbeRunner ------------------------------
(***************************************************************************)
(* ProbeRunner (probes.rs) with Executor::probe_key: the worker that        *)
(* probes the keys that are due, round after round, and the administrators *)
(* who probe a key by hand, over one semaphore of probe_concurrency         *)
(* permits and the mirror of the catalog.                                   *)
(*                                                                         *)
(* KeyHealth looks at the entry of one key closely; here each key has what *)
(* the runner sees of its entry, and it is a theorem of the runs that every *)
(* key still keeps the promise of KeyGate.                                  *)
(***************************************************************************)
EXTENDS Integers, FiniteSets

CONSTANTS
  Key,          \* the keys of the catalog
  Task,         \* the tasks of a round, PROBE_CONCURRENCY of them
  Manual,       \* POST /admin/keys/:id/probe requests
  Adapterless,  \* keys whose provider has no search adapter
  Unresolved,   \* keys whose credential cannot be found
  Status, Body, \* HTTP answers tried, and the phrases their bodies may match
  MaxEvents,    \* bound on failures of user traffic, admin edits and requests
  None          \* no key

ASSUME ProbeAssumption ==
  /\ IsFiniteSet(Task) /\ Task # {} /\ IsFiniteSet(Manual)
  /\ Task \intersect Manual = {}
  /\ Adapterless \subseteq Key /\ Unresolved \subseteq Key /\ None \notin Key
  /\ MaxEvents \in Nat

VARIABLES
  entry,    \* key -> what the runner sees of its Cooldown
  active,   \* the keys the mirror lists as candidates
  permits,  \* permits left in the semaphore
  pc,       \* prober -> what it does next
  target,   \* prober -> the key it probes
  verdict,  \* prober -> the outcome it will report
  round,    \* "asleep", or "listed" while the worker goes through `pending'
  pending,  \* due keys of the round not spawned yet
  events    \* what has disturbed the runner so far

vars == <<entry, active, permits, pc, target, verdict, round, pending, events>>

Prober == Task \union Manual
Concurrency == Cardinality(Task)
-----------------------------------------------------------------------------
(* Classification of what the provider answered *)

\* ProviderError::error_type for an HTTP status and the phrases in its body;
\* the order of the tests matters, since a body may match several.
HttpReason(status, body) ==
  IF status \in {402, 433} \/ (status \in {400, 403} /\ "billing" \in body)
    THEN "billing"
  ELSE IF status \in {401, 403} \/ (status = 400 /\ "credential" \in body)
    THEN "auth"
  ELSE IF status = 422 \/ (status = 400 /\ "invalid" \in body)
    THEN "request"
  ELSE IF status = 429 THEN "rpm"
  ELSE IF status \in {408, 504} THEN "timeout"
  ELSE "error"

\* What a probe ends with: an answer, an empty one included, is a success, and
\* an error that is no HTTP status is Timeout, RateLimit, Blocked or another.
Verdicts == {"worked", "timeout", "rpm", "auth", "error"}
              \union {HttpReason(s, b) : s \in Status, b \in SUBSET Body}
-----------------------------------------------------------------------------
(* The entry of a key *)

Open == [gate |-> "open", due |-> FALSE, probing |-> FALSE, overtaken |-> FALSE]

\* RateLimitState::due_probes.
Due(k) == entry[k].gate = "parked" /\ entry[k].due /\ ~entry[k].probing

\* Probers between begin_probe and the end of finish_probe.
Claimants == {p \in Prober : pc[p] \in {"look_up", "calling", "finish", "remove"}}
Holders   == Claimants \union {p \in Prober : pc[p] = "begin"}

Event == events < MaxEvents /\ events' = events + 1

Init ==
  /\ entry = [k \in Key |-> Open]
  /\ active = Key
  /\ permits = Concurrency
  /\ pc = [p \in Prober |-> "idle"]
  /\ target = [p \in Prober |-> None]
  /\ verdict = [p \in Prober |-> "worked"]
  /\ round = "asleep" /\ pending = {}
  /\ events = 0

\* User traffic reports a failure: the key cools down or is parked, its deadline
\* is ahead, unless the failure is one more of an auth episode and leaves it, and
\* a probe in flight is overtaken.
Failure(k) ==
  /\ Event
  /\ \E g \in IF entry[k].gate = "parked" THEN {"parked"} ELSE {"cooling", "parked"},
        due \in {FALSE, entry[k].due} :
       entry' = [entry EXCEPT ![k].gate = g, ![k].due = due,
                              ![k].overtaken = entry[k].probing]
  /\ UNCHANGED <<active, permits, pc, target, verdict, round, pending>>

\* The deadline of an entry passes: a cooldown is over, a parked key is due.
Elapse(k) ==
  /\ \/ entry[k].gate = "cooling" /\ entry' = [entry EXCEPT ![k].gate = "open"]
     \/ entry[k].gate = "parked" /\ ~entry[k].due
        /\ entry' = [entry EXCEPT ![k].due = TRUE]
  /\ UNCHANGED <<active, permits, pc, target, verdict, round, pending, events>>

\* An administrator deactivates a key or its provider, or activates it again.
Toggle(k) ==
  /\ Event
  /\ active' = IF k \in active THEN active \ {k} ELSE active \union {k}
  /\ UNCHANGED <<entry, permits, pc, target, verdict, round, pending>>
-----------------------------------------------------------------------------
(* ProbeRunner::run *)

Goto(p, l) == pc' = [pc EXCEPT ![p] = l] /\ UNCHANGED <<target, verdict>>

Report(p, v) ==
  pc' = [pc EXCEPT ![p] = "finish"] /\ verdict' = [verdict EXCEPT ![p] = v]
  /\ UNCHANGED target

\* run takes up a key, and returns: its locals are gone.
Enter(p, k) ==
  pc' = [pc EXCEPT ![p] = "check"] /\ target' = [target EXCEPT ![p] = k]
  /\ UNCHANGED verdict

Leave(p) ==
  /\ pc' = [pc EXCEPT ![p] = "idle"]
  /\ target' = [target EXCEPT ![p] = None]
  /\ verdict' = [verdict EXCEPT ![p] = "worked"]

\* POST /admin/keys/:id/probe: run with force.
Request(p, k) ==
  /\ p \in Manual /\ pc[p] = "idle" /\ Event
  /\ Enter(p, k)
  /\ UNCHANGED <<entry, active, permits, round, pending>>

\* Mutant: the refusal gives back a permit it never took.
CheckInactiveRelease(p) ==
  /\ pc[p] = "check" /\ target[p] \notin active
  /\ Leave(p)
  /\ permits' = permits + 1
  /\ UNCHANGED <<entry, active, round, pending, events>>

\* Mutant: the worker gives up its round with the first key that is refused.
CheckInactiveAbort(p) ==
  /\ pc[p] = "check" /\ target[p] \notin active
  /\ Leave(p)
  /\ pending' = {}
  /\ UNCHANGED <<entry, active, permits, round, events>>

\* The key is not among the candidates: not found.
CheckInactive(p) ==
  /\ pc[p] = "check" /\ target[p] \notin active
  /\ Leave(p)
  /\ UNCHANGED <<entry, active, permits, round, pending, events>>

CheckActive(p) ==
  /\ pc[p] = "check" /\ target[p] \in active
  /\ Goto(p, "permit")
  /\ UNCHANGED <<entry, active, permits, round, pending, events>>

\* try_acquire_owned: a prober never waits for a permit.
TakePermit(p) ==
  /\ pc[p] = "permit"
  /\ IF permits = 0 THEN Leave(p) /\ UNCHANGED permits
     ELSE Goto(p, "begin") /\ permits' = permits - 1
  /\ UNCHANGED <<entry, active, round, pending, events>>

\* Whether begin_probe lets p have the claim: the worker needs a key that is
\* due, an administrator any key that nobody probes.
MayBegin(p, k) == IF p \in Manual THEN ~entry[k].probing ELSE Due(k)

BeginProbe(p) ==
  /\ pc[p] = "begin" /\ MayBegin(p, target[p])
  /\ entry' = [entry EXCEPT ![target[p]].probing = TRUE, ![target[p]].overtaken = FALSE]
  /\ Goto(p, "look_up")
  /\ UNCHANGED <<active, permits, round, pending, events>>

\* Mutant: the key is busy and the permit is not given back.
BeginBusyKeep(p) ==
  /\ pc[p] = "begin" /\ ~MayBegin(p, target[p])
  /\ Leave(p)
  /\ UNCHANGED <<entry, active, permits, round, pending, events>>

BeginBusy(p) ==
  /\ pc[p] = "begin" /\ ~MayBegin(p, target[p])
  /\ permits' = permits + 1
  /\ Leave(p)
  /\ UNCHANGED <<entry, active, round, pending, events>>

\* probe_key looks the candidate up a second time; a key that is gone by now or
\* has no credential is Blocked, one without an adapter a Parse error, and one
\* whose budget is used up a RateLimit, all without a call.
LookUp(p) ==
  /\ pc[p] = "look_up"
  /\ LET k == target[p] IN
       IF k \notin active THEN Report(p, "auth")
       ELSE IF k \in Adapterless THEN Report(p, "error")
       ELSE IF k \in Unresolved THEN Report(p, "auth")
       ELSE \/ Report(p, "rpm")
            \/ Goto(p, "calling")
  /\ UNCHANGED <<entry, active, permits, round, pending, events>>

\* The provider answers, or probe_timeout_ms is over.
Return(p) ==
  /\ pc[p] = "calling"
  /\ \E v \in Verdicts : Report(p, v)
  /\ UNCHANGED <<entry, active, permits, round, pending, events>>

\* The administrator goes away while the handler waits for the mirror or the
\* provider: Claim::drop reports a timeout, and the permit is given back.
Cancel(p) ==
  /\ p \in Manual
  /\ \/ pc[p] = "check" /\ Leave(p)
     \/ pc[p] \in {"look_up", "calling"} /\ Report(p, "timeout")
  /\ UNCHANGED <<entry, active, permits, round, pending, events>>
-----------------------------------------------------------------------------
(* RateLimitState::finish_probe and the end of run *)

\* The claim is given up, then the permit.
Retire(p) == Leave(p) /\ permits' = permits + 1

\* Mutant: the verdict of a probe counts although a failure overtook it.
FinishOvertakenCounts(p) ==
  /\ pc[p] = "finish" /\ entry[target[p]].overtaken
  /\ IF verdict[p] = "worked"
     THEN entry' = [entry EXCEPT ![target[p]] = Open]
     ELSE entry' = [entry EXCEPT ![target[p]].probing = FALSE]
  /\ Retire(p)
  /\ UNCHANGED <<active, round, pending, events>>

\* A failure of user traffic came after the claim: it keeps its deadline.
FinishOvertaken(p) ==
  /\ pc[p] = "finish" /\ entry[target[p]].overtaken
  /\ entry' = [entry EXCEPT ![target[p]].probing = FALSE]
  /\ Retire(p)
  /\ UNCHANGED <<active, round, pending, events>>

\* A refused credential or bill parks the key; any other failure leaves it as
\* closed as it was or cools it down.
Closed(k, v) ==
  IF v \in {"auth", "billing"} THEN "parked"
  ELSE IF entry[k].gate = "open" THEN "cooling" ELSE entry[k].gate

\* A failed probe backs off; a timeout may be the first in a row, which is
\* forgiven (KeyHealth keeps the streak).
FinishFailed(p) ==
  /\ pc[p] = "finish" /\ ~entry[target[p]].overtaken /\ verdict[p] # "worked"
  /\ LET k == target[p] IN
       \/ entry' = [entry EXCEPT ![k].gate = Closed(k, verdict[p]), ![k].due = FALSE,
                                 ![k].probing = FALSE]
       \/ verdict[p] = "timeout" /\ entry' = [entry EXCEPT ![k].probing = FALSE]
  /\ Retire(p)
  /\ UNCHANGED <<active, round, pending, events>>

\* The probe worked: the entry is unlocked before it is removed.
FinishWorked(p) ==
  /\ pc[p] = "finish" /\ ~entry[target[p]].overtaken /\ verdict[p] = "worked"
  /\ Goto(p, "remove")
  /\ UNCHANGED <<entry, active, permits, round, pending, events>>

\* remove_if: an entry a failure has overtaken stays, `probing' included.
Remove(p) ==
  /\ pc[p] = "remove"
  /\ entry' = IF entry[target[p]].overtaken THEN entry
              ELSE [entry EXCEPT ![target[p]] = Open]
  /\ Retire(p)
  /\ UNCHANGED <<active, round, pending, events>>

Step(p) ==
  \/ CheckInactive(p) \/ CheckActive(p) \/ TakePermit(p)
  \/ BeginProbe(p) \/ BeginBusy(p) \/ LookUp(p) \/ Return(p)
  \/ FinishOvertaken(p) \/ FinishFailed(p) \/ FinishWorked(p) \/ Remove(p)
-----------------------------------------------------------------------------
(* The worker *)

\* A tick of the interval: run_due lists the keys that are due.
Round ==
  /\ round = "asleep" /\ round' = "listed"
  /\ pending' = {k \in Key : Due(k)}
  /\ UNCHANGED <<entry, active, permits, pc, target, verdict, events>>

\* The next key of the list gets a task as soon as fewer than
\* probe_concurrency are under way.
Spawn(p, k) ==
  /\ round = "listed" /\ k \in pending /\ p \in Task /\ pc[p] = "idle"
  /\ pending' = pending \ {k}
  /\ Enter(p, k)
  /\ UNCHANGED <<entry, active, permits, round, events>>

\* All tasks of the round are joined.
Join ==
  /\ round = "listed" /\ pending = {} /\ \A p \in Task : pc[p] = "idle"
  /\ round' = "asleep"
  /\ UNCHANGED <<entry, active, permits, pc, target, verdict, pending, events>>

Worker == Round \/ (\E p \in Task, k \in Key : Spawn(p, k)) \/ Join

Next ==
  \/ \E k \in Key : Failure(k) \/ Elapse(k) \/ Toggle(k)
  \/ \E p \in Manual : Cancel(p) \/ \E k \in Key : Request(p, k)
  \/ \E p \in Prober : Step(p)
  \/ Worker

Spec == Init /\ [][Next]_vars

\* Tokio runs every task that can go on, a call ends by its timeout, the
\* interval ticks and deadlines pass.
FairSpec ==
  /\ Spec
  /\ WF_vars(Worker)
  /\ \A p \in Prober : WF_vars(Step(p))
  /\ \A k \in Key : WF_vars(Elapse(k))
-----------------------------------------------------------------------------
(* Properties *)

TypeOK ==
  /\ entry \in [Key -> [gate : {"open", "cooling", "parked"}, due : BOOLEAN,
                        probing : BOOLEAN, overtaken : BOOLEAN]]
  /\ active \subseteq Key
  /\ permits \in 0..Concurrency
  /\ pc \in [Prober -> {"idle", "check", "permit", "begin", "look_up", "calling",
                        "finish", "remove"}]
  /\ target \in [Prober -> Key \union {None}]
  /\ \A p \in Prober : pc[p] # "idle" => target[p] \in Key
  /\ verdict \in [Prober -> Verdicts]
  /\ round \in {"asleep", "listed"} /\ pending \subseteq Key
  /\ events \in Nat

\* The entry says `probing' and nobody probes: what KeyHealth found, a failure
\* between the check of the generation and remove_if, here among many keys.
Orphaned(k) == entry[k].probing /\ \A p \in Claimants : target[p] # k

\* Whatever is refused, cancelled, overtaken or deactivated, every permit is in
\* the semaphore or with a prober at work, no two probers have one key, and who
\* has a key is the reason that it says `probing'.
ProbesAccounted ==
  /\ permits + Cardinality(Holders) = Concurrency
  /\ \A p, q \in Claimants : target[p] = target[q] => p = q
  /\ \A p \in Claimants : entry[target[p]].probing

\* A key that is due and active is claimed, deactivated or closed anew: keys
\* that are due for ever because they are inactive, probes by hand and lost
\* claims of other keys do not keep it from its probe.
DueKeyProbed ==
  \A k \in Key : (Due(k) /\ k \in active) ~> (~Due(k) \/ k \notin active)

Claim(k) ==
  IF \A p \in Claimants : target[p] # k THEN "none"
  ELSE IF entry[k].overtaken THEN "stale" ELSE "live"

Gate(k) == INSTANCE KeyGate WITH gate <- entry[k].gate, claim <- Claim(k)

\* Each key behaves as KeyGate promises while the others go their way.
KeysAreGates ==
  /\ \A k \in Key : Gate(k)!Init
  /\ [][\A k \in Key : [Gate(k)!Next]_(Gate(k)!vars)]_vars
=============================================================================
