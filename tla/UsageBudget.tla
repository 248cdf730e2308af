----------------------------- MODULE UsageBudget -----------------------------
(***************************************************************************)
(* One sliding-window budget of one key: UsageTracker in                   *)
(* crates/core/src/rate_limit.rs, and how searches, content requests and   *)
(* probes use it: look at the headroom, then reserve each call they make.  *)
(*                                                                         *)
(* The windows of a key live in an object behind a map.  get_or_create     *)
(* looks the object up and, in another step, inserts a new one: an insert  *)
(* by somebody who looked too early replaces the object in use.  An object *)
(* is named after who created it, and nobody creates two, since entries    *)
(* are never removed.                                                      *)
(*                                                                         *)
(* Events leave a window as time passes, in any order between objects.     *)
(* The window is the daily one, or, when reports synchronise it, the       *)
(* minute's; nothing below needs to tell them apart.  A limit of None or   *)
(* <= 0 asks for no window and is not modelled; neither is in_flight, a    *)
(* counter that no code reads.                                             *)
(***************************************************************************)
EXTENDS Integers, FiniteSets

CONSTANTS
  User,       \* requests and probes in flight on the key
  Limit,      \* rpd_limit or rpm_limit
  Calls,      \* calls a user may make after one look at the budget
  Rechecks,   \* searches with a paced key: they look at the daily budget before
              \* each call, which content requests and probes never do
  Synced      \* the minute window: POST /report may trim it

None == "none"

ASSUME BudgetAssumption ==
  /\ IsFiniteSet(User) /\ None \notin User
  /\ Limit \in Nat \ {0}
  /\ Calls \in [User -> Nat \ {0}]
  /\ Rechecks \subseteq User /\ Synced \in BOOLEAN

VARIABLES
  entry,    \* the object in the map
  events,   \* what is in the window of each object
  pc, task, \* where a user stands, and what it wants of the object
  ref,      \* the Arc it holds
  calls     \* the calls it may still make

budgetVars == <<entry, events, pc, task, ref, calls>>

BudgetInit ==
  /\ entry = None
  /\ events = [u \in User |-> 0]
  /\ pc = [u \in User |-> "away"]
  /\ task = [u \in User |-> "check"]
  /\ ref = [u \in User |-> None]
  /\ calls = [u \in User |-> 0]

Go(u, where) == pc' = [pc EXCEPT ![u] = where]

\* A request considers the key, or a report about it comes in.
Consider(u) ==
  /\ pc[u] = "away"
  /\ \/ /\ task' = [task EXCEPT ![u] = "check"]
        /\ calls' = [calls EXCEPT ![u] = Calls[u]]
     \/ /\ Synced
        /\ task' = [task EXCEPT ![u] = "sync"]
        /\ UNCHANGED calls
  /\ Go(u, "find")
  /\ UNCHANGED <<entry, events, ref>>

\* The lookup of get_or_create.
Find(u) ==
  /\ pc[u] = "find"
  /\ IF entry = None
     THEN Go(u, "insert") /\ UNCHANGED ref
     ELSE Go(u, "use") /\ ref' = [ref EXCEPT ![u] = entry]
  /\ UNCHANGED <<entry, events, task, calls>>

\* The insert of get_or_create, whatever is there by now.
Insert(u) ==
  /\ pc[u] = "insert"
  /\ entry' = u
  /\ ref' = [ref EXCEPT ![u] = u]
  /\ Go(u, "use")
  /\ UNCHANGED <<events, task, calls>>

Leave(u) ==
  /\ Go(u, "away")
  /\ ref' = [ref EXCEPT ![u] = None]
  /\ task' = [task EXCEPT ![u] = "check"]
  /\ calls' = [calls EXCEPT ![u] = 0]

\* Mutant: a budget that is just used up has room left.
HeadroomOffByOne(u) == events[ref[u]] <= Limit

\* headroom > 0
Headroom(u) == events[ref[u]] < Limit

\* budget_exhausted in the selector and in probe_key, and rpd_headroom
\* before a call with a paced key.
Check(u) ==
  /\ pc[u] = "use" /\ task[u] = "check"
  /\ IF Headroom(u)
     THEN /\ task' = [task EXCEPT ![u] = "reserve"]
          /\ Go(u, "find")
          /\ ref' = [ref EXCEPT ![u] = None]
          /\ UNCHANGED calls
     ELSE Leave(u)
  /\ UNCHANGED <<entry, events>>

\* KeyUsage::record, and the call it stands for.
Record(u) ==
  /\ pc[u] = "use" /\ task[u] = "reserve"
  /\ events' = [events EXCEPT ![ref[u]] = @ + 1]
  /\ calls' = [calls EXCEPT ![u] = @ - 1]
  /\ ref' = [ref EXCEPT ![u] = None]
  /\ Go(u, "calling")
  /\ UNCHANGED <<entry, task>>

Return(u) == pc[u] = "calling" /\ Leave(u) /\ UNCHANGED <<entry, events>>

\* Mutant: a paced key is not looked at again.
CallAgainUnchecked(u) ==
  /\ pc[u] = "calling" /\ calls[u] > 0
  /\ task' = [task EXCEPT ![u] = "reserve"]
  /\ Go(u, "find")
  /\ UNCHANGED <<entry, events, ref, calls>>

\* Mutant: a transient failure is retried for as long as it lasts.
CallAgainForever(u) ==
  /\ pc[u] = "calling"
  /\ task' = [task EXCEPT ![u] = IF u \in Rechecks THEN "check" ELSE "reserve"]
  /\ Go(u, "find")
  /\ UNCHANGED <<entry, events, ref, calls>>

\* The retry of a search, the next batch of a content request.
CallAgain(u) ==
  /\ pc[u] = "calling" /\ calls[u] > 0
  /\ task' = [task EXCEPT ![u] = IF u \in Rechecks THEN "check" ELSE "reserve"]
  /\ Go(u, "find")
  /\ UNCHANGED <<entry, events, ref, calls>>

\* sync_rpm: the provider says how many calls are used.
Sync(u, used) ==
  /\ pc[u] = "use" /\ task[u] = "sync"
  /\ events' = [events EXCEPT ![ref[u]] = IF @ > used THEN used ELSE @]
  /\ Leave(u)
  /\ UNCHANGED entry

\* Mutant: a window that has become empty leaves the map.
ExpireAndEvict(o) ==
  /\ events[o] > 0
  /\ events' = [events EXCEPT ![o] = @ - 1]
  /\ entry' = IF entry = o /\ events[o] = 1 THEN None ELSE entry
  /\ UNCHANGED <<pc, task, ref, calls>>

\* count_within drops what is older than the window.
Expire(o) ==
  /\ events[o] > 0
  /\ events' = [events EXCEPT ![o] = @ - 1]
  /\ UNCHANGED <<entry, pc, task, ref, calls>>

BudgetNext ==
  \E u \in User :
    \/ Consider(u) \/ Find(u) \/ Insert(u) \/ Check(u) \/ Record(u)
    \/ Return(u) \/ CallAgain(u) \/ Expire(u)
    \/ \E used \in 0..Limit : Sync(u, used)

BudgetSpec == BudgetInit /\ [][BudgetNext]_budgetVars
-----------------------------------------------------------------------------
(* Properties. *)

BudgetTypeOK ==
  /\ entry \in User \union {None}
  /\ events \in [User -> Nat]
  /\ pc \in [User -> {"away", "find", "insert", "use", "calling"}]
  /\ task \in [User -> {"check", "reserve", "sync"}]
  /\ ref \in [User -> User \union {None}]
  /\ calls \in [User -> Nat]

\* The calls a user makes after one look at the budget, and those of all users.
Unchecked(u) == IF u \in Rechecks THEN 1 ELSE Calls[u]

AllUnchecked == UNION {{u} \X (1..Unchecked(u)) : u \in User}

\* What the cap is worth, by window object: every user may have seen the last
\* free call, each then makes all the calls it looked at the budget for, and
\* nobody who finds the budget used up adds to that.
OverrunBounded == \A o \in User : events[o] <= Limit - 1 + Cardinality(AllUnchecked)

\* Nobody is about to insert a window, or holds one that is not in the map.
Settled == entry # None /\ \A u \in User : pc[u] # "insert" /\ ref[u] \in {None, entry}

\* Calls are lost to the count only while the first users of the key overlap:
\* once they are through, this cannot come back and no further call goes astray.
LossOnlyAtFirstUse ==
  [][Settled => /\ Settled'
                /\ \A o \in User : events'[o] > events[o] => o = entry]_budgetVars
=============================================================================
