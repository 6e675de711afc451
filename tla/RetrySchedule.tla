---------------------------- MODULE RetrySchedule ----------------------------
(***************************************************************************)
(* When the controller calls the provider again after a failure: the       *)
(* deadlines of domain.rs in milliseconds, and the retry state of one      *)
(* claim and its Host along the paths of controller.rs that set, raise or  *)
(* reset it.  HostController abstracts a deadline to "later"; this module  *)
(* is about how much later.                                                *)
(*                                                                         *)
(* What the provider answers is a free choice: the schedule depends on the *)
(* answers, not on the provider's state.                                   *)
(***************************************************************************)
EXTENDS Integers

CONSTANTS
  MaxMillis,   \* i64::MAX
  MaxAttempt,  \* u32::MAX
  Interval,    \* how far the wall clock moves in one step
  MaxTime,     \* bound: how far the wall clock goes
  None         \* no deadline

\* The counter is wide enough to reach the longest delay.
ASSUME ScheduleAssumption ==
  /\ MaxMillis \in Nat /\ MaxAttempt \in Nat /\ MaxAttempt >= 6
  /\ Interval \in Nat \ {0} /\ MaxTime \in Nat /\ MaxTime <= MaxMillis
  /\ None \notin Int

-----------------------------------------------------------------------------
MinOf(a, b) == IF a <= b THEN a ELSE b

saturating_add(a, b) == MinOf(a + b, MaxMillis)

\* 1 << exponent, for the exponents that attempt.min(6) leaves.
Shifted(exponent) == <<1, 2, 4, 8, 16, 32, 64>>[exponent + 1]

\* Variant: the delay is capped by the exponent alone.
retry_deadline_uncapped(now, attempt) ==
  saturating_add(now, 1000 * Shifted(MinOf(attempt, 6)))

retry_deadline(now, attempt) ==
  saturating_add(now, MinOf(1000 * Shifted(MinOf(attempt, 6)), 60000))

-----------------------------------------------------------------------------
VARIABLES
  now,      \* the wall clock
  started,  \* now_ms, read when the pass began
  call,     \* the provider call under way, or "none"
  stage,    \* the claim has no Host yet, or the phase of its Host
  retry,    \* RetryState of the claim while it has no Host, then of the Host
  streak    \* for checking: the last two waits of each call's run of failures

vars == <<now, started, call, stage, retry, streak>>

Calls  == {"select_plan", "observe", "create", "delete"}
Stages == {"Unbound", "Pending", "Provisioning", "Ready", "Deleting"}

NoRetry  == [attempt |-> 0, next |-> None]
NoStreak == [prev |-> 0, last |-> 0]

is_due(r, time) == r.next # None => r.next <= time

-----------------------------------------------------------------------------
\* The wall clock moves on, while a call is under way too.
Tick ==
  /\ now' = MinOf(now + Interval, MaxTime)
  /\ UNCHANGED <<started, call, stage, retry, streak>>

\* A pass reads the time and comes to this claim.
Begin ==
  /\ call = "none"
  /\ started' = now
  /\ is_due(retry, now)
  /\ call' = IF stage = "Unbound" THEN "select_plan" ELSE "observe"
  /\ UNCHANGED <<now, stage, retry, streak>>

\* The call has not failed: what follows, and the end of its run of failures.
Answered(op, next, nextStage, nextRetry) ==
  /\ call = op
  /\ call' = next /\ stage' = nextStage /\ retry' = nextRetry
  /\ streak' = [streak EXCEPT ![op] = NoStreak]
  /\ UNCHANGED <<now, started>>

\* Variant: the attempts are counted without a limit.
RaisedUnbounded(r) ==
  [attempt |-> r.attempt + 1, next |-> retry_deadline(started, r.attempt + 1)]

\* attempt.saturating_add(1), and the deadline that belongs to it.
Raised(r) ==
  LET attempt == MinOf(r.attempt + 1, MaxAttempt) IN
  [attempt |-> attempt, next |-> retry_deadline(started, attempt)]

\* A transient error.  (A definitive one ends the retrying: see HostController.)
Failed(op) ==
  /\ call = op
  /\ call' = "none" /\ retry' = Raised(retry)
  /\ streak' = [streak EXCEPT ![op] = [prev |-> streak[op].last,
                                       last |-> retry'.next - started]]
  /\ UNCHANGED <<now, started, stage>>

-----------------------------------------------------------------------------
(* reconcile_unbound_claim                                                 *)
PlanSelected == Answered("select_plan", "none", "Pending", NoRetry)
NoPlan       == Answered("select_plan", "none", "Unbound", NoRetry)

(* reconcile_host, reconcile_deleting_claim                                *)
ObservedPresent ==
  \/ /\ stage \notin {"Unbound", "Deleting"}
     /\ Answered("observe", "none", "Ready", NoRetry)
  \/ stage = "Deleting" /\ Answered("observe", "delete", "Deleting", NoRetry)

\* mark_provider_absent, or the create that follows it in a pass of its own.
ObservedAbsent ==
  \/ /\ stage \in {"Provisioning", "Ready"}
     /\ Answered("observe", "none", "Pending", NoRetry)
  \/ stage = "Pending" /\ Answered("observe", "create", "Provisioning", NoRetry)

\* The claim is finalized, one without a Host as soon as its deletion is requested;
\* another one takes its place.
Finalized ==
  /\ \/ call = "observe" /\ stage = "Deleting"
     \/ call = "none" /\ stage = "Unbound"
  /\ call' = "none" /\ stage' = "Unbound" /\ retry' = NoRetry
  /\ streak' = [op \in Calls |-> NoStreak]
  /\ UNCHANGED <<now, started>>

Created == Answered("create", "none", "Ready", NoRetry)
Deleted == Answered("delete", "none", "Deleting", NoRetry)

\* mark_outcome_unknown, and its counterpart for a delete: a second later.
CreateOutcomeUnknown ==
  Answered("create", "none", "Provisioning",
           [attempt |-> MinOf(retry.attempt + 1, MaxAttempt),
            next |-> saturating_add(started, 1000)])
DeleteOutcomeUnknown ==
  Answered("delete", "none", "Deleting",
           [retry EXCEPT !.next = saturating_add(started, 1000)])

\* Variant: the request clears the retry state of the Host as well.
DeletionRequestedResetting ==
  /\ call = "none" /\ stage \notin {"Unbound", "Deleting"}
  /\ stage' = "Deleting" /\ retry' = NoRetry
  /\ UNCHANGED <<now, started, call, streak>>

\* mark_claim_deleting: the Host keeps its retry state.  A request that comes during
\* a call changes nothing that the rest of the pass saves to the Host: it is as if it
\* came after it.
DeletionRequested ==
  /\ call = "none" /\ stage \notin {"Unbound", "Deleting"}
  /\ stage' = "Deleting"
  /\ UNCHANGED <<now, started, call, retry, streak>>

-----------------------------------------------------------------------------
Init ==
  /\ now = 0 /\ started = 0 /\ call = "none" /\ stage = "Unbound"
  /\ retry = NoRetry /\ streak = [op \in Calls |-> NoStreak]

Next ==
  \/ Tick \/ Begin \/ DeletionRequested
  \/ PlanSelected \/ NoPlan \/ ObservedPresent \/ ObservedAbsent \/ Finalized
  \/ Created \/ CreateOutcomeUnknown \/ Deleted \/ DeleteOutcomeUnknown
  \/ \E op \in Calls : Failed(op)

Spec == Init /\ [][Next]_vars

-----------------------------------------------------------------------------
\* TypeOK: the state keeps its types; the clock stays within i64 and the attempt
\* counter within u32, however often a call fails.
TypeOK ==
  /\ now \in 0..MaxTime /\ started \in 0..MaxTime
  /\ call \in Calls \cup {"none"} /\ stage \in Stages
  /\ retry \in [attempt : 0..MaxAttempt, next : Nat \cup {None}]
  /\ streak \in [Calls -> [prev : Int, last : Int]]

\* RetryInWindow: a call that failed, or whose outcome is unknown, is repeated no
\* sooner than a second and no later than a minute after its pass began, however
\* often it has failed before; in the last minute of i64 it waits for the end of it.
RetryInWindow ==
  call = "none" /\ retry.next # None =>
    \/ retry.next \in (started + 1000)..(started + 60000)
    \/ retry.next = MaxMillis /\ MaxMillis < started + 60000

\* The waits of a run of failures double until they reach a minute, or time ends.
Doubling(op) ==
  streak[op].prev > 0 =>
    streak[op].last = MinOf(2 * streak[op].prev, 60000) \/ retry.next = MaxMillis

\* LookupsBackOff: while select_plan or observe keeps failing, the waits between the
\* calls double up to the limit: no other step of the controller, and no deletion
\* request, resets the counter in between.
LookupsBackOff == Doubling("select_plan") /\ Doubling("observe")

\* MutationsBackOff: create and delete, when they keep failing, are not repeated at a
\* fixed interval.
MutationsBackOff ==
  \A op \in {"create", "delete"} :
    0 < streak[op].prev /\ streak[op].prev < 60000
      => streak[op].last > streak[op].prev
=============================================================================
