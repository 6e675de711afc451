------------------------- MODULE RetryScheduleProofs -------------------------
(***************************************************************************)
(* Proofs about RetrySchedule for every clock, counter and interval.       *)
(***************************************************************************)
EXTENDS RetrySchedule, TLAPS

\* The delay of the given attempt.
Wait(attempt) == MinOf(1000 * Shifted(MinOf(attempt, 6)), 60000)

Lookups == {"select_plan", "observe"}

\* The calls a stage can be in.
CallFitsStage ==
  /\ call = "select_plan" => stage = "Unbound"
  /\ call \in {"observe", "create", "delete"} => stage # "Unbound"

\* A pass begins with a lookup, when the deadline has been reached.
LookupIsDue == call \in Lookups => is_due(retry, started)

\* While a lookup keeps failing, counter and deadline stand where its last failure left
\* them.
CounterKept(op) ==
  streak[op].last > 0 \/ streak[op].prev > 0 =>
    /\ call \in {"none", op}
    /\ op = "select_plan" <=> stage = "Unbound"
    /\ retry.attempt >= 1
    /\ streak[op].last = Wait(retry.attempt) \/ retry.next = MaxMillis

BackOff ==
  /\ CallFitsStage /\ LookupIsDue
  /\ \A op \in Lookups : CounterKept(op) /\ Doubling(op)

-----------------------------------------------------------------------------
LEMMA Delays ==
  /\ Wait(1) = 2000 /\ Wait(2) = 4000 /\ Wait(3) = 8000 /\ Wait(4) = 16000
  /\ Wait(5) = 32000
  /\ \A a \in Nat : a >= 6 => Wait(a) = 60000
  /\ Wait(0) = 1000
  BY DEF Wait, Shifted, MinOf

\* A wait is between a second and a minute, and the next one is twice as long.
LEMMA WaitBounds ==
  ASSUME NEW a \in Nat
  PROVE  /\ Wait(a) \in Nat /\ 1000 <= Wait(a) /\ Wait(a) <= 60000
         /\ a >= 1 => Wait(a + 1) = MinOf(2 * Wait(a), 60000)
<1>1. CASE a = 0
  BY <1>1, Delays
<1>2. CASE a \in {1, 2, 3, 4}
  <2>1. \/ Wait(a) = 2000 /\ Wait(a + 1) = 4000
        \/ Wait(a) = 4000 /\ Wait(a + 1) = 8000
        \/ Wait(a) = 8000 /\ Wait(a + 1) = 16000
        \/ Wait(a) = 16000 /\ Wait(a + 1) = 32000
    BY <1>2, Delays
  <2> QED  BY <2>1 DEF MinOf
<1>3. CASE a = 5
  <2>1. Wait(a) = 32000 /\ Wait(a + 1) = 60000
    BY <1>3, Delays
  <2> QED  BY <2>1 DEF MinOf
<1>4. CASE a >= 6
  <2>1. Wait(a) = 60000 /\ Wait(a + 1) = 60000
    BY <1>4, Delays
  <2> QED  BY <2>1 DEF MinOf
<1> QED  BY <1>1, <1>2, <1>3, <1>4

\* The deadline is that much later, unless the clock would overflow.
LEMMA DeadlineIsWait ==
  ASSUME NEW t \in Nat, NEW a \in Nat
  PROVE  retry_deadline(t, a) = saturating_add(t, Wait(a))
  BY DEF retry_deadline, Wait

LEMMA RaisedRetry ==
  ASSUME TypeOK
  PROVE  /\ Raised(retry) \in [attempt : 0..MaxAttempt, next : Nat \cup {None}]
         /\ Raised(retry).attempt >= 1 /\ Raised(retry).next # None
         /\ Raised(retry).attempt = MinOf(retry.attempt + 1, MaxAttempt)
         /\ Raised(retry).next = saturating_add(started, Wait(Raised(retry).attempt))
         /\ \/ Raised(retry).next \in (started + 1000)..(started + 60000)
            \/ Raised(retry).next = MaxMillis /\ MaxMillis < started + 60000
<1> DEFINE a == MinOf(retry.attempt + 1, MaxAttempt)
<1>1. retry.attempt \in 0..MaxAttempt /\ started \in Nat
  BY ScheduleAssumption DEF TypeOK
<1>2. a \in 1..MaxAttempt
  BY <1>1, ScheduleAssumption DEF MinOf
<1> HIDE DEF a
<1>3. Raised(retry) = [attempt |-> a, next |-> saturating_add(started, Wait(a))]
  <2>1. retry_deadline(started, a) = saturating_add(started, Wait(a))
    BY <1>1, <1>2, DeadlineIsWait
  <2>2. Raised(retry) = [attempt |-> a, next |-> retry_deadline(started, a)]
    BY DEF Raised, a
  <2> QED  BY <2>1, <2>2
<1>4. Wait(a) \in Nat /\ 1000 <= Wait(a) /\ Wait(a) <= 60000
  BY <1>2, WaitBounds
<1>5. ASSUME NEW w \in Nat, 1000 <= w, w <= 60000
      PROVE  /\ saturating_add(started, w) \in Nat
             /\ \/ saturating_add(started, w) \in (started + 1000)..(started + 60000)
                \/ saturating_add(started, w) = MaxMillis /\ MaxMillis < started + 60000
  BY <1>1, <1>5, ScheduleAssumption DEF saturating_add, MinOf
<1>6. None \notin Nat
  BY ScheduleAssumption
<1>7. /\ saturating_add(started, Wait(a)) \in Nat
      /\ \/ saturating_add(started, Wait(a)) \in (started + 1000)..(started + 60000)
         \/ saturating_add(started, Wait(a)) = MaxMillis /\ MaxMillis < started + 60000
  BY <1>4, <1>5
<1>8. Raised(retry).attempt = a /\ Raised(retry).next = saturating_add(started, Wait(a))
  BY <1>3
<1> QED  BY <1>2, <1>3, <1>6, <1>7, <1>8 DEF a

-----------------------------------------------------------------------------
\* Outcomes of a call: a new retry state within the window, or none.
Fits(r) ==
  /\ r \in [attempt : 0..MaxAttempt, next : Nat \cup {None}]
  /\ r.next # None => \/ r.next \in (started + 1000)..(started + 60000)
                      \/ r.next = MaxMillis /\ MaxMillis < started + 60000

LEMMA NoRetryFits == Fits(NoRetry)
  BY ScheduleAssumption DEF Fits, NoRetry

\* The deadline of a call whose outcome is unknown.
LEMMA SecondLater ==
  ASSUME TypeOK, NEW attempt \in 0..MaxAttempt
  PROVE  Fits([attempt |-> attempt, next |-> saturating_add(started, 1000)])
<1>1. /\ saturating_add(started, 1000) \in Nat
      /\ \/ saturating_add(started, 1000) \in (started + 1000)..(started + 60000)
         \/ saturating_add(started, 1000) = MaxMillis /\ MaxMillis < started + 60000
  BY ScheduleAssumption DEF TypeOK, saturating_add, MinOf
<1> QED  BY <1>1 DEF Fits

LEMMA AnswerTypes ==
  ASSUME TypeOK, NEW op \in Calls, NEW next \in Calls \cup {"none"},
         NEW nextStage \in Stages, NEW r, Fits(r), Answered(op, next, nextStage, r)
  PROVE  TypeOK' /\ RetryInWindow'
<1>1. TypeOK'
  BY DEF TypeOK, Answered, Fits, NoStreak
<1>2. RetryInWindow'
  BY DEF RetryInWindow, Answered, Fits
<1> QED  BY <1>1, <1>2

LEMMA NextWindow == TypeOK /\ RetryInWindow /\ [Next]_vars => TypeOK' /\ RetryInWindow'
<1> SUFFICES ASSUME TypeOK, RetryInWindow, [Next]_vars PROVE TypeOK' /\ RetryInWindow'
  OBVIOUS
<1> USE DEF Calls, Stages
<1>1. CASE Tick
  <2>1. now' \in 0..MaxTime
    BY <1>1, ScheduleAssumption DEF Tick, TypeOK, MinOf
  <2> QED  BY <1>1, <2>1 DEF Tick, TypeOK, RetryInWindow
<1>2. CASE Begin
  BY <1>2 DEF Begin, TypeOK, RetryInWindow
<1>3. CASE DeletionRequested
  BY <1>3 DEF DeletionRequested, TypeOK, RetryInWindow
<1>4. CASE PlanSelected \/ NoPlan
  BY <1>4, NoRetryFits, AnswerTypes DEF PlanSelected, NoPlan
<1>5. CASE ObservedPresent
  BY <1>5, NoRetryFits, AnswerTypes DEF ObservedPresent
<1>6. CASE ObservedAbsent
  BY <1>6, NoRetryFits, AnswerTypes DEF ObservedAbsent
<1>7. CASE Finalized
  BY <1>7, NoRetryFits DEF Finalized, TypeOK, RetryInWindow, Fits, NoRetry, NoStreak
<1>8. CASE Created \/ Deleted
  BY <1>8, NoRetryFits, AnswerTypes DEF Created, Deleted
<1>9. CASE CreateOutcomeUnknown
  <2>1. MinOf(retry.attempt + 1, MaxAttempt) \in 0..MaxAttempt
    BY ScheduleAssumption DEF TypeOK, MinOf
  <2> QED  BY <1>9, <2>1, SecondLater, AnswerTypes DEF CreateOutcomeUnknown
<1>10. CASE DeleteOutcomeUnknown
  <2>1. /\ retry.attempt \in 0..MaxAttempt
        /\ [retry EXCEPT !.next = saturating_add(started, 1000)]
             = [attempt |-> retry.attempt, next |-> saturating_add(started, 1000)]
    BY DEF TypeOK
  <2> QED  BY <1>10, <2>1, SecondLater, AnswerTypes DEF DeleteOutcomeUnknown
<1>11. ASSUME NEW op \in Calls, Failed(op) PROVE TypeOK' /\ RetryInWindow'
  <2>1. Fits(Raised(retry)) /\ Raised(retry).next \in Nat
    BY RaisedRetry DEF Fits
  <2>2. streak' \in [Calls -> [prev : Int, last : Int]]
    BY <1>11, <2>1 DEF Failed, TypeOK
  <2>3. TypeOK'
    BY <1>11, <2>1, <2>2 DEF Failed, TypeOK, Fits
  <2>4. RetryInWindow'
    BY <1>11, <2>1 DEF Failed, RetryInWindow, Fits
  <2> QED  BY <2>3, <2>4
<1>12. CASE UNCHANGED vars
  BY <1>12 DEF vars, TypeOK, RetryInWindow
<1> QED
  BY <1>1, <1>2, <1>3, <1>4, <1>5, <1>6, <1>7, <1>8, <1>9, <1>10, <1>11, <1>12 DEF Next

\* The next attempt waits twice as long, up to the limit, unless time ends.
LEMMA NextWait ==
  ASSUME TypeOK
  PROVE  LET a == Raised(retry).attempt IN
         /\ \/ Raised(retry).next - started = Wait(a)
            \/ Raised(retry).next = MaxMillis
         /\ retry.attempt >= 1 => Wait(a) = MinOf(2 * Wait(retry.attempt), 60000)
<1>1. /\ retry.attempt \in 0..MaxAttempt /\ started \in 0..MaxTime
      /\ MaxAttempt \in Nat /\ MaxTime \in Nat /\ MaxMillis \in Nat
  BY ScheduleAssumption DEF TypeOK
<1> DEFINE a == Raised(retry).attempt
<1>2. /\ a = MinOf(retry.attempt + 1, MaxAttempt) /\ a \in Nat
      /\ Raised(retry).next = saturating_add(started, Wait(a))
  BY RaisedRetry, <1>1
<1> HIDE DEF a
<1>3. Wait(a) \in Nat
  BY <1>2, WaitBounds
<1>4. \/ saturating_add(started, Wait(a)) = started + Wait(a)
      \/ saturating_add(started, Wait(a)) = MaxMillis
  BY <1>1, <1>3 DEF saturating_add, MinOf
<1>5. \/ Raised(retry).next - started = Wait(a)
      \/ Raised(retry).next = MaxMillis
  BY <1>1, <1>2, <1>3, <1>4
<1>6. ASSUME retry.attempt >= 1 PROVE Wait(a) = MinOf(2 * Wait(retry.attempt), 60000)
  <2>1. CASE retry.attempt < MaxAttempt
    <3>1. a = retry.attempt + 1
      BY <1>1, <1>2, <2>1 DEF MinOf
    <3> QED  BY <1>1, <1>6, <3>1, WaitBounds
  <2>2. CASE retry.attempt = MaxAttempt
    <3>1. a = MaxAttempt
      BY <1>1, <1>2, <2>2 DEF MinOf
    <3>2. Wait(a) = 60000 /\ Wait(retry.attempt) = 60000
      BY <1>1, <2>2, <3>1, Delays, ScheduleAssumption
    <3> QED  BY <3>2 DEF MinOf
  <2> QED  BY <1>1, <2>1, <2>2
<1> QED  BY <1>5, <1>6 DEF a

\* A lookup whose deadline was the end of time has it again.
LEMMA StaysAtEnd ==
  ASSUME TypeOK, is_due(retry, started), retry.next = MaxMillis
  PROVE  Raised(retry).next = MaxMillis
<1>1. started = MaxMillis /\ MaxMillis \in Nat
  BY ScheduleAssumption DEF TypeOK, is_due
<1> DEFINE a == Raised(retry).attempt
<1>2. a \in Nat /\ Raised(retry).next = saturating_add(started, Wait(a))
  BY RaisedRetry, ScheduleAssumption
<1> HIDE DEF a
<1>3. Wait(a) \in Nat
  BY <1>2, WaitBounds
<1> QED  BY <1>1, <1>2, <1>3 DEF saturating_add, MinOf

LEMMA AnswerBackOff ==
  ASSUME TypeOK, BackOff, NEW op \in Calls, NEW next, NEW nextStage, NEW r,
         Answered(op, next, nextStage, r),
         next = "none" \/ (next \in {"create", "delete"} /\ nextStage # "Unbound")
  PROVE  BackOff'
<1>1. CallFitsStage' /\ LookupIsDue'
  BY DEF CallFitsStage, LookupIsDue, Lookups, Answered
<1>2. ASSUME NEW l \in Lookups PROVE CounterKept(l)' /\ Doubling(l)'
  <2>1. CASE l = op
    BY <2>1 DEF CounterKept, Doubling, Answered, TypeOK, NoStreak
  <2>2. CASE l # op
    <3>1. streak'[l] = streak[l] /\ ~(streak[l].last > 0) /\ ~(streak[l].prev > 0)
      BY <1>2, <2>2 DEF BackOff, CounterKept, Answered, TypeOK, Lookups, Calls
    <3> QED  BY <3>1 DEF CounterKept, Doubling
  <2> QED  BY <2>1, <2>2
<1> QED  BY <1>1, <1>2 DEF BackOff

LEMMA NextBackOff ==
  ASSUME TypeOK, BackOff, [Next]_vars
  PROVE  BackOff'
<1> USE DEF Calls, Stages
<1>1. CASE Tick \/ Begin \/ DeletionRequested \/ UNCHANGED vars
  <2>1. streak' = streak /\ retry' = retry
    BY <1>1 DEF Tick, Begin, DeletionRequested, vars
  <2>2. /\ stage' = "Unbound" <=> stage = "Unbound"
        /\ \/ call' = call
           \/ call' = IF stage = "Unbound" THEN "select_plan" ELSE "observe"
        /\ stage' = stage \/ call' = "none"
    BY <1>1 DEF Tick, Begin, DeletionRequested, vars
  <2>3. CallFitsStage' /\ LookupIsDue'
    <3>1. CallFitsStage'
      BY <2>2 DEF BackOff, CallFitsStage
    <3>2. \/ call' = call /\ started' = started
          \/ is_due(retry, started')
      BY <1>1 DEF Tick, Begin, DeletionRequested, vars
    <3>3. LookupIsDue'
      BY <2>1, <3>2 DEF BackOff, LookupIsDue, is_due
    <3> QED  BY <3>1, <3>3
  <2>4. ASSUME NEW l \in Lookups PROVE CounterKept(l)' /\ Doubling(l)'
    BY <2>1, <2>2, <2>4 DEF BackOff, CounterKept, Doubling, Lookups
  <2> QED  BY <2>3, <2>4 DEF BackOff
<1>2. CASE PlanSelected \/ NoPlan \/ Created \/ Deleted \/ CreateOutcomeUnknown
           \/ DeleteOutcomeUnknown
  BY <1>2, AnswerBackOff DEF PlanSelected, NoPlan, Created, Deleted, CreateOutcomeUnknown,
     DeleteOutcomeUnknown
<1>3. CASE ObservedPresent \/ ObservedAbsent
  BY <1>3, AnswerBackOff DEF ObservedPresent, ObservedAbsent
<1>4. CASE Finalized
  BY <1>4 DEF Finalized, BackOff, CallFitsStage, LookupIsDue, CounterKept, Doubling, NoStreak, Lookups
<1>5. ASSUME NEW op \in Calls, Failed(op) PROVE BackOff'
  <2>1. CallFitsStage' /\ LookupIsDue'
    BY <1>5 DEF Failed, CallFitsStage, LookupIsDue, Lookups
  <2>2. ASSUME NEW l \in Lookups, l # op PROVE CounterKept(l)' /\ Doubling(l)'
    <3>1. streak'[l] = streak[l] /\ ~(streak[l].last > 0) /\ ~(streak[l].prev > 0)
      BY <1>5, <2>2 DEF BackOff, CounterKept, Failed, TypeOK, Lookups
    <3> QED  BY <3>1 DEF CounterKept, Doubling
  <2>3. ASSUME op \in Lookups PROVE CounterKept(op)' /\ Doubling(op)'
    <3>1. streak'[op] = [prev |-> streak[op].last, last |-> Raised(retry).next - started]
      BY <1>5 DEF Failed, TypeOK
    <3>2. retry' = Raised(retry) /\ call' = "none" /\ stage' = stage /\ started' = started
      BY <1>5 DEF Failed
    <3>3. op = "select_plan" <=> stage = "Unbound"
      BY <1>5, <2>3 DEF Failed, BackOff, CallFitsStage, Lookups
    <3>4. CounterKept(op)'
      BY <3>1, <3>2, <3>3, NextWait, RaisedRetry DEF CounterKept
    <3>5. Doubling(op)'
      <4>1. CASE ~(streak[op].last > 0)
        BY <3>1, <4>1 DEF Doubling
      <4>2. CASE streak[op].last = Wait(retry.attempt) /\ retry.attempt >= 1
        BY <3>1, <3>2, <4>2, NextWait DEF Doubling
      <4>3. CASE retry.next = MaxMillis
        <5>1. is_due(retry, started)
          BY <1>5, <2>3 DEF Failed, BackOff, LookupIsDue
        <5> QED  BY <3>2, <4>3, <5>1, StaysAtEnd DEF Doubling
      <4> QED  BY <2>3, <4>1, <4>2, <4>3 DEF BackOff, CounterKept
    <3> QED  BY <3>4, <3>5
  <2> QED  BY <2>1, <2>2, <2>3 DEF BackOff
<1> QED  BY <1>1, <1>2, <1>3, <1>4, <1>5 DEF Next

-----------------------------------------------------------------------------
LEMMA InitSchedule == Init => TypeOK /\ RetryInWindow /\ BackOff
  BY ScheduleAssumption DEF Init, TypeOK, RetryInWindow, BackOff, CallFitsStage, LookupIsDue,
     is_due, CounterKept, Doubling, NoRetry, NoStreak, Calls, Stages, Lookups

\* TypeCorrect: clock, counter and deadline keep their ranges.
THEOREM TypeCorrect == Spec => []TypeOK
  BY InitSchedule, NextWindow, PTL DEF Spec

\* InWindow: a call is repeated no sooner than a second and no later than a minute after
\* the pass that failed, for every clock and counter (retry_deadline, mark_outcome_unknown).
THEOREM InWindow == Spec => []RetryInWindow
  BY InitSchedule, NextWindow, PTL DEF Spec

\* LookupsDouble: the waits between failing lookups double up to a minute, until the
\* clock comes to its end.
THEOREM LookupsDouble == Spec => []LookupsBackOff
<1>1. TypeOK /\ RetryInWindow /\ BackOff /\ [Next]_vars
        => (TypeOK /\ RetryInWindow /\ BackOff)'
  BY NextWindow, NextBackOff
<1>2. BackOff => LookupsBackOff
  BY DEF BackOff, LookupsBackOff, Lookups
<1> QED  BY <1>1, <1>2, InitSchedule, PTL DEF Spec
=============================================================================
