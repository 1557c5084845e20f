---------------------------- MODULE SchedulerProofs ----------------------------
(* Proofs about sources.ConcurrencyScheduler, for any number of tasks, any    *)
(* bounds on concurrency, backoff and attempts, and any requested delays.     *)
(* The safety properties are inductive together with two facts about permits: *)
(* none is of a generation still to come, and one of the current generation   *)
(* was granted since the last rate limit.                                     *)
EXTENDS Scheduler, FiniteSetTheorems, TLAPS

\* The strengthening: what permits say of generations.
PermitsPast  == \A t \in Tasks : permit[t] <= generation
CurrentFresh == Current \subseteq fresh

SchedulerInv == TypeOK /\ PermitsPast /\ CurrentFresh /\ WindowOpen /\ BlockedQuiet
                /\ CurrentWithinLimit /\ NoLostWakeup

\* Counting a set of tasks, and a smaller one.
LEMMA Count ==
    ASSUME NEW S \in SUBSET Tasks, NEW T \in SUBSET S
    PROVE  /\ IsFiniteSet(S) /\ Cardinality(S) \in Nat
           /\ IsFiniteSet(T) /\ Cardinality(T) \in Nat
           /\ Cardinality(T) <= Cardinality(S)
  BY SchedulerAssumption, FS_Subset, FS_CardinalityType

\* The next backoff is between the initial and the largest one.
LEMMA BackoffBounded ==
    ASSUME backoff \in 0 .. MaxBackoff, NEW retryAfter \in RetryAfters
    PROVE  NextBackoff(retryAfter) \in 1 .. MaxBackoff
  BY SchedulerAssumption DEF NextBackoff, Smaller

\* Halving keeps limit between one and what it was.
LEMMA Halved ==
    ASSUME NEW n \in Nat \ {0}
    PROVE  Larger(1, n \div 2) \in 1 .. n
  BY DEF Larger

\* What a rate limit does to the shared schedule.
LEMMA RateLimitEffect ==
    ASSUME TypeOK, NEW t \in Tasks, NEW retryAfter \in RetryAfters,
           ApplyRateLimit(t, retryAfter)
    PROVE  /\ limit' \in 1 .. limit
           /\ successes' \in Nat /\ generation' \in Nat
           /\ backoff' \in 0 .. MaxBackoff /\ blocked' \in 0 .. MaxBackoff
           /\ \/ /\ permit[t] = generation /\ generation' = generation + 1
                 /\ successes' = 0 /\ fresh' = {}
              \/ UNCHANGED <<shared, fresh>>
  <1>1. CASE permit[t] = generation
    <2>1. NextBackoff(retryAfter) \in 1 .. MaxBackoff
      BY BackoffBounded DEF TypeOK
    <2>2. Larger(1, limit \div 2) \in 1 .. limit
      BY Halved DEF TypeOK
    <2> QED  BY <1>1, <2>1, <2>2 DEF ApplyRateLimit, TypeOK
  <1>2. CASE permit[t] # generation
    BY <1>2 DEF ApplyRateLimit, TypeOK, shared
  <1> QED  BY <1>1, <1>2

\* What a success does to it: limit never falls.
LEMMA SuccessEffect ==
    ASSUME TypeOK, WindowOpen, ApplySuccess
    PROVE  /\ limit' \in limit .. MaxConcurrency
           /\ successes' \in Nat /\ successes' < limit'
           /\ backoff' \in 0 .. MaxBackoff
           /\ UNCHANGED <<generation, blocked>>
  <1>1. limit \in 1 .. MaxConcurrency /\ MaxConcurrency \in Nat /\ successes \in Nat
    BY SchedulerAssumption DEF TypeOK
  <1>2. CASE successes + 1 < limit
    BY <1>1, <1>2 DEF ApplySuccess, TypeOK
  <1>3. CASE ~(successes + 1 < limit)
    <2>1. successes' = 0 /\ limit' = Smaller(limit + 1, MaxConcurrency)
      BY <1>3 DEF ApplySuccess
    <2>2. backoff' \in 0 .. MaxBackoff
      BY <1>3, SchedulerAssumption DEF ApplySuccess, TypeOK
    <2> QED  BY <1>1, <2>1, <2>2 DEF Smaller, ApplySuccess
  <1> QED  BY <1>2, <1>3
-----------------------------------------------------------------------------
LEMMA InitOK == Init => SchedulerInv
  <1> SUFFICES ASSUME Init PROVE SchedulerInv
    OBVIOUS
  <1>1. TypeOK
    <2>1. limit \in 1 .. MaxConcurrency /\ backoff \in 0 .. MaxBackoff /\ blocked \in 0 .. MaxBackoff
      BY SchedulerAssumption DEF Init
    <2>2. attempt \in [Tasks -> 1 .. MaxAttempts]
      BY SchedulerAssumption DEF Init
    <2>3. cancelled \in BOOLEAN
      BY DEF Init
    <2> QED  BY <2>1, <2>2, <2>3 DEF Init, TypeOK, TaskStates
  <1>2. Current = {}
    BY DEF Init, Current, Running
  <1>3. Cardinality({}) = 0
    BY FS_EmptySet
  <1> QED
    BY <1>1, <1>2, <1>3, SchedulerAssumption
    DEF Init, SchedulerInv, PermitsPast, CurrentFresh, WindowOpen, BlockedQuiet,
        CurrentWithinLimit, NoLostWakeup, TypeOK

\* The critical section that grants a permit.
LEMMA GrantOK ==
    ASSUME SchedulerInv, NEW t \in Tasks, Grant(t)
    PROVE  SchedulerInv'
  <1> USE DEF SchedulerInv
  <1>1. TypeOK'
    BY DEF Grant, SetState, shared, TypeOK, TaskStates
  <1>2. Running' = Running \cup {t} /\ Current' = Current \cup {t}
    BY DEF Grant, SetState, shared, TypeOK, Running, Current
  <1>3. PermitsPast' /\ CurrentFresh' /\ WindowOpen' /\ BlockedQuiet'
    BY <1>2 DEF Grant, shared, TypeOK, PermitsPast, CurrentFresh, WindowOpen, BlockedQuiet
  <1>4. CurrentWithinLimit'
    <2>1. /\ Cardinality(Current) <= Cardinality(Running)
          /\ IsFiniteSet(Current)
          /\ Cardinality(Running) \in Nat /\ Cardinality(Current) \in Nat
      BY Count DEF Current, Running
    <2>2. Cardinality(Current \cup {t}) <= Cardinality(Current) + 1
      BY <2>1, FS_AddElement
    <2>3. Cardinality(Running) < limit /\ limit' = limit /\ limit \in Nat
      BY SchedulerAssumption DEF Grant, shared, TypeOK
    <2>4. Cardinality(Current \cup {t}) \in Nat
      BY <2>1, FS_AddElement, FS_CardinalityType
    <2> QED  BY <1>2, <2>1, <2>2, <2>3, <2>4 DEF CurrentWithinLimit
  <1>5. NoLostWakeup'
    BY <1>2 DEF NoLostWakeup
  <1> QED  BY <1>1, <1>3, <1>4, <1>5

\* A task that waits, is woken, or gives up: nobody's permit changes.
LEMMA WaitingOK ==
    ASSUME SchedulerInv, NEW t \in Tasks, Wait(t) \/ Wake(t) \/ GiveUp(t)
    PROVE  SchedulerInv'
  <1> USE DEF SchedulerInv
  <1>1. UNCHANGED <<shared, permit, attempt, cancelled, fresh>>
    BY DEF Wait, Wake, GiveUp
  <1>2. /\ state[t] \in {"acquire", "sleeping", "queueing"}
        /\ \E s \in {"acquire", "sleeping", "queueing", "failed"} : SetState(t, s)
    BY DEF Wait, Wake, GiveUp, Waiting
  <1>3. Running' = Running /\ Current' = Current
    BY <1>1, <1>2 DEF SetState, Running, Current, TypeOK, shared
  <1>4. TypeOK'
    <2>1. state' \in [Tasks -> TaskStates]
      BY <1>2 DEF SetState, TypeOK, TaskStates
    <2>2. timer' \in [Tasks -> Nat] /\ woken' \subseteq Tasks
      BY SchedulerAssumption DEF Wait, Wake, GiveUp, TypeOK
    <2> QED  BY <1>1, <2>1, <2>2 DEF TypeOK, shared
  <1>5. PermitsPast' /\ CurrentFresh' /\ WindowOpen' /\ BlockedQuiet' /\ CurrentWithinLimit'
    BY <1>1, <1>3 DEF shared, PermitsPast, CurrentFresh, WindowOpen, BlockedQuiet,
                      CurrentWithinLimit
  <1>6. NoLostWakeup'
    <2>1. SUFFICES ASSUME NEW u \in Tasks, state'[u] = "queueing", u \notin woken'
                   PROVE  Running # {}
      BY <1>3 DEF NoLostWakeup
    <2>2. CASE Wait(t) /\ u = t
      <3>1. Cardinality(Running) >= limit /\ limit >= 1
        BY <2>1, <2>2 DEF Wait, SetState, TypeOK
      <3>2. Cardinality({}) = 0
        BY FS_EmptySet
      <3> QED  BY <3>1, <3>2 DEF TypeOK
    <2>3. CASE Wait(t) /\ u # t
      BY <2>1, <2>3 DEF Wait, SetState, TypeOK, NoLostWakeup
    <2>4. CASE Wake(t) \/ GiveUp(t)
      BY <2>1, <2>4 DEF Wake, GiveUp, SetState, TypeOK, NoLostWakeup
    <2> QED  BY <2>2, <2>3, <2>4
  <1> QED  BY <1>4, <1>5, <1>6

\* A task that leaves the running state, whatever it does to the schedule.
LEMMA LeavesRunning ==
    ASSUME TypeOK, NEW t \in Tasks, state[t] = "running",
           NEW s \in TaskStates \ {"running", "queueing"}, SetState(t, s),
           UNCHANGED permit
    PROVE  /\ Running' = Running \ {t}
           /\ generation' = generation => Current' = Current \ {t}
  BY DEF SetState, TypeOK, Running, Current

\* Every finish wakes whoever waits.
LEMMA FinishWakes ==
    ASSUME TypeOK, NEW t \in Tasks,
           NEW s \in TaskStates \ {"running", "queueing"}, SetState(t, s), Signal
    PROVE  NoLostWakeup'
  BY DEF SetState, TypeOK, Signal, Waiting, NoLostWakeup

\* A rate-limit answer: the first of its generation empties Current.
LEMMA FinishLimitedOK ==
    ASSUME SchedulerInv, NEW t \in Tasks, FinishLimited(t)
    PROVE  SchedulerInv'
  <1> USE DEF SchedulerInv
  <1>1. PICK retryAfter \in RetryAfters : ApplyRateLimit(t, retryAfter)
    BY DEF FinishLimited
  <1>2. PICK s \in {"acquire", "failed"} : SetState(t, s)
    BY DEF FinishLimited
  <1>3. /\ limit' \in 1 .. limit
        /\ successes' \in Nat /\ generation' \in Nat
        /\ backoff' \in 0 .. MaxBackoff /\ blocked' \in 0 .. MaxBackoff
        /\ \/ /\ permit[t] = generation /\ generation' = generation + 1
              /\ successes' = 0 /\ fresh' = {}
           \/ UNCHANGED <<shared, fresh>>
    BY <1>1, RateLimitEffect
  <1>4. TypeOK'
    <2>1. attempt' \in [Tasks -> 1 .. MaxAttempts]
      BY SchedulerAssumption DEF FinishLimited, TypeOK
    <2>2. state' \in [Tasks -> TaskStates]
      BY <1>2 DEF SetState, TypeOK, TaskStates
    <2>3. woken' \subseteq Tasks
      BY DEF FinishLimited, Signal, Waiting, TypeOK
    <2>4. limit' \in 1 .. MaxConcurrency /\ fresh' \subseteq Tasks
      BY <1>3, SchedulerAssumption DEF TypeOK, shared
    <2> QED  BY <1>3, <2>1, <2>2, <2>3, <2>4 DEF FinishLimited, TypeOK
  <1>5. NoLostWakeup'
    BY <1>2, FinishWakes DEF FinishLimited, TaskStates
  <1>6. CASE /\ permit[t] = generation /\ generation' = generation + 1
             /\ successes' = 0 /\ fresh' = {}
    <2>1. PermitsPast' /\ Current' = {}
      BY <1>6 DEF FinishLimited, PermitsPast, TypeOK, Current, Running
    <2>2. Cardinality({}) = 0
      BY FS_EmptySet
    <2> QED
      BY <1>3, <1>4, <1>5, <1>6, <2>1, <2>2
      DEF CurrentFresh, WindowOpen, BlockedQuiet, CurrentWithinLimit, TypeOK
  <1>7. CASE UNCHANGED <<shared, fresh>>
    <2>1. Current' = Current \ {t}
      BY <1>2, <1>7, LeavesRunning DEF FinishLimited, TaskStates, shared
    <2>2. Cardinality(Current \ {t}) <= Cardinality(Current)
      BY Count DEF Current, Running
    <2>3. Cardinality(Current) \in Nat /\ Cardinality(Current \ {t}) \in Nat
      BY Count DEF Current, Running
    <2> QED
      BY <1>4, <1>5, <1>7, <2>1, <2>2, <2>3
      DEF FinishLimited, shared, PermitsPast, CurrentFresh, WindowOpen, BlockedQuiet,
          CurrentWithinLimit, TypeOK
  <1> QED  BY <1>3, <1>6, <1>7

\* Any other answer: the generation stays.
LEMMA FinishOtherOK ==
    ASSUME SchedulerInv, NEW t \in Tasks, FinishDone(t) \/ FinishFailed(t)
    PROVE  SchedulerInv'
  <1> USE DEF SchedulerInv
  <1>1. PICK s \in {"done", "failed"} : SetState(t, s)
    BY DEF FinishDone, FinishFailed
  <1>2. /\ limit' \in limit .. MaxConcurrency
        /\ successes' \in Nat /\ successes' < limit'
        /\ backoff' \in 0 .. MaxBackoff
        /\ UNCHANGED <<generation, blocked>>
    <2>1. CASE ApplySuccess
      BY <2>1, SuccessEffect
    <2>2. CASE UNCHANGED shared
      BY <2>2, SchedulerAssumption DEF shared, TypeOK, WindowOpen
    <2> QED  BY <2>1, <2>2 DEF FinishDone, FinishFailed
  <1>3. /\ state[t] = "running"
        /\ Signal
        /\ UNCHANGED <<permit, attempt, timer, cancelled, fresh>>
    BY DEF FinishDone, FinishFailed
  <1>4. TypeOK'
    <2>1. state' \in [Tasks -> TaskStates]
      BY <1>1 DEF SetState, TypeOK, TaskStates
    <2>2. woken' \subseteq Tasks
      BY <1>3 DEF Signal, Waiting, TypeOK
    <2>3. limit' \in 1 .. MaxConcurrency
      BY <1>2, SchedulerAssumption DEF TypeOK
    <2> QED  BY <1>2, <1>3, <2>1, <2>2, <2>3 DEF TypeOK
  <1>5. NoLostWakeup'
    BY <1>1, <1>3, FinishWakes DEF TaskStates
  <1>6. Current' = Current \ {t}
    BY <1>1, <1>2, <1>3, LeavesRunning DEF TaskStates
  <1>7. CurrentWithinLimit'
    <2>1. Cardinality(Current \ {t}) <= Cardinality(Current)
      BY Count DEF Current, Running
    <2>2. Cardinality(Current) \in Nat /\ Cardinality(Current \ {t}) \in Nat
      BY Count DEF Current, Running
    <2> QED  BY <1>2, <1>6, <2>1, <2>2, SchedulerAssumption DEF CurrentWithinLimit, TypeOK
  <1>8. PermitsPast' /\ CurrentFresh' /\ WindowOpen' /\ BlockedQuiet'
    BY <1>2, <1>3, <1>6 DEF PermitsPast, CurrentFresh, WindowOpen, BlockedQuiet
  <1> QED  BY <1>4, <1>5, <1>7, <1>8

\* Cancellation and the passing of time.
LEMMA ElapseOK ==
    ASSUME SchedulerInv, Cancel \/ Elapse \/ UNCHANGED vars
    PROVE  SchedulerInv'
  <1> USE DEF SchedulerInv
  <1>1. /\ UNCHANGED <<limit, successes, generation, backoff, state, permit, attempt, woken,
                       fresh>>
        /\ blocked' \in 0 .. blocked
        /\ timer' \in [Tasks -> Nat]
        /\ cancelled' \in BOOLEAN
    <2>1. CASE Elapse
      <3>1. blocked \in Nat /\ timer \in [Tasks -> Nat]
        BY SchedulerAssumption DEF TypeOK
      <3>2. blocked' \in 0 .. blocked
        BY <2>1, <3>1 DEF Elapse, Larger
      <3>3. timer' \in [Tasks -> Nat]
        BY <2>1, <3>1 DEF Elapse, Larger
      <3>4. cancelled' \in BOOLEAN
        BY <2>1 DEF Elapse, TypeOK
      <3> QED  BY <2>1, <3>2, <3>3, <3>4 DEF Elapse
    <2>2. CASE Cancel
      BY <2>2, SchedulerAssumption DEF Cancel, shared, local, TypeOK
    <2>3. CASE UNCHANGED vars
      BY <2>3, SchedulerAssumption DEF vars, shared, local, TypeOK
    <2> QED  BY <2>1, <2>2, <2>3
  <1>2. TypeOK'
    BY <1>1, SchedulerAssumption DEF TypeOK
  <1>3. Running' = Running /\ Current' = Current
    BY <1>1 DEF Running, Current
  <1>4. BlockedQuiet'
    BY <1>1, <1>3 DEF BlockedQuiet, TypeOK
  <1>5. PermitsPast' /\ CurrentFresh' /\ WindowOpen' /\ CurrentWithinLimit' /\ NoLostWakeup'
    BY <1>1, <1>3 DEF PermitsPast, CurrentFresh, WindowOpen, CurrentWithinLimit, NoLostWakeup
  <1> QED  BY <1>2, <1>4, <1>5

LEMMA NextOK == SchedulerInv /\ [Next]_vars => SchedulerInv'
  <1> SUFFICES ASSUME SchedulerInv, [Next]_vars PROVE SchedulerInv'
    OBVIOUS
  <1>1. CASE \E t \in Tasks : Acquire(t)
    BY <1>1, GrantOK, WaitingOK DEF Acquire
  <1>2. CASE \E t \in Tasks : Finish(t)
    BY <1>2, FinishLimitedOK, FinishOtherOK DEF Finish
  <1>3. CASE Cancel \/ Elapse \/ UNCHANGED vars
    BY <1>3, ElapseOK
  <1> QED  BY <1>1, <1>2, <1>3 DEF Next
-----------------------------------------------------------------------------
\* limit stays within its bounds, a window of successes never fills, permits of
\* the current generation never exceed limit, none is out while the backoff of
\* that generation lasts, and whoever waits on the channel alone will be woken.
THEOREM SchedulerInvariant == Spec => []SchedulerInv
  BY InitOK, NextOK, PTL DEF Spec

\* The invariants that the run checks, one by one.
THEOREM SchedulerTypeOK == Spec => []TypeOK
  BY SchedulerInvariant, PTL DEF SchedulerInv

\* A raised limit, and a halved one, is above the successes counted so far.
THEOREM SchedulerWindowOpen == Spec => []WindowOpen
  BY SchedulerInvariant, PTL DEF SchedulerInv

\* Permits granted since the last rate limit never exceed limit.
THEOREM SchedulerWithinLimit == Spec => []CurrentWithinLimit
  BY SchedulerInvariant, PTL DEF SchedulerInv

\* No permit of the current generation is out while its backoff lasts.
THEOREM SchedulerBlockedQuiet == Spec => []BlockedQuiet
  BY SchedulerInvariant, PTL DEF SchedulerInv

\* finish closes the channel of every task that waits on it alone.
THEOREM SchedulerNoLostWakeup == Spec => []NoLostWakeup
  BY SchedulerInvariant, PTL DEF SchedulerInv

\* Requests that were in flight together lower limit once: whoever lowers it, or
\* starts a backoff, was granted since the last rate limit.
THEOREM SchedulerOncePerGeneration == Spec => OncePerGeneration
  <1>1. SchedulerInv /\ [Next]_vars =>
          [limit' < limit \/ blocked' > blocked =>
             \E t \in fresh : state[t] = "running" /\ state'[t] # "running"]_vars
    <2> SUFFICES ASSUME SchedulerInv, Next, limit' < limit \/ blocked' > blocked
                 PROVE  \E t \in fresh : state[t] = "running" /\ state'[t] # "running"
      OBVIOUS
    <2>1. limit \in Nat /\ blocked \in Nat
      BY SchedulerAssumption DEF SchedulerInv, TypeOK
    <2>2. ASSUME UNCHANGED <<limit, blocked>> PROVE FALSE
      BY <2>1, <2>2
    <2>3. CASE \E t \in Tasks : Acquire(t)
      BY <2>2, <2>3 DEF Acquire, Grant, Wait, Wake, GiveUp, shared
    <2>4. ASSUME NEW t \in Tasks, FinishDone(t) \/ FinishFailed(t) PROVE FALSE
      <3>1. CASE ApplySuccess
        <4>1. limit' \in limit .. MaxConcurrency /\ blocked' = blocked
          BY <3>1, SuccessEffect DEF SchedulerInv
        <4> QED  BY <2>1, <4>1
      <3>2. CASE UNCHANGED shared
        BY <2>2, <3>2 DEF shared
      <3> QED  BY <2>4, <3>1, <3>2 DEF FinishDone, FinishFailed
    <2>5. ASSUME NEW t \in Tasks, FinishLimited(t)
          PROVE  t \in fresh /\ state[t] = "running" /\ state'[t] # "running"
      <3>1. permit[t] = generation
        BY <2>2, <2>5 DEF FinishLimited, ApplyRateLimit, shared
      <3>2. state[t] = "running" /\ t \in fresh
        BY <2>5, <3>1 DEF FinishLimited, SchedulerInv, CurrentFresh, Current, Running
      <3> QED  BY <2>5, <3>2 DEF FinishLimited, SetState, SchedulerInv, TypeOK
    <2>6. CASE Cancel \/ Elapse
      BY <2>1, <2>2, <2>6 DEF Cancel, Elapse, shared, Larger
    <2> QED  BY <2>3, <2>4, <2>5, <2>6 DEF Next, Finish
  <1> QED  BY <1>1, SchedulerInvariant, PTL DEF Spec, OncePerGeneration
=============================================================================
