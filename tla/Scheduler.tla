------------------------------ MODULE Scheduler ------------------------------
(* sources.ConcurrencyScheduler: tasks share an adaptive number of permits,   *)
(* and a backoff that a rate-limit answer to any of them starts for all.  A   *)
(* step is one critical section of the mutex, one answer of the source, or a  *)
(* wake-up; time passes in units of the initial backoff.                      *)
EXTENDS Integers, FiniteSets

CONSTANTS
    Tasks,               \* the pages of one ArchiveContent, one goroutine each
    InitialConcurrency,
    MaxConcurrency,      \* cap(sem)
    InitialBackoff,
    MaxBackoff,
    MaxAttempts,         \* maxAttemptsPerTask
    RetryAfters          \* delays a rate-limit answer may ask for; 0 is none

ASSUME SchedulerAssumption ==
    /\ MaxConcurrency \in Nat \ {0}
    /\ InitialConcurrency \in 1 .. MaxConcurrency
    /\ InitialBackoff \in Nat \ {0}
    /\ MaxBackoff \in Nat /\ InitialBackoff <= MaxBackoff
    /\ MaxAttempts \in Nat \ {0}
    /\ RetryAfters \subseteq Nat
    /\ IsFiniteSet(Tasks)

VARIABLES
    limit, successes, generation, backoff,
    blocked,      \* time left until blockedUntil
    state,        \* where each task's Do stands
    permit,       \* the generation of the permit a task holds, or held last
    attempt,      \* the attempt of a task that is under way
    timer,        \* time left of the timer a task waits on
    woken,        \* tasks whose captured channel has been closed
    cancelled,    \* the context of the tasks
    fresh         \* history: tasks granted since the last rate limit applied

shared == <<limit, successes, generation, backoff, blocked>>
local  == <<state, permit, attempt, timer, woken>>
vars   == <<shared, local, cancelled, fresh>>

TaskStates == {"acquire", "sleeping", "queueing", "running", "done", "failed"}

Ended(t) == state[t] \in {"done", "failed"}
Running  == {t \in Tasks : state[t] = "running"}
Current  == {t \in Running : permit[t] = generation}
Waiting  == {t \in Tasks : state[t] \in {"sleeping", "queueing"}}

Smaller(a, b) == IF a < b THEN a ELSE b
Larger(a, b)  == IF a > b THEN a ELSE b

Init ==
    /\ limit = InitialConcurrency
    /\ successes = 0 /\ generation = 0 /\ backoff = 0 /\ blocked = 0
    /\ state = [t \in Tasks |-> "acquire"]
    /\ permit = [t \in Tasks |-> 0]
    /\ attempt = [t \in Tasks |-> 1]
    /\ timer = [t \in Tasks |-> 0]
    /\ woken = {}
    /\ cancelled = FALSE
    /\ fresh = {}

SetState(t, s) == state' = [state EXCEPT ![t] = s]

GrantOneMore(t) ==  \* mutant: off by one
    /\ state[t] = "acquire" /\ blocked = 0
    /\ Cardinality(Running) <= limit
    /\ SetState(t, "running")
    /\ permit' = [permit EXCEPT ![t] = generation]
    /\ fresh' = fresh \cup {t}
    /\ UNCHANGED <<shared, attempt, timer, woken, cancelled>>

\* acquire, the critical section.  It does not look at the context.
Grant(t) ==
    /\ state[t] = "acquire"
    /\ blocked = 0
    /\ Cardinality(Running) < limit
    /\ SetState(t, "running")
    /\ permit' = [permit EXCEPT ![t] = generation]
    /\ fresh' = fresh \cup {t}
    /\ UNCHANGED <<shared, attempt, timer, woken, cancelled>>

\* No permit: the channel is captured in the same critical section.
Wait(t) ==
    /\ state[t] = "acquire"
    /\ \/ /\ blocked > 0
          /\ SetState(t, "sleeping")
          /\ timer' = [timer EXCEPT ![t] = blocked]
       \/ /\ blocked = 0 /\ Cardinality(Running) >= limit
          /\ SetState(t, "queueing")
          /\ UNCHANGED timer
    /\ woken' = woken \ {t}
    /\ UNCHANGED <<shared, permit, attempt, cancelled, fresh>>

WakeBySignal(t) ==  \* mutant: the timer of the backoff is not waited on
    /\ t \in Waiting /\ t \in woken
    /\ SetState(t, "acquire")
    /\ timer' = [timer EXCEPT ![t] = 0]
    /\ UNCHANGED <<shared, permit, attempt, woken, cancelled, fresh>>

Wake(t) ==
    /\ \/ t \in Waiting /\ t \in woken
       \/ state[t] = "sleeping" /\ timer[t] = 0
    /\ SetState(t, "acquire")
    /\ timer' = [timer EXCEPT ![t] = 0]
    /\ UNCHANGED <<shared, permit, attempt, woken, cancelled, fresh>>

GiveUp(t) ==
    /\ t \in Waiting
    /\ cancelled
    /\ SetState(t, "failed")
    /\ timer' = [timer EXCEPT ![t] = 0]
    /\ UNCHANGED <<shared, permit, attempt, woken, cancelled, fresh>>

\* applyRateLimitLocked: only the first rate limit of a generation counts.
NextBackoff(retryAfter) ==
    LET next == IF backoff < InitialBackoff THEN InitialBackoff
                ELSE Smaller(2 * backoff, MaxBackoff)
    IN  IF retryAfter > next THEN Smaller(retryAfter, MaxBackoff) ELSE next

RateLimitAlways(t, retryAfter) ==  \* mutant: generations are not compared
    /\ generation' = generation + 1 /\ limit' = Larger(1, limit \div 2) /\ successes' = 0
    /\ backoff' = NextBackoff(retryAfter) /\ blocked' = NextBackoff(retryAfter)
    /\ fresh' = {}

RateLimitToZero(t, retryAfter) ==  \* mutant: limit may reach 0
    IF permit[t] = generation
    THEN /\ generation' = generation + 1 /\ limit' = limit \div 2 /\ successes' = 0
         /\ backoff' = NextBackoff(retryAfter) /\ blocked' = NextBackoff(retryAfter)
         /\ fresh' = {}
    ELSE UNCHANGED <<shared, fresh>>

RateLimitKeepsCount(t, retryAfter) ==  \* mutant: successes are not reset
    IF permit[t] = generation
    THEN /\ generation' = generation + 1 /\ limit' = Larger(1, limit \div 2)
         /\ backoff' = NextBackoff(retryAfter) /\ blocked' = NextBackoff(retryAfter)
         /\ fresh' = {} /\ UNCHANGED successes
    ELSE UNCHANGED <<shared, fresh>>

RateLimitSameGeneration(t, retryAfter) ==  \* mutant: no new generation begins
    IF permit[t] = generation
    THEN /\ limit' = Larger(1, limit \div 2) /\ successes' = 0
         /\ backoff' = NextBackoff(retryAfter) /\ blocked' = NextBackoff(retryAfter)
         /\ fresh' = {} /\ UNCHANGED generation
    ELSE UNCHANGED <<shared, fresh>>

ApplyRateLimit(t, retryAfter) ==
    IF permit[t] = generation
    THEN /\ generation' = generation + 1
         /\ limit' = Larger(1, limit \div 2)
         /\ successes' = 0
         /\ backoff' = NextBackoff(retryAfter)
         /\ blocked' = NextBackoff(retryAfter)
         /\ fresh' = {}
    ELSE UNCHANGED <<shared, fresh>>

\* applySuccessLocked: a full window of successes raises limit, halves backoff.
ApplySuccess ==
    /\ IF successes + 1 < limit
       THEN successes' = successes + 1 /\ UNCHANGED <<limit, backoff>>
       ELSE /\ successes' = 0
            /\ limit' = Smaller(limit + 1, MaxConcurrency)
            /\ backoff' = IF backoff > InitialBackoff THEN backoff \div 2 ELSE 0
    /\ UNCHANGED <<generation, blocked>>

\* signalLocked: every goroutine that captured the channel may go on.
Signal == woken' = woken \cup Waiting

\* finish after a rate-limit answer; Do tries again, or has tried enough.
FinishLimited(t) ==
    /\ state[t] = "running"
    /\ \E retryAfter \in RetryAfters : ApplyRateLimit(t, retryAfter)
    /\ \/ /\ attempt[t] < MaxAttempts
          /\ SetState(t, "acquire")
          /\ attempt' = [attempt EXCEPT ![t] = @ + 1]
       \/ /\ attempt[t] >= MaxAttempts
          /\ SetState(t, "failed")
          /\ UNCHANGED attempt
    /\ Signal
    /\ UNCHANGED <<permit, timer, cancelled>>

\* finish after a success: one of an older generation says nothing of this one.
FinishDone(t) ==
    /\ state[t] = "running"
    /\ SetState(t, "done")
    /\ IF permit[t] = generation THEN ApplySuccess ELSE UNCHANGED shared
    /\ Signal
    /\ UNCHANGED <<permit, attempt, timer, cancelled, fresh>>

FinishSilent(t) ==  \* mutant: an error does not signal the waiting goroutines
    /\ state[t] = "running"
    /\ SetState(t, "failed")
    /\ UNCHANGED <<shared, permit, attempt, timer, woken, cancelled, fresh>>

\* finish after any other error, the context's included.
FinishFailed(t) ==
    /\ state[t] = "running"
    /\ SetState(t, "failed")
    /\ Signal
    /\ UNCHANGED <<shared, permit, attempt, timer, cancelled, fresh>>

\* ArchiveContent cancels the context on the first error it receives, and the
\* worker's own context may be cancelled at any time.
Cancel ==
    /\ ~cancelled
    /\ cancelled' = TRUE
    /\ UNCHANGED <<shared, local, fresh>>

Elapse ==
    /\ blocked > 0 \/ \E t \in Tasks : timer[t] > 0
    /\ blocked' = Larger(0, blocked - 1)
    /\ timer' = [t \in Tasks |-> Larger(0, timer[t] - 1)]
    /\ UNCHANGED <<limit, successes, generation, backoff, state, permit, attempt,
                   woken, cancelled, fresh>>

Acquire(t) == Grant(t) \/ Wait(t) \/ Wake(t) \/ GiveUp(t)
Finish(t)  == FinishLimited(t) \/ FinishDone(t) \/ FinishFailed(t)

Next == (\E t \in Tasks : Acquire(t) \/ Finish(t)) \/ Cancel \/ Elapse

\* Goroutines are scheduled, a request gets an answer or a timeout, time passes.
Fairness == /\ \A t \in Tasks : WF_vars(Acquire(t)) /\ WF_vars(Finish(t))
            /\ WF_vars(Elapse)

Spec     == Init /\ [][Next]_vars
FairSpec == Spec /\ Fairness
-----------------------------------------------------------------------------
TypeOK ==
    /\ limit \in 1 .. MaxConcurrency
    /\ successes \in Nat /\ generation \in Nat
    /\ backoff \in 0 .. MaxBackoff /\ blocked \in 0 .. MaxBackoff
    /\ state \in [Tasks -> TaskStates]
    /\ permit \in [Tasks -> Nat]
    /\ attempt \in [Tasks -> 1 .. MaxAttempts]
    /\ timer \in [Tasks -> Nat]
    /\ woken \subseteq Tasks /\ fresh \subseteq Tasks
    /\ cancelled \in BOOLEAN

\* A window of successes is never full: limit is raised as soon as it is, also
\* after a rate limit has halved limit under the successes counted so far.
WindowOpen == successes < limit

\* Once a rate limit has been applied, requests of its generation may still be
\* under way, more than the new limit; those granted since never exceed it.
CurrentWithinLimit == Cardinality(Current) <= limit

\* Nothing is in flight that was granted after the rate limit now being waited
\* out: no later answer can cut blockedUntil short or extend it.
BlockedQuiet == blocked > 0 => Current = {}

\* No wake-up is lost: a task waiting on the channel alone, and not woken, has a
\* request under way whose end will close that channel.
NoLostWakeup ==
    \A t \in Tasks : state[t] = "queueing" /\ t \notin woken => Running # {}

\* Requests in flight together are punished once: only one granted since the
\* last rate limit can lower limit or start a backoff.
OncePerGeneration ==
    [][limit' < limit \/ blocked' > blocked =>
         \E t \in fresh : state[t] = "running" /\ state'[t] # "running"]_vars

\* Every Do returns, however often the source refuses and whoever cancels.
EveryDoReturns == \A t \in Tasks : <>[]Ended(t)
=============================================================================
