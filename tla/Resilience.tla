----------------------------- MODULE Resilience -----------------------------
(***************************************************************************)
(* ResilienceManager of src/resilience.rs: calls of a service that pass a  *)
(* circuit breaker and a token bucket, run an operation with retries under *)
(* a timeout, and report to the breaker.  The operation works with a       *)
(* resource of a ResourcePool.                                             *)
(*                                                                         *)
(* Every lock and atomic is released between two steps of a call.  The     *)
(* permit of the pool is given back before acquire returns, and once more  *)
(* when the resource is dropped, so it never holds an attempt back and is  *)
(* left out; so is half_open_requests, which is reset and never raised.    *)
(***************************************************************************)
EXTENDS Integers, Sequences, SequencesExt

CONSTANTS CallTask, Resource, NoResource,
          FailureThreshold, MinimumRequests, HalfOpenMax,   \* of the breaker
          Capacity,          \* of the bucket
          AcquireAttempts,   \* MAX_ATTEMPTS of acquire
          MaxAttempts,       \* max_attempts of the retries
          PoolSize,          \* max_size of the pool
          MaxCalls,          \* bound on the calls
          MaxTicks           \* bound on the tokens earned

ASSUME ResilienceAssumption ==
    /\ {FailureThreshold, MinimumRequests, HalfOpenMax, Capacity, PoolSize,
        MaxCalls, MaxTicks} \subseteq Nat
    /\ {AcquireAttempts, MaxAttempts} \subseteq Nat \ {0}
    /\ NoResource \notin Resource

VARIABLES breaker,   \* state, counts, and how long ago a call asked and failed
          bucket,    \* tokens, and those earned since the last refill
          pool,      \* resources of the pool, the last one given first
          attempt,   \* task -> the place of its call
          calls,     \* calls begun
          granted,   \* history: tokens handed out
          ticks      \* history: tokens earned since the start

callVars == <<breaker, bucket, pool, attempt, calls, granted, ticks>>

NotCalling == [pc |-> "idle"]

CallInit ==
    /\ breaker = [state |-> "Closed", failures |-> 0, successes |-> 0,
                  failed |-> "never", asked |-> "recently"]
    /\ bucket = [tokens |-> Capacity, earned |-> 0]
    /\ pool = << >>
    /\ attempt = [t \in CallTask |-> NotCalling]
    /\ calls = 0 /\ granted = 0 /\ ticks = 0

At(t, pc) == attempt[t].pc = pc
Goto(t, record) == attempt' = [attempt EXCEPT ![t] = record]

-----------------------------------------------------------------------------
(* CircuitBreaker::allow_request *)

\* The call is noted and the state read.
AllowRequest(t) ==
    /\ At(t, "idle") /\ calls < MaxCalls
    /\ breaker' = [breaker EXCEPT !.asked = "recently"]
    /\ Goto(t, [pc |-> "allow", seen |-> breaker.state])
    /\ calls' = calls + 1
    /\ UNCHANGED <<bucket, pool, granted, ticks>>

SleptEnough == breaker.failed = "long ago"

\* Admitted by the state read before, which may have changed; an open breaker
\* becomes half open.
Allowed(t) ==
    /\ At(t, "allow")
    /\ \/ attempt[t].seen = "Closed" /\ UNCHANGED breaker
       \/ attempt[t].seen = "HalfOpen" /\ HalfOpenMax > 0 /\ UNCHANGED breaker
       \/ /\ attempt[t].seen = "Open" /\ SleptEnough
          /\ breaker' = [breaker EXCEPT !.state = "HalfOpen"]
    /\ Goto(t, [pc |-> "refill", tried |-> 0])
    /\ UNCHANGED <<bucket, pool, calls, granted, ticks>>

Refused(t) ==
    /\ At(t, "allow")
    /\ \/ attempt[t].seen = "Open" /\ ~SleptEnough
       \/ attempt[t].seen = "HalfOpen" /\ HalfOpenMax = 0
    /\ Goto(t, NotCalling)
    /\ UNCHANGED <<breaker, bucket, pool, calls, granted, ticks>>

-----------------------------------------------------------------------------
(* TokenBucketRateLimiter::acquire *)

Least(x, y) == IF x < y THEN x ELSE y

Filled == Least(Capacity, bucket.tokens + bucket.earned)

RefillTokens(t) ==
    /\ At(t, "refill")
    /\ bucket' = [tokens |-> Filled, earned |-> 0]
    /\ Goto(t, [attempt[t] EXCEPT !.pc = "token"])
    /\ UNCHANGED <<breaker, pool, calls, granted, ticks>>

Attempt(n) == [pc |-> "attempt", number |-> n]

TakeToken(t) ==
    /\ bucket.tokens >= 1
    /\ bucket' = [bucket EXCEPT !.tokens = @ - 1]
    /\ granted' = granted + 1
    /\ Goto(t, Attempt(1))

\* Without a token the task sleeps and tries again, or gives the call up; a
\* call given up is not reported to the breaker.
TryAcquire(t) ==
    /\ At(t, "token")
    /\ \/ TakeToken(t)
       \/ /\ bucket.tokens < 1
          /\ Goto(t, IF attempt[t].tried + 1 < AcquireAttempts
                     THEN [pc |-> "refill", tried |-> attempt[t].tried + 1] ELSE NotCalling)
          /\ UNCHANGED <<bucket, granted>>
    /\ UNCHANGED <<breaker, pool, calls, ticks>>

-----------------------------------------------------------------------------
(* RetryExecutor, TimeoutWrapper, ResourcePool *)

Holding(t, r) == [pc |-> "working", number |-> attempt[t].number, resource |-> r]

\* Mutant: the resource is handed out and stays in the pool.
AcquireShares(t) ==
    /\ At(t, "attempt")
    /\ Goto(t, Holding(t, IF pool = << >> THEN NoResource ELSE Last(pool)))
    /\ UNCHANGED <<breaker, bucket, pool, calls, granted, ticks>>

\* An attempt works without a resource when the pool is empty.
Acquire(t) ==
    /\ At(t, "attempt")
    /\ IF pool = << >>
       THEN Goto(t, Holding(t, NoResource)) /\ UNCHANGED pool
       ELSE Goto(t, Holding(t, Last(pool))) /\ pool' = Front(pool)
    /\ UNCHANGED <<breaker, bucket, calls, granted, ticks>>

Held == {attempt[t].resource : t \in {x \in CallTask : At(x, "working")}} \ {NoResource}
Outside == Resource \ (Held \cup Range(pool))

\* PooledResource::take: the operation keeps the resource.
TakeResource(t) ==
    /\ At(t, "working") /\ attempt[t].resource # NoResource
    /\ Goto(t, Holding(t, NoResource))
    /\ UNCHANGED <<breaker, bucket, pool, calls, granted, ticks>>

\* A resource beyond the size of the pool is dropped.
AddResource(r) ==
    /\ r \in Outside
    /\ Len(pool) < PoolSize
    /\ pool' = Append(pool, r)
    /\ UNCHANGED <<breaker, bucket, attempt, calls, granted, ticks>>

\* The resource goes back, also into a pool that is full.
DropResource(t) ==
    pool' = IF attempt[t].resource = NoResource THEN pool
            ELSE Append(pool, attempt[t].resource)

\* A success, an error that can be retried, or another: an attempt that runs
\* out of time is one, as no word of its error is in retryable_errors.
EndAttempt(t) ==
    /\ At(t, "working")
    /\ DropResource(t)
    /\ \/ Goto(t, [pc |-> "count", success |-> TRUE])
       \/ Goto(t, [pc |-> "count", success |-> FALSE])
       \/ attempt[t].number < MaxAttempts /\ Goto(t, Attempt(attempt[t].number + 1))
    /\ UNCHANGED <<breaker, bucket, calls, granted, ticks>>

-----------------------------------------------------------------------------
(* CircuitBreaker::record_success, record_failure *)

Count(t) ==
    /\ At(t, "count")
    /\ breaker' = IF attempt[t].success THEN [breaker EXCEPT !.successes = @ + 1]
                  ELSE [breaker EXCEPT !.failures = @ + 1, !.failed = "recently"]
    /\ Goto(t, [attempt[t] EXCEPT !.pc = "judge"])
    /\ UNCHANGED <<bucket, pool, calls, granted, ticks>>

ShouldTrip ==
    LET total == breaker.failures + breaker.successes
    IN  /\ total >= MinimumRequests
        /\ total > 0 /\ 100 * breaker.failures >= FailureThreshold * total

\* What the outcome asks for, by the state and the counts of this moment.
Verdict(success) ==
    CASE success /\ breaker.state = "HalfOpen" ->
            IF breaker.successes >= HalfOpenMax THEN "close" ELSE "idle"
      [] success /\ breaker.state # "HalfOpen" ->
            IF breaker.asked = "long ago" THEN "reset" ELSE "idle"
      [] ~success /\ breaker.state = "HalfOpen" -> "open"
      [] ~success /\ breaker.state = "Closed" -> IF ShouldTrip THEN "open" ELSE "idle"
      [] ~success /\ breaker.state = "Open" -> "idle"

Judge(t) ==
    /\ At(t, "judge")
    /\ Goto(t, [pc |-> Verdict(attempt[t].success)])
    /\ UNCHANGED <<breaker, bucket, pool, calls, granted, ticks>>

TransitionToOpen(t) ==
    /\ At(t, "open")
    /\ breaker' = [breaker EXCEPT !.state = "Open"]
    /\ Goto(t, NotCalling)
    /\ UNCHANGED <<bucket, pool, calls, granted, ticks>>

TransitionToClosed(t) ==
    /\ At(t, "close")
    /\ breaker' = [breaker EXCEPT !.state = "Closed"]
    /\ Goto(t, [pc |-> "reset"])
    /\ UNCHANGED <<bucket, pool, calls, granted, ticks>>

ResetCounters(t) ==
    /\ At(t, "reset")
    /\ breaker' = [breaker EXCEPT !.failures = 0, !.successes = 0]
    /\ Goto(t, NotCalling)
    /\ UNCHANGED <<bucket, pool, calls, granted, ticks>>

\* The steps of a call once it has begun.
Continue(t) ==
    \/ Allowed(t) \/ Refused(t) \/ RefillTokens(t) \/ TryAcquire(t)
    \/ Acquire(t) \/ EndAttempt(t)
    \/ Count(t) \/ Judge(t)
    \/ TransitionToOpen(t) \/ TransitionToClosed(t) \/ ResetCounters(t)

-----------------------------------------------------------------------------
(* The passing of time *)

SleepWindowPasses ==
    /\ breaker.failed = "recently"
    /\ breaker' = [breaker EXCEPT !.failed = "long ago"]
    /\ UNCHANGED <<bucket, pool, attempt, calls, granted, ticks>>

PeriodPasses ==
    /\ breaker.asked = "recently"
    /\ breaker' = [breaker EXCEPT !.asked = "long ago"]
    /\ UNCHANGED <<bucket, pool, attempt, calls, granted, ticks>>

\* A token's worth of time, and at least the tenth of a second a refill waits for.
TokenEarned ==
    /\ ticks < MaxTicks
    /\ bucket' = [bucket EXCEPT !.earned = @ + 1]
    /\ ticks' = ticks + 1
    /\ UNCHANGED <<breaker, pool, attempt, calls, granted>>

CallNext ==
    \/ \E t \in CallTask : AllowRequest(t) \/ TakeResource(t) \/ Continue(t)
    \/ \E r \in Resource : AddResource(r)
    \/ SleepWindowPasses \/ PeriodPasses \/ TokenEarned

\* Sleeps and timeouts end, so a call that has begun goes on.
CallSpec == CallInit /\ [][CallNext]_callVars /\ \A t \in CallTask : WF_callVars(Continue(t))

-----------------------------------------------------------------------------
\* However calls interleave between refill and take, no more tokens are handed
\* out than the bucket held and time has earned (resilience.rs:293-301, 327-340).
GrantsWithinBudget == granted <= Capacity + ticks

\* A resource is in the pool once, or with one attempt, or with its owner: no
\* timeout, retry or resource taken out makes two users share it
\* (resilience.rs:540-543, 593-602).
EveryResourceInOnePlace ==
    /\ \A i, j \in DOMAIN pool : pool[i] = pool[j] => i = j
    /\ Held \cap Range(pool) = {}
    /\ \A t, u \in CallTask :
          At(t, "working") /\ At(u, "working") /\ attempt[t].resource = attempt[u].resource =>
              t = u \/ attempt[t].resource = NoResource

\* However calls interleave with each other and with time, they get no token that
\* was not earned and no resource that another one has (resilience.rs:293, 533).
CallsShareNothing == GrantsWithinBudget /\ EveryResourceInOnePlace

\* Every call returns, whether it is refused, out of tokens, retried or late.
EveryCallReturns == \A t \in CallTask : ~At(t, "idle") ~> At(t, "idle")
=============================================================================
