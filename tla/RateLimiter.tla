---------------------------- MODULE RateLimiter ----------------------------
(***************************************************************************)
(* The RPC token bucket of src/evm/forkdb/limiter.rs.  Its whole state is  *)
(* one atomic word holding the time of the last refill, in milliseconds    *)
(* modulo 2^32, and the tokens left; threads update it with fetch_update,  *)
(* a load and a compare-and-swap that is retried, and sleep outside of it. *)
(* The clock is read again between these steps, so an acquire spans        *)
(* several milliseconds and other threads' acquires.                       *)
(***************************************************************************)
EXTENDS Naturals

CONSTANTS
    Callers,      \* the threads that acquire
    MaxTokens,    \* requests_per_second, at least one here: 0 is no limiter
    Interval,     \* interval_ms
    Size,         \* 2^32, the period of the u32 clock and of the u32 refill
    MaxLag        \* bound on the milliseconds between two steps of an acquire

ASSUME LimiterAssumption ==
    /\ {MaxTokens, Interval, Size} \subseteq Nat \ {0} /\ MaxLag \in Nat
    /\ MaxTokens <= Interval     \* at most 1000 requests per second
    /\ 2 * Interval + MaxLag <= Size /\ 4 * MaxLag < Size

VARIABLES
    clock,    \* start.elapsed() in milliseconds as u32
    word,     \* the atomic: [last, tokens]
    at,       \* where each thread is in acquire
    seen,     \* the word each thread loaded
    next,     \* the word each thread is about to swap in
    rest,     \* milliseconds each sleeping thread still sleeps
    late,     \* milliseconds since the last step of an acquire
    debt      \* requests let through and not yet covered by the rate, in
              \* tokens times Interval (history)

limiterVars == <<clock, word, at, seen, next, rest, late, debt>>

NoWord == [last |-> 0, tokens |-> 0]

LimiterInit ==
    /\ clock = 0
    /\ word = [last |-> 0, tokens |-> MaxTokens]
    /\ at = [t \in Callers |-> "idle"]
    /\ seen = [t \in Callers |-> NoWord]
    /\ next = [t \in Callers |-> NoWord]
    /\ rest = [t \in Callers |-> 0]
    /\ late = [t \in Callers |-> 0]
    /\ debt = 0

\* wrapping_sub
Elapsed(w) == (clock + Size - w.last) % Size

\* compute_refill, as u32
Add(w) == ((Elapsed(w) * MaxTokens) \div Interval) % Size

Refilled(w) ==
    IF Add(w) = 0 THEN w.tokens
    ELSE IF w.tokens + Add(w) > MaxTokens THEN MaxTokens ELSE w.tokens + Add(w)

\* Mutant of LastRefill: the refill is not remembered.
LastRefill_Kept(w) == w.last
LastRefill(w) == IF Add(w) > 0 THEN clock ELSE w.last

Shortfall(w) == Interval - ((Elapsed(w) * MaxTokens) % Interval)
\* (interval_ms - remainder).div_ceil(max_tokens)
SleepMs(w) == (Shortfall(w) + MaxTokens - 1) \div MaxTokens

\* acquire is called, or goes round its loop; fetch_update loads the word.
Load(t) ==
    /\ at[t] \in {"idle", "retry"}
    /\ at' = [at EXCEPT ![t] = "loaded"]
    /\ seen' = [seen EXCEPT ![t] = word]
    /\ UNCHANGED <<clock, word, next, rest, debt>>

\* fetch_update's closure: the word to swap in, or none.
Compute(t) ==
    /\ at[t] = "loaded"
    /\ \/ /\ Refilled(seen[t]) >= 1
          /\ next' = [next EXCEPT ![t] = [last |-> LastRefill(seen[t]),
                                          tokens |-> Refilled(seen[t]) - 1]]
          /\ at' = [at EXCEPT ![t] = "swap"]
       \/ /\ Refilled(seen[t]) = 0
          /\ at' = [at EXCEPT ![t] = "empty"]
          /\ UNCHANGED next
    /\ UNCHANGED <<clock, word, seen, rest, debt>>

\* compare_exchange_weak takes the token ...
Take(t) ==
    /\ at[t] = "swap" /\ word = seen[t]
    /\ word' = next[t]
    /\ debt' = debt + Interval
    /\ at' = [at EXCEPT ![t] = "idle"]
    /\ seen' = [seen EXCEPT ![t] = NoWord]
    /\ next' = [next EXCEPT ![t] = NoWord]
    /\ UNCHANGED <<clock, rest>>

\* ... or finds another word, and the closure runs on that.
Reload(t) ==
    /\ at[t] = "swap" /\ word # seen[t]
    /\ seen' = [seen EXCEPT ![t] = word]
    /\ next' = [next EXCEPT ![t] = NoWord]
    /\ at' = [at EXCEPT ![t] = "loaded"]
    /\ UNCHANGED <<clock, word, rest, debt>>

\* No token: the sleep is computed from the clock as it is now.
Sleep(t) ==
    /\ at[t] = "empty"
    /\ rest' = [rest EXCEPT ![t] = SleepMs(seen[t])]
    /\ at' = [at EXCEPT ![t] = "asleep"]
    /\ UNCHANGED <<clock, word, seen, next, debt>>

\* Mutant of Wake: the sleep is computed again without looking at the word.
Wake_NoRetry(t) ==
    /\ at[t] = "asleep" /\ rest[t] = 0
    /\ at' = [at EXCEPT ![t] = "empty"]
    /\ UNCHANGED <<clock, word, seen, next, rest, debt>>

Wake(t) ==
    /\ at[t] = "asleep" /\ rest[t] = 0
    /\ at' = [at EXCEPT ![t] = "retry"]
    /\ UNCHANGED <<clock, word, seen, next, rest, debt>>

Busy(t) == at[t] \notin {"idle", "asleep"}

\* A millisecond passes.  A sleep ends on time, a step of acquire takes a
\* while.  The bucket is not left alone for a whole period of the clock, 49
\* days: after that the word may come back to a value a thread has loaded.
Tick ==
    /\ Elapsed(word) + 2 * MaxLag + 1 < Size
    /\ \A t \in Callers : /\ at[t] = "asleep" => rest[t] > 0
                          /\ Busy(t) => late[t] < MaxLag
    /\ clock' = (clock + 1) % Size
    /\ rest' = [t \in Callers |-> IF rest[t] > 0 THEN rest[t] - 1 ELSE 0]
    /\ late' = [t \in Callers |-> IF Busy(t) THEN late[t] + 1 ELSE 0]
    /\ debt' = IF debt > MaxTokens THEN debt - MaxTokens ELSE 0
    /\ UNCHANGED <<word, at, seen, next>>

AcquireStep(t) ==
    /\ Load(t) \/ Compute(t) \/ Take(t) \/ Reload(t) \/ Sleep(t) \/ Wake(t)
    /\ late' = [late EXCEPT ![t] = 0]

LimiterNext == Tick \/ \E t \in Callers : AcquireStep(t)

LimiterSpec == LimiterInit /\ [][LimiterNext]_limiterVars
-----------------------------------------------------------------------------
\* Whatever window of time is taken, the bucket lets through at most its
\* burst, one request more, and what the configured rate allows for the
\* window and the time a swap may trail the clock it was computed from:
\* however loads, clock readings and swaps interleave, and across the wrap
\* of the clock, no refill is credited twice (acquire).  debt is the largest
\* excess of requests over the rate in any window ending now.
RateBounded == debt <= (MaxTokens + 1) * Interval + MaxLag * MaxTokens

\* The sleep is long enough: a thread whose bucket nobody touched while it
\* slept finds a token when it wakes, so it sleeps once per token.
SleepSuffices ==
    \A t \in Callers :
        at[t] = "asleep" /\ rest[t] = 0 /\ word = seen[t] => Refilled(word) >= 1

\* The limiter admits no more than the rate and asks for no sleep that is too
\* short.
LimiterSound == RateBounded /\ SleepSuffices

\* Callers that wait are not starved together: as long as some thread is in
\* acquire for ever, tokens are given out for ever.
SomeoneServed ==
    \/ []<>(\A t \in Callers : at[t] = "idle")
    \/ []<><<\E t \in Callers : Take(t)>>_limiterVars
=============================================================================
