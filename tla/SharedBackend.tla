---------------------------- MODULE SharedBackend ----------------------------
(***************************************************************************)
(* The fork RPC backend, src/evm/forkdb/backend.rs.  Fuzzer threads share  *)
(* one lock-free cache.  A thread that misses enters the slow path: under  *)
(* the batch_state mutex it adds its missing requests to the pending batch *)
(* and either becomes the fetcher (it then holds the mutex through the     *)
(* HTTP exchange, all its retries and the cache insertions) or sleeps on   *)
(* the condition variable.  No thread is dedicated to fetching.            *)
(*                                                                         *)
(* Abstractions: a request is its cache key; a cached JSON value is "good" *)
(* (Response::parse accepts it) or "bad"; the pending vector is a set,     *)
(* because step 2 of the loop removes duplicate keys; clock readings are   *)
(* reduced to whether batch_timeout has elapsed since batch_start.         *)
(***************************************************************************)
EXTENDS Naturals, FiniteSets, Sequences

CONSTANTS
    Threads,      \* fuzzer threads sharing the backend
    Keys,         \* cache keys of the requests
    Slices,       \* the request slices a thread passes to fetch_or_wait
    BatchSize,    \* ForkDBConfig.batch_size
    Retries,      \* ForkDBConfig.retries
    MaxCalls,     \* bound: calls one thread makes
    MaxRestarts,  \* bound: times the process is killed and started again
    Nobody        \* the mutex is free

ASSUME SlicesAssumption == Slices \subseteq Seq(Keys)
ASSUME NumbersAssumption ==
    /\ BatchSize \in Nat
    /\ Retries \in Nat
    /\ MaxCalls \in Nat
    /\ MaxRestarts \in Nat
ASSUME NobodyAssumption == Nobody \notin Threads
ASSUME KeysAssumption == IsFiniteSet(Keys)

VARIABLES
    cache,        \* global_cache
    disk,         \* the *.json files below cache_dir
    lock,         \* holder of the batch_state mutex
    pending,      \* BatchState.pending
    batch_start,  \* BatchState.batch_start: none, running, or older than batch_timeout
    batch,        \* requests the fetcher took and has not inserted yet
    entry,        \* the (key, value) pair between its disk write and its insertion
    tokens,       \* rate-limiter tokens taken for the current batch
    attempt,      \* POSTs issued for the current batch
    pc,           \* where each thread is in fetch_or_wait
    reqs,         \* the slice each thread asked for
    result,       \* what the thread's last call returned
    calls,        \* calls each thread has made
    restarts      \* process restarts so far

batchVars == <<lock, pending, batch_start, batch, entry, tokens, attempt>>
callVars  == <<pc, reqs, result, calls>>
vars == <<cache, disk, batchVars, callVars, restarts>>

Missing == "missing"
Values == {"good", "bad"}
NoEntry == [key |-> Nobody, value |-> Missing]

KeysOf(rs) == {rs[i] : i \in DOMAIN rs}

Init ==
    /\ cache = [k \in Keys |-> Missing]
    /\ disk = [k \in Keys |-> Missing]
    /\ lock = Nobody
    /\ pending = {}
    /\ batch_start = "none"
    /\ batch = {}
    /\ entry = NoEntry
    /\ tokens = 0
    /\ attempt = 0
    /\ pc = [t \in Threads |-> "idle"]
    /\ reqs = [t \in Threads |-> <<>>]
    /\ result = [t \in Threads |-> "none"]
    /\ calls = [t \in Threads |-> 0]
    /\ restarts = 0

-----------------------------------------------------------------------------
\* Reading the cache.  The scan stops at the first key that is missing or
\* whose value does not parse.

\* Mutant of Clean: one readable key is taken for all.
Clean_AnyKey(rs) == \E i \in DOMAIN rs : cache[rs[i]] = "good"

Clean(rs) == \A i \in DOMAIN rs : cache[rs[i]] = "good"

StopsAt(rs, i, v) ==
    /\ cache[rs[i]] = v
    /\ \A j \in DOMAIN rs : j < i => cache[rs[j]] = "good"

Misses(rs) == \E i \in DOMAIN rs : StopsAt(rs, i, Missing)

\* try_fast_path: an answer, a parse error, or None ("miss").
TryFastPath(rs) ==
    IF Clean(rs) THEN "ok" ELSE IF Misses(rs) THEN "miss" ELSE "malformed"

\* The fetcher's own read after the insertions: a missing key is an error.
ReadOwnKeys(rs) ==
    IF Clean(rs) THEN "ok" ELSE IF Misses(rs) THEN "internal" ELSE "malformed"

-----------------------------------------------------------------------------
Return(t, r) ==
    /\ pc' = [pc EXCEPT ![t] = "idle"]
    /\ result' = [result EXCEPT ![t] = r]

\* notify_all, together with the return of the fetcher.
NotifyAndReturn(t, r) ==
    /\ pc' = [u \in Threads |->
                 IF u = t THEN "idle" ELSE IF pc[u] = "sleep" THEN "woken" ELSE pc[u]]
    /\ result' = [result EXCEPT ![t] = r]

\* fetch_or_wait up to the slow path.  An empty slice returns at once.
Call(t, rs) ==
    /\ pc[t] = "idle"
    /\ calls[t] < MaxCalls
    /\ calls' = [calls EXCEPT ![t] = @ + 1]
    /\ reqs' = [reqs EXCEPT ![t] = rs]
    /\ \/ /\ TryFastPath(rs) # "miss"
          /\ Return(t, TryFastPath(rs))
       \/ /\ TryFastPath(rs) = "miss"
          /\ pc' = [pc EXCEPT ![t] = "lock"]
          /\ result' = [result EXCEPT ![t] = "none"]
    /\ UNCHANGED <<cache, disk, batchVars, restarts>>

\* Steps 1 to 3 of the loop in try_slow_path.
StillMissing(rs) == {k \in KeysOf(rs) : cache[k] = Missing}
Enqueued(t) == pending \cup StillMissing(reqs[t])

\* Mutant of StartAfter: nobody starts the timer of a new batch.
StartAfter_Never(t) == batch_start

StartAfter(t) ==
    IF pending = {} /\ Enqueued(t) # {} THEN "running" ELSE batch_start

\* Step 4: fetch or wait.
ShouldFetch(t) ==
    \/ Cardinality(Enqueued(t)) >= BatchSize
    \/ StartAfter(t) = "expired"

TakeBatch(t) ==
    /\ ShouldFetch(t)
    /\ batch' = Enqueued(t)
    /\ pending' = {}
    /\ batch_start' = "none"
    /\ tokens' = 0
    /\ attempt' = 0
    /\ lock' = t
    /\ pc' = [pc EXCEPT ![t] = "acquire"]

\* Step 5: wait_for releases the mutex.
WaitFor(t) ==
    /\ ~ShouldFetch(t)
    /\ pending' = Enqueued(t)
    /\ batch_start' = StartAfter(t)
    /\ pc' = [pc EXCEPT ![t] = "sleep"]
    /\ UNCHANGED <<lock, batch, tokens, attempt>>

SlowPathLoop(t) ==
    /\ TakeBatch(t) \/ WaitFor(t)
    /\ UNCHANGED <<cache, disk, entry, reqs, result, calls, restarts>>

\* batch_state.lock() and the first round of the loop.
Enter(t) ==
    /\ pc[t] = "lock"
    /\ lock = Nobody
    /\ SlowPathLoop(t)

\* Mutant of WaitTimeout: the waiter gives up instead of taking over.
WaitTimeout_GivesUp(t) ==
    /\ pc[t] = "sleep"
    /\ batch_start = "running" => StillMissing(reqs[t]) = {}
    /\ Return(t, "failed")
    /\ UNCHANGED <<cache, disk, batchVars, reqs, calls, restarts>>

\* wait_for ends by its timeout.  A thread that still misses a key sleeps at
\* most until the running batch expires; one that misses none slept with a
\* deadline of its own.
WaitTimeout(t) ==
    /\ pc[t] = "sleep"
    /\ batch_start = "running" => StillMissing(reqs[t]) = {}
    /\ pc' = [pc EXCEPT ![t] = "woken"]
    /\ UNCHANGED <<cache, disk, batchVars, reqs, result, calls, restarts>>

\* wait_for has the mutex again; step 6, then possibly another round.
Reenter(t) ==
    /\ pc[t] = "woken"
    /\ lock = Nobody
    /\ \/ TryFastPath(reqs[t]) = "miss" /\ SlowPathLoop(t)
       \/ /\ TryFastPath(reqs[t]) # "miss"
          /\ Return(t, TryFastPath(reqs[t]))
          /\ UNCHANGED <<cache, disk, batchVars, reqs, calls, restarts>>

\* dispatch_batch: one token, before the first attempt.
AcquireToken(t) ==
    /\ pc[t] = "acquire"
    /\ tokens' = tokens + 1
    /\ pc' = [pc EXCEPT ![t] = "post"]
    /\ UNCHANGED <<cache, disk, lock, pending, batch_start, batch, entry, attempt,
                   reqs, result, calls, restarts>>

\* transport.exec and parse_batch_response.  Either every request of the
\* batch is answered or the POST fails as a whole.
Post(t, outcome) ==
    /\ pc[t] = "post"
    /\ attempt' = attempt + 1
    /\ \/ /\ outcome = "answered"
          /\ pc' = [pc EXCEPT ![t] = "write"]
          /\ UNCHANGED <<lock, batch, result>>
       \/ /\ outcome = "transient"
          /\ attempt < Retries
          /\ UNCHANGED <<lock, batch, pc, result>>
       \/ /\ outcome = "permanent" \/ (outcome = "transient" /\ attempt >= Retries)
          /\ lock' = Nobody
          /\ batch' = {}
          /\ NotifyAndReturn(t, "failed")
    /\ UNCHANGED <<cache, disk, pending, batch_start, entry, tokens, reqs, calls,
                   restarts>>

\* write_disk_cache for the next answer; its failure is ignored.
WriteDisk(t, k, v) ==
    /\ pc[t] = "write"
    /\ k \in batch
    /\ entry' = [key |-> k, value |-> v]
    /\ disk' = [disk EXCEPT ![k] = v] \/ disk' = disk
    /\ pc' = [pc EXCEPT ![t] = "insert"]
    /\ UNCHANGED <<cache, lock, pending, batch_start, batch, tokens, attempt,
                   reqs, result, calls, restarts>>

\* map.insert for the same answer: other threads can read it from now on.
Insert(t) ==
    /\ pc[t] = "insert"
    /\ cache' = [cache EXCEPT ![entry.key] = entry.value]
    /\ batch' = batch \ {entry.key}
    /\ entry' = NoEntry
    /\ pc' = [pc EXCEPT ![t] = "write"]
    /\ UNCHANGED <<disk, lock, pending, batch_start, tokens, attempt,
                   reqs, result, calls, restarts>>

\* Every answer is inserted: notify_all, read the own keys, return.
Finish(t) ==
    /\ pc[t] = "write"
    /\ batch = {}
    /\ lock' = Nobody
    /\ NotifyAndReturn(t, ReadOwnKeys(reqs[t]))
    /\ UNCHANGED <<cache, disk, pending, batch_start, batch, entry, tokens, attempt,
                   reqs, calls, restarts>>

\* batch_timeout elapses for the batch being collected.
Expire ==
    /\ batch_start = "running"
    /\ batch_start' = "expired"
    /\ UNCHANGED <<cache, disk, lock, pending, batch, entry, tokens, attempt,
                   callVars, restarts>>

\* Mutant of Restart: the new process does not load the disk cache.
Restart_NoLoad ==
    /\ restarts < MaxRestarts
    /\ restarts' = restarts + 1
    /\ cache' = [k \in Keys |-> Missing]
    /\ lock' = Nobody
    /\ pending' = {}
    /\ batch_start' = "none"
    /\ batch' = {}
    /\ entry' = NoEntry
    /\ tokens' = 0
    /\ attempt' = 0
    /\ pc' = [t \in Threads |-> "idle"]
    /\ reqs' = [t \in Threads |-> <<>>]
    /\ result' = [t \in Threads |-> "none"]
    /\ UNCHANGED <<disk, calls>>

\* The process is killed; a new one runs load_disk_cache.
Restart ==
    /\ restarts < MaxRestarts
    /\ restarts' = restarts + 1
    /\ cache' = disk
    /\ lock' = Nobody
    /\ pending' = {}
    /\ batch_start' = "none"
    /\ batch' = {}
    /\ entry' = NoEntry
    /\ tokens' = 0
    /\ attempt' = 0
    /\ pc' = [t \in Threads |-> "idle"]
    /\ reqs' = [t \in Threads |-> <<>>]
    /\ result' = [t \in Threads |-> "none"]
    /\ UNCHANGED <<disk, calls>>

\* Every thread has made its calls.
AllReturned ==
    /\ \A t \in Threads : pc[t] = "idle" /\ calls[t] = MaxCalls
    /\ UNCHANGED vars

ThreadStep(t) ==
    \/ Enter(t)
    \/ WaitTimeout(t)
    \/ Reenter(t)
    \/ AcquireToken(t)
    \/ \E outcome \in {"answered", "transient", "permanent"} : Post(t, outcome)
    \/ \E k \in Keys, v \in Values : WriteDisk(t, k, v)
    \/ Insert(t)
    \/ Finish(t)

Next ==
    \/ \E t \in Threads, rs \in Slices : Call(t, rs)
    \/ \E t \in Threads : ThreadStep(t)
    \/ Expire
    \/ Restart
    \/ AllReturned

Spec == Init /\ [][Next]_vars

\* A thread inside the backend keeps running and time passes.
Fairness == WF_vars(Expire) /\ \A t \in Threads : WF_vars(ThreadStep(t))

-----------------------------------------------------------------------------
\* Every variable ranges over the values its Rust type has in the model.
TypeOK ==
    /\ cache \in [Keys -> Values \cup {Missing}]
    /\ disk \in [Keys -> Values \cup {Missing}]
    /\ lock \in Threads \cup {Nobody}
    /\ pending \subseteq Keys
    /\ batch_start \in {"none", "running", "expired"}
    /\ batch \subseteq Keys
    /\ entry \in [key : Keys, value : Values] \cup {NoEntry}
    /\ tokens \in Nat
    /\ attempt \in Nat
    /\ pc \in [Threads -> {"idle", "lock", "sleep", "woken", "acquire", "post",
                           "write", "insert"}]
    /\ reqs \in [Threads -> Seq(Keys)]
    /\ result \in [Threads -> {"none", "ok", "malformed", "failed", "internal"}]
    /\ calls \in [Threads -> Nat]
    /\ restarts \in Nat

Fetching(t) == pc[t] \in {"acquire", "post", "write", "insert"}

\* Only one batch is ever in flight: the thread between taking the batch and
\* its return holds the mutex, and whoever holds the mutex across steps is
\* that thread (comment on Thread Roles in backend.rs).
OneBatchInFlight == \A t \in Threads : Fetching(t) <=> lock = t

\* A request waiting for the next batch is not in the cache, nor part of the
\* batch in flight: no key is asked of the endpoint a second time once it is
\* answered, whatever the threads' interleaving.
PendingIsMissing == \A k \in pending : cache[k] = Missing /\ k \notin batch

\* batch_start is set exactly while requests are pending, so that a pending
\* request always has a running or expired timer that will fire its batch.
TimerIffPending == batch_start = "none" <=> pending = {}

\* A full batch never waits: the thread that fills it fetches it.
FullBatchFires == pending # {} => Cardinality(pending) < BatchSize

\* The error "fetcher did not receive all keys" is unreachable: a fetcher's
\* keys are all cached, or in the batch it inserts.
FetcherReceivesAllKeys == \A t \in Threads : result[t] # "internal"

\* A pending request has a thread waiting for it.  (A thread that leaves on an
\* unparsable value may leave another request of its slice behind.)
NoOrphanRequest ==
    (\A k \in Keys : cache[k] # "bad") =>
        \A k \in pending : \E t \in Threads :
            pc[t] \in {"sleep", "woken"} /\ k \in KeysOf(reqs[t])

\* Disk and cache never disagree on a key: what is on disk is in the cache
\* with the same value, except for the one entry between its disk write and
\* its insertion.
DiskAgreesWithCache ==
    \A k \in Keys : disk[k] # Missing =>
        \/ cache[k] = disk[k]
        \/ cache[k] = Missing /\ entry = [key |-> k, value |-> disk[k]]

\* The safety of the backend, crashes included: one batch in flight, a pending
\* queue of missing requests with a running timer and never a full batch, every
\* fetcher served by its batch, and a disk that agrees with the cache.
BackendSound ==
    /\ TypeOK
    /\ OneBatchInFlight
    /\ PendingIsMissing /\ TimerIffPending /\ FullBatchFires
    /\ FetcherReceivesAllKeys
    /\ DiskAgreesWithCache

\* A cached value is never replaced or dropped while the process lives, so
\* the readers' key-by-key scan of the lock-free map is a consistent snapshot.
WriteOnce ==
    [][restarts' = restarts =>
          \A k \in Keys : cache[k] # Missing => cache'[k] = cache[k]]_vars

\* Every call of fetch_or_wait returns, even if the endpoint never answers.
CallReturns == \A t \in Threads : pc[t] # "idle" ~> pc[t] = "idle"

\* fetch_or_wait implements the abstract fetch service.
Service == INSTANCE FetchService WITH
    store <- cache,
    open  <- [t \in Threads |-> pc[t] # "idle"],
    asked <- reqs,
    reply <- result

ImplementsService == Service!Spec
=============================================================================
