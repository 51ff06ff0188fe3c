------------------------- MODULE SharedBackendProofs -------------------------
(***************************************************************************)
(* Proofs about SharedBackend for any number of threads and keys, any      *)
(* batch size and any number of retries, calls and restarts, and about the *)
(* RateLimiter that paces its requests.                                    *)
(***************************************************************************)
EXTENDS SharedBackend, RateLimiter, FiniteSetTheorems, ProofBasics, TLAPS

\* What the fetcher has taken is still missing from the cache, and nothing is
\* in flight while the mutex is free.
BatchIsMissing ==
    /\ \A k \in batch : cache[k] = Missing
    /\ lock = Nobody => batch = {}

\* An entry is in hand exactly between its disk write and its insertion.
EntryInHand ==
    /\ \A t \in Threads : pc[t] = "insert" => entry \in [key : batch, value : Values]
    /\ (\A t \in Threads : pc[t] # "insert") => entry = NoEntry

\* Whatever the fetcher misses is in the batch it fetches.
FetcherCovered ==
    \A t \in Threads : Fetching(t) => StillMissing(reqs[t]) \subseteq batch

\* The inductive invariant.
IInv ==
    /\ TypeOK
    /\ OneBatchInFlight
    /\ PendingIsMissing
    /\ TimerIffPending
    /\ FullBatchFires
    /\ BatchIsMissing
    /\ EntryInHand
    /\ FetcherCovered
    /\ FetcherReceivesAllKeys
    /\ DiskAgreesWithCache

\* A set of keys has a cardinality.
LEMMA KeySetCardinality ==
    \A S \in SUBSET Keys : Cardinality(S) \in Nat
BY FS_Subset, FS_CardinalityType, KeysAssumption

\* The keys of a slice are keys.
LEMMA SliceKeys ==
    ASSUME NEW rs \in Seq(Keys)
    PROVE  KeysOf(rs) \subseteq Keys
BY DEF KeysOf

\* The fetcher's read fails with "internal" only if a key is missing.
LEMMA CoveredSliceReads ==
    ASSUME NEW rs \in Seq(Keys), StillMissing(rs) = {}
    PROVE  ReadOwnKeys(rs) \in {"ok", "malformed"}
BY DEF ReadOwnKeys, Misses, StopsAt, StillMissing, KeysOf

\* The fast path never answers "internal".
LEMMA FastPathAnswers ==
    ASSUME NEW rs PROVE TryFastPath(rs) \in {"ok", "malformed", "miss"}
BY DEF TryFastPath

\* The initial state satisfies the invariant.
LEMMA InitIInv == Init => IInv
<1> SUFFICES ASSUME Init PROVE IInv
    OBVIOUS
<1> USE DEF Init
<1>1. TypeOK
    BY NumbersAssumption DEF TypeOK, NoEntry, Values, Missing
<1>2. OneBatchInFlight
    BY NobodyAssumption DEF OneBatchInFlight, Fetching
<1>3. PendingIsMissing /\ TimerIffPending /\ FullBatchFires
    BY DEF PendingIsMissing, TimerIffPending, FullBatchFires
<1>4. BatchIsMissing /\ EntryInHand
    BY DEF BatchIsMissing, EntryInHand
<1>5. FetcherCovered /\ FetcherReceivesAllKeys /\ DiskAgreesWithCache
    BY DEF FetcherCovered, Fetching, FetcherReceivesAllKeys, DiskAgreesWithCache
<1> QED
    BY <1>1, <1>2, <1>3, <1>4, <1>5 DEF IInv

\* Calling fetch_or_wait preserves the invariant.
LEMMA CallIInv ==
    ASSUME IInv, NEW t \in Threads, NEW rs \in Slices, Call(t, rs)
    PROVE  IInv'
<1> USE DEF Call, batchVars
<1> DEFINE r == TryFastPath(rs)
<1>0. rs \in Seq(Keys) /\ r \in {"ok", "malformed", "miss"}
    BY SlicesAssumption, FastPathAnswers
<1>p. /\ \A u \in Threads : u # t => pc'[u] = pc[u] /\ reqs'[u] = reqs[u]
      /\ pc'[t] \in {"idle", "lock"}
      /\ pc[t] = "idle"
    BY DEF IInv, TypeOK, Return
<1>1. TypeOK'
    <2>1. pc' \in [Threads -> {"idle", "lock", "sleep", "woken", "acquire", "post",
                              "write", "insert"}]
        BY DEF IInv, TypeOK, Return
    <2>2. result' \in [Threads -> {"none", "ok", "malformed", "failed", "internal"}]
        BY <1>0 DEF IInv, TypeOK, Return
    <2>3. reqs' \in [Threads -> Seq(Keys)] /\ calls' \in [Threads -> Nat]
        BY <1>0 DEF IInv, TypeOK
    <2> QED
        BY <2>1, <2>2, <2>3 DEF IInv, TypeOK
<1>2. OneBatchInFlight'
    BY <1>p DEF IInv, OneBatchInFlight, Fetching
<1>3. PendingIsMissing' /\ TimerIffPending' /\ FullBatchFires' /\ BatchIsMissing'
    BY DEF IInv, PendingIsMissing, TimerIffPending, FullBatchFires, BatchIsMissing
<1>4. EntryInHand'
    BY <1>p DEF IInv, EntryInHand
<1>5. FetcherCovered'
    BY <1>p DEF IInv, FetcherCovered, Fetching, StillMissing
<1>6. FetcherReceivesAllKeys'
    BY <1>0 DEF IInv, TypeOK, FetcherReceivesAllKeys, Return
<1>7. DiskAgreesWithCache'
    BY DEF IInv, DiskAgreesWithCache
<1> QED
    BY <1>1, <1>2, <1>3, <1>4, <1>5, <1>6, <1>7 DEF IInv

\* A round of the slow-path loop preserves the invariant: the thread takes the
\* batch or goes to sleep.
LEMMA LoopIInv ==
    ASSUME IInv, NEW t \in Threads, pc[t] \in {"lock", "woken"}, lock = Nobody,
           SlowPathLoop(t)
    PROVE  IInv'
<1> DEFINE E == Enqueued(t)
<1>0. /\ E \subseteq Keys
      /\ \A k \in E : cache[k] = Missing
      /\ StillMissing(reqs[t]) \subseteq E
    BY SliceKeys DEF IInv, TypeOK, PendingIsMissing, Enqueued, StillMissing
<1>n. /\ UNCHANGED <<cache, disk, entry, reqs, result, calls, restarts>>
      /\ batch = {}
      /\ \A u \in Threads : ~Fetching(u)
    BY NobodyAssumption DEF IInv, SlowPathLoop, BatchIsMissing, OneBatchInFlight
<1>a. CASE TakeBatch(t)
    <2> USE <1>a DEF TakeBatch
    <2>p. /\ \A u \in Threads : u # t => pc'[u] = pc[u]
          /\ pc'[t] = "acquire"
        BY DEF IInv, TypeOK
    <2>1. TypeOK'
        BY <1>0, <1>n DEF IInv, TypeOK
    <2>2. OneBatchInFlight'
        BY <1>n, <2>p DEF IInv, OneBatchInFlight, Fetching
    <2>3. PendingIsMissing' /\ TimerIffPending' /\ FullBatchFires'
        BY DEF PendingIsMissing, TimerIffPending, FullBatchFires
    <2>4. BatchIsMissing'
        BY <1>0, <1>n, NobodyAssumption DEF BatchIsMissing
    <2>5. EntryInHand'
        BY <1>n, <2>p DEF IInv, EntryInHand, Fetching
    <2>6. FetcherCovered'
        BY <1>0, <1>n, <2>p DEF FetcherCovered, Fetching, StillMissing
    <2>7. FetcherReceivesAllKeys' /\ DiskAgreesWithCache'
        BY <1>n DEF IInv, FetcherReceivesAllKeys, DiskAgreesWithCache
    <2> QED
        BY <2>1, <2>2, <2>3, <2>4, <2>5, <2>6, <2>7 DEF IInv
<1>b. CASE WaitFor(t)
    <2> USE <1>b DEF WaitFor
    <2>p. /\ \A u \in Threads : u # t => pc'[u] = pc[u]
          /\ pc'[t] = "sleep"
        BY DEF IInv, TypeOK
    <2>1. TypeOK'
        BY <1>0, <1>n DEF IInv, TypeOK, StartAfter
    <2>2. OneBatchInFlight'
        BY <1>n, <2>p DEF IInv, OneBatchInFlight, Fetching
    <2>3. PendingIsMissing'
        BY <1>0, <1>n DEF PendingIsMissing
    <2>4. TimerIffPending'
        BY DEF IInv, TimerIffPending, StartAfter, Enqueued
    <2>5. FullBatchFires'
        <3>1. Cardinality(E) \in Nat
            BY <1>0, KeySetCardinality
        <3>2. ~(Cardinality(E) >= BatchSize)
            BY DEF ShouldFetch
        <3> QED
            BY <3>1, <3>2, NumbersAssumption DEF FullBatchFires
    <2>6. BatchIsMissing'
        BY <1>n DEF IInv, BatchIsMissing
    <2>7. EntryInHand' /\ FetcherCovered'
        BY <1>n, <2>p DEF IInv, EntryInHand, FetcherCovered, Fetching
    <2>8. FetcherReceivesAllKeys' /\ DiskAgreesWithCache'
        BY <1>n DEF IInv, FetcherReceivesAllKeys, DiskAgreesWithCache
    <2> QED
        BY <2>1, <2>2, <2>3, <2>4, <2>5, <2>6, <2>7, <2>8 DEF IInv
<1> QED
    BY <1>a, <1>b DEF SlowPathLoop

\* The end of wait_for by timeout preserves the invariant.
LEMMA WaitTimeoutIInv ==
    ASSUME IInv, NEW t \in Threads, WaitTimeout(t)
    PROVE  IInv'
<1> USE DEF WaitTimeout, batchVars
<1>p. /\ \A u \in Threads : u # t => pc'[u] = pc[u]
      /\ pc'[t] = "woken" /\ pc[t] = "sleep"
    BY DEF IInv, TypeOK
<1>1. TypeOK'
    BY DEF IInv, TypeOK
<1>2. OneBatchInFlight'
    BY <1>p DEF IInv, OneBatchInFlight, Fetching
<1>3. PendingIsMissing' /\ TimerIffPending' /\ FullBatchFires' /\ BatchIsMissing'
    BY DEF IInv, PendingIsMissing, TimerIffPending, FullBatchFires, BatchIsMissing
<1>4. EntryInHand'
    BY <1>p DEF IInv, EntryInHand
<1>5. FetcherCovered'
    BY <1>p DEF IInv, FetcherCovered, Fetching, StillMissing
<1>6. FetcherReceivesAllKeys' /\ DiskAgreesWithCache'
    BY DEF IInv, FetcherReceivesAllKeys, DiskAgreesWithCache
<1> QED
    BY <1>1, <1>2, <1>3, <1>4, <1>5, <1>6 DEF IInv

\* A woken thread that returns, or runs another round, preserves the invariant.
LEMMA ReenterIInv ==
    ASSUME IInv, NEW t \in Threads, Reenter(t)
    PROVE  IInv'
<1>a. CASE SlowPathLoop(t)
    BY <1>a, LoopIInv DEF Reenter
<1>b. CASE /\ TryFastPath(reqs[t]) # "miss"
           /\ Return(t, TryFastPath(reqs[t]))
           /\ UNCHANGED <<cache, disk, batchVars, reqs, calls, restarts>>
    <2> USE <1>b DEF Return, batchVars
    <2>0. TryFastPath(reqs[t]) \in {"ok", "malformed"}
        BY FastPathAnswers
    <2>p. /\ \A u \in Threads : u # t => pc'[u] = pc[u]
          /\ pc'[t] = "idle" /\ pc[t] = "woken"
        BY DEF IInv, TypeOK, Reenter
    <2>1. TypeOK'
        BY <2>0 DEF IInv, TypeOK
    <2>2. OneBatchInFlight'
        BY <2>p DEF IInv, OneBatchInFlight, Fetching
    <2>3. PendingIsMissing' /\ TimerIffPending' /\ FullBatchFires' /\ BatchIsMissing'
        BY DEF IInv, PendingIsMissing, TimerIffPending, FullBatchFires, BatchIsMissing
    <2>4. EntryInHand'
        BY <2>p DEF IInv, EntryInHand
    <2>5. FetcherCovered'
        BY <2>p DEF IInv, FetcherCovered, Fetching, StillMissing
    <2>6. FetcherReceivesAllKeys'
        BY <2>0 DEF IInv, TypeOK, FetcherReceivesAllKeys
    <2>7. DiskAgreesWithCache'
        BY DEF IInv, DiskAgreesWithCache
    <2> QED
        BY <2>1, <2>2, <2>3, <2>4, <2>5, <2>6, <2>7 DEF IInv
<1> QED
    BY <1>a, <1>b DEF Reenter

\* Taking the rate-limiter token preserves the invariant.
LEMMA AcquireTokenIInv ==
    ASSUME IInv, NEW t \in Threads, AcquireToken(t)
    PROVE  IInv'
<1> USE DEF AcquireToken
<1>p. /\ \A u \in Threads : u # t => pc'[u] = pc[u]
      /\ pc'[t] = "post" /\ pc[t] = "acquire"
    BY DEF IInv, TypeOK
<1>1. TypeOK'
    BY DEF IInv, TypeOK
<1>2. OneBatchInFlight'
    BY <1>p DEF IInv, OneBatchInFlight, Fetching
<1>3. PendingIsMissing' /\ TimerIffPending' /\ FullBatchFires' /\ BatchIsMissing'
    BY DEF IInv, PendingIsMissing, TimerIffPending, FullBatchFires, BatchIsMissing
<1>4. EntryInHand'
    BY <1>p DEF IInv, EntryInHand
<1>5. FetcherCovered'
    BY <1>p DEF IInv, FetcherCovered, Fetching, StillMissing
<1>6. FetcherReceivesAllKeys' /\ DiskAgreesWithCache'
    BY DEF IInv, FetcherReceivesAllKeys, DiskAgreesWithCache
<1> QED
    BY <1>1, <1>2, <1>3, <1>4, <1>5, <1>6 DEF IInv

\* The effect of notify_all and the fetcher's return on the threads.
LEMMA NotifyEffect ==
    ASSUME IInv, NEW t \in Threads, lock = t, NEW r, NotifyAndReturn(t, r)
    PROVE  /\ pc' \in [Threads -> {"idle", "lock", "sleep", "woken", "acquire", "post",
                                   "write", "insert"}]
           /\ \A u \in Threads : ~Fetching(u)'
           /\ \A u \in Threads : u # t => result'[u] = result[u]
           /\ result'[t] = r
<1>1. \A u \in Threads : u # t => ~Fetching(u)
    BY DEF IInv, OneBatchInFlight
<1> QED
    BY <1>1 DEF IInv, TypeOK, NotifyAndReturn, Fetching

\* A POST, answered or failed, preserves the invariant.
LEMMA PostIInv ==
    ASSUME IInv, NEW t \in Threads,
           NEW outcome \in {"answered", "transient", "permanent"}, Post(t, outcome)
    PROVE  IInv'
<1>0. pc[t] = "post" /\ lock = t
    BY DEF Post, IInv, OneBatchInFlight, Fetching
<1>u. /\ UNCHANGED <<cache, disk, pending, batch_start, entry, tokens, reqs, calls,
                     restarts>>
      /\ attempt' = attempt + 1
    BY DEF Post
<1>a. CASE /\ pc' = [pc EXCEPT ![t] = "write"] \/ pc' = pc
           /\ UNCHANGED <<lock, batch, result>>
    <2>p. /\ \A u \in Threads : u # t => pc'[u] = pc[u]
          /\ pc'[t] \in {"write", "post"}
        BY <1>0, <1>a DEF IInv, TypeOK
    <2>1. TypeOK'
        <3>1. pc' \in [Threads -> {"idle", "lock", "sleep", "woken", "acquire", "post",
                                  "write", "insert"}]
            BY <1>a DEF IInv, TypeOK
        <3>2. attempt' \in Nat
            BY <1>u DEF IInv, TypeOK
        <3> QED
            BY <1>u, <1>a, <3>1, <3>2 DEF IInv, TypeOK
    <2>2. OneBatchInFlight'
        BY <1>0, <1>a, <2>p DEF IInv, OneBatchInFlight, Fetching
    <2>3. PendingIsMissing' /\ TimerIffPending' /\ FullBatchFires' /\ BatchIsMissing'
        BY <1>u, <1>a
        DEF IInv, PendingIsMissing, TimerIffPending, FullBatchFires, BatchIsMissing
    <2>4. EntryInHand'
        BY <1>0, <1>u, <1>a, <2>p DEF IInv, EntryInHand
    <2>5. FetcherCovered'
        BY <1>0, <1>u, <1>a, <2>p DEF IInv, FetcherCovered, Fetching, StillMissing
    <2>6. FetcherReceivesAllKeys' /\ DiskAgreesWithCache'
        BY <1>u, <1>a DEF IInv, FetcherReceivesAllKeys, DiskAgreesWithCache
    <2> QED
        BY <2>1, <2>2, <2>3, <2>4, <2>5, <2>6 DEF IInv
<1>b. CASE lock' = Nobody /\ batch' = {} /\ NotifyAndReturn(t, "failed")
    <2>p. /\ pc' \in [Threads -> {"idle", "lock", "sleep", "woken", "acquire", "post",
                                  "write", "insert"}]
          /\ \A u \in Threads : ~Fetching(u)'
          /\ \A u \in Threads : u # t => result'[u] = result[u]
          /\ result'[t] = "failed"
        BY <1>0, <1>b, NotifyEffect
    <2>1. TypeOK'
        BY <1>u, <1>b, <2>p DEF IInv, TypeOK, NotifyAndReturn
    <2>2. OneBatchInFlight'
        BY <1>b, <2>p, NobodyAssumption DEF OneBatchInFlight
    <2>3. PendingIsMissing' /\ TimerIffPending' /\ FullBatchFires' /\ BatchIsMissing'
        BY <1>u, <1>b
        DEF IInv, PendingIsMissing, TimerIffPending, FullBatchFires, BatchIsMissing
    <2>4. EntryInHand'
        <3>1. \A u \in Threads : pc[u] # "insert"
            BY <1>0 DEF IInv, OneBatchInFlight, Fetching
        <3>2. \A u \in Threads : pc'[u] # "insert"
            BY <2>p DEF Fetching
        <3> QED
            BY <3>1, <3>2, <1>u DEF IInv, EntryInHand
    <2>5. FetcherCovered'
        BY <2>p DEF FetcherCovered
    <2>6. FetcherReceivesAllKeys' /\ DiskAgreesWithCache'
        BY <1>u, <2>p DEF IInv, FetcherReceivesAllKeys, DiskAgreesWithCache
    <2> QED
        BY <2>1, <2>2, <2>3, <2>4, <2>5, <2>6 DEF IInv
<1> QED
    BY <1>a, <1>b DEF Post

\* Writing an answer to disk preserves the invariant.
LEMMA WriteDiskIInv ==
    ASSUME IInv, NEW t \in Threads, NEW k \in Keys, NEW v \in Values,
           WriteDisk(t, k, v)
    PROVE  IInv'
<1> USE DEF WriteDisk
<1>p. /\ \A u \in Threads : u # t => pc'[u] = pc[u] /\ pc[u] # "insert"
      /\ pc'[t] = "insert" /\ pc[t] = "write" /\ lock = t
    BY DEF IInv, TypeOK, OneBatchInFlight, Fetching
<1>e. entry = NoEntry /\ cache[k] = Missing
    BY <1>p DEF IInv, EntryInHand, BatchIsMissing
<1>1. TypeOK'
    BY DEF IInv, TypeOK, Values, Missing
<1>2. OneBatchInFlight'
    BY <1>p DEF IInv, OneBatchInFlight, Fetching
<1>3. PendingIsMissing' /\ TimerIffPending' /\ FullBatchFires' /\ BatchIsMissing'
    BY DEF IInv, PendingIsMissing, TimerIffPending, FullBatchFires, BatchIsMissing
<1>4. EntryInHand'
    BY <1>p DEF IInv, EntryInHand
<1>5. FetcherCovered'
    BY <1>p DEF IInv, FetcherCovered, Fetching, StillMissing
<1>6. FetcherReceivesAllKeys'
    BY DEF IInv, FetcherReceivesAllKeys
<1>7. DiskAgreesWithCache'
    <2> SUFFICES ASSUME NEW x \in Keys, disk'[x] # Missing
                 PROVE  \/ cache'[x] = disk'[x]
                        \/ cache'[x] = Missing /\ entry' = [key |-> x, value |-> disk'[x]]
        BY DEF DiskAgreesWithCache
    <2>0. \A y \in Keys : disk[y] # Missing => cache[y] = disk[y]
        <3>1. \A y \in Keys, w \in Values \cup {Missing} :
                  w # Missing => entry # [key |-> y, value |-> w]
            BY <1>e DEF NoEntry
        <3> QED
            BY <3>1 DEF IInv, TypeOK, DiskAgreesWithCache
    <2>1. CASE disk' = disk
        BY <2>0, <2>1
    <2>2. CASE disk' = [disk EXCEPT ![k] = v]
        BY <2>0, <2>2, <1>e DEF IInv, TypeOK
    <2> QED
        BY <2>1, <2>2
<1> QED
    BY <1>1, <1>2, <1>3, <1>4, <1>5, <1>6, <1>7 DEF IInv

\* Publishing an answer in the cache preserves the invariant.
LEMMA InsertIInv ==
    ASSUME IInv, NEW t \in Threads, Insert(t)
    PROVE  IInv'
<1> USE DEF Insert
<1>p. /\ \A u \in Threads : u # t => pc'[u] = pc[u] /\ ~Fetching(u)
      /\ pc'[t] = "write" /\ pc[t] = "insert" /\ lock = t
    BY DEF IInv, TypeOK, OneBatchInFlight, Fetching
<1>e. /\ entry.key \in batch /\ entry.key \in Keys
      /\ entry.value \in Values
      /\ entry = [key |-> entry.key, value |-> entry.value]
    BY <1>p DEF IInv, EntryInHand, TypeOK
<1>c. /\ cache'[entry.key] = entry.value
      /\ \A x \in Keys : x # entry.key => cache'[x] = cache[x]
    BY <1>e DEF IInv, TypeOK
<1>1. TypeOK'
    BY <1>e DEF IInv, TypeOK
<1>2. OneBatchInFlight'
    BY <1>p DEF IInv, OneBatchInFlight, Fetching
<1>3. PendingIsMissing'
    BY <1>e, <1>c DEF IInv, TypeOK, PendingIsMissing
<1>4. TimerIffPending' /\ FullBatchFires'
    BY DEF IInv, TimerIffPending, FullBatchFires
<1>5. BatchIsMissing'
    BY <1>c, <1>p, NobodyAssumption DEF IInv, TypeOK, BatchIsMissing
<1>6. EntryInHand'
    BY <1>p DEF EntryInHand, Fetching
<1>7. FetcherCovered'
    <2> SUFFICES StillMissing(reqs[t])' \subseteq batch'
        BY <1>p DEF FetcherCovered, Fetching
    <2>1. StillMissing(reqs[t]) \subseteq batch
        BY <1>p DEF IInv, FetcherCovered, Fetching
    <2>2. entry.value # Missing
        BY <1>e DEF Values, Missing
    <2>3. KeysOf(reqs[t]) \subseteq Keys
        BY SliceKeys DEF IInv, TypeOK
    <2> QED
        BY <2>1, <2>2, <2>3, <1>c DEF StillMissing
<1>8. FetcherReceivesAllKeys'
    BY DEF IInv, FetcherReceivesAllKeys
<1>9. DiskAgreesWithCache'
    <2> SUFFICES ASSUME NEW x \in Keys, disk[x] # Missing
                 PROVE  cache'[x] = disk[x]
        BY DEF DiskAgreesWithCache
    <2>1. cache[x] = disk[x] \/ entry = [key |-> x, value |-> disk[x]]
        BY DEF IInv, DiskAgreesWithCache
    <2>2. cache[entry.key] = Missing
        BY <1>e DEF IInv, BatchIsMissing
    <2>3. CASE x = entry.key
        BY <2>1, <2>2, <2>3, <1>c
    <2>4. CASE x # entry.key
        BY <2>1, <2>4, <1>c
    <2> QED
        BY <2>3, <2>4
<1> QED
    BY <1>1, <1>2, <1>3, <1>4, <1>5, <1>6, <1>7, <1>8, <1>9 DEF IInv

\* The fetcher's return preserves the invariant: with nothing left in its
\* batch it misses no key.
LEMMA FinishIInv ==
    ASSUME IInv, NEW t \in Threads, Finish(t)
    PROVE  IInv'
<1> DEFINE r == ReadOwnKeys(reqs[t])
<1> USE DEF Finish
<1>0. pc[t] = "write" /\ lock = t
    BY DEF IInv, OneBatchInFlight, Fetching
<1>1. r \in {"ok", "malformed"}
    BY <1>0, CoveredSliceReads DEF IInv, TypeOK, FetcherCovered, Fetching
<1>p. /\ pc' \in [Threads -> {"idle", "lock", "sleep", "woken", "acquire", "post",
                              "write", "insert"}]
      /\ \A u \in Threads : ~Fetching(u)'
      /\ \A u \in Threads : u # t => result'[u] = result[u]
      /\ result'[t] = r
    BY <1>0, NotifyEffect
<1>2. TypeOK'
    BY <1>1, <1>p DEF IInv, TypeOK, NotifyAndReturn
<1>3. OneBatchInFlight'
    BY <1>p, NobodyAssumption DEF OneBatchInFlight
<1>4. PendingIsMissing' /\ TimerIffPending' /\ FullBatchFires' /\ BatchIsMissing'
    BY DEF IInv, PendingIsMissing, TimerIffPending, FullBatchFires, BatchIsMissing
<1>5. EntryInHand'
    <2>1. \A u \in Threads : pc[u] # "insert"
        BY <1>0 DEF IInv, OneBatchInFlight, Fetching
    <2>2. \A u \in Threads : pc'[u] # "insert"
        BY <1>p DEF Fetching
    <2> QED
        BY <2>1, <2>2 DEF IInv, EntryInHand
<1>6. FetcherCovered'
    BY <1>p DEF FetcherCovered
<1>7. FetcherReceivesAllKeys'
    BY <1>1, <1>p DEF IInv, FetcherReceivesAllKeys
<1>8. DiskAgreesWithCache'
    BY DEF IInv, DiskAgreesWithCache
<1> QED
    BY <1>2, <1>3, <1>4, <1>5, <1>6, <1>7, <1>8 DEF IInv

\* The batch timer's expiry preserves the invariant.
LEMMA ExpireIInv ==
    ASSUME IInv, Expire
    PROVE  IInv'
<1> USE DEF Expire, callVars
<1>1. TypeOK' /\ TimerIffPending'
    BY DEF IInv, TypeOK, TimerIffPending
<1>2. OneBatchInFlight' /\ PendingIsMissing' /\ FullBatchFires' /\ BatchIsMissing'
    BY DEF IInv, OneBatchInFlight, Fetching, PendingIsMissing, FullBatchFires,
           BatchIsMissing
<1>3. EntryInHand' /\ FetcherCovered'
    BY DEF IInv, EntryInHand, FetcherCovered, Fetching, StillMissing
<1>4. FetcherReceivesAllKeys' /\ DiskAgreesWithCache'
    BY DEF IInv, FetcherReceivesAllKeys, DiskAgreesWithCache
<1> QED
    BY <1>1, <1>2, <1>3, <1>4 DEF IInv

\* A crash at any point, followed by load_disk_cache, preserves the invariant.
LEMMA RestartIInv ==
    ASSUME IInv, Restart
    PROVE  IInv'
<1> USE DEF Restart
<1>1. TypeOK'
    BY DEF IInv, TypeOK
<1>2. OneBatchInFlight'
    BY NobodyAssumption DEF OneBatchInFlight, Fetching
<1>3. PendingIsMissing' /\ TimerIffPending' /\ FullBatchFires' /\ BatchIsMissing'
    BY DEF PendingIsMissing, TimerIffPending, FullBatchFires, BatchIsMissing
<1>4. EntryInHand' /\ FetcherCovered' /\ FetcherReceivesAllKeys'
    BY DEF EntryInHand, FetcherCovered, Fetching, FetcherReceivesAllKeys
<1>5. DiskAgreesWithCache'
    BY DEF DiskAgreesWithCache
<1> QED
    BY <1>1, <1>2, <1>3, <1>4, <1>5 DEF IInv

\* Steps that change nothing.
LEMMA StutterIInv ==
    ASSUME IInv, UNCHANGED vars
    PROVE  IInv'
BY DEF IInv, vars, batchVars, callVars, TypeOK, OneBatchInFlight, Fetching,
       PendingIsMissing, TimerIffPending, FullBatchFires, BatchIsMissing, EntryInHand,
       FetcherCovered, StillMissing, FetcherReceivesAllKeys, DiskAgreesWithCache

\* Every step of the backend preserves the invariant.
LEMMA NextIInv == IInv /\ [Next]_vars => IInv'
<1> SUFFICES ASSUME IInv, [Next]_vars PROVE IInv'
    OBVIOUS
<1>1. CASE \E t \in Threads, rs \in Slices : Call(t, rs)
    BY <1>1, CallIInv
<1>2. CASE \E t \in Threads : ThreadStep(t)
    <2> PICK t \in Threads : ThreadStep(t)
        BY <1>2
    <2>1. CASE Enter(t)
        BY <2>1, LoopIInv DEF Enter
    <2>2. CASE WaitTimeout(t)
        BY <2>2, WaitTimeoutIInv
    <2>3. CASE Reenter(t)
        BY <2>3, ReenterIInv
    <2>4. CASE AcquireToken(t)
        BY <2>4, AcquireTokenIInv
    <2>5. CASE \E outcome \in {"answered", "transient", "permanent"} : Post(t, outcome)
        BY <2>5, PostIInv
    <2>6. CASE \E k \in Keys, v \in Values : WriteDisk(t, k, v)
        BY <2>6, WriteDiskIInv
    <2>7. CASE Insert(t)
        BY <2>7, InsertIInv
    <2>8. CASE Finish(t)
        BY <2>8, FinishIInv
    <2> QED
        BY <2>1, <2>2, <2>3, <2>4, <2>5, <2>6, <2>7, <2>8 DEF ThreadStep
<1>3. CASE Expire
    BY <1>3, ExpireIInv
<1>4. CASE Restart
    BY <1>4, RestartIInv
<1>5. CASE UNCHANGED vars
    BY <1>5, StutterIInv
<1> QED
    BY <1>1, <1>2, <1>3, <1>4, <1>5 DEF Next, AllReturned

\* The inductive invariant holds in every reachable state.
THEOREM Invariance == Spec => []IInv
BY InitIInv, NextIInv, PTL DEF Spec

\* The safety of try_slow_path and the disk cache, for any number of threads,
\* keys, retries and crashes: every part of BackendSound.
THEOREM BackendIsSound == Spec => []BackendSound
<1>1. IInv => BackendSound
    BY DEF IInv, BackendSound
<1> QED
    BY <1>1, Invariance, PTL

\* Type correctness of the backend (BatchState and the threads' positions).
THEOREM TypeCorrect == Spec => []TypeOK
<1>1. IInv => TypeOK
    BY DEF IInv
<1> QED
    BY <1>1, Invariance, PTL

\* Only one batch is in flight, for any number of threads (Thread Roles).
THEOREM SingleFetcher == Spec => []OneBatchInFlight
<1>1. IInv => OneBatchInFlight
    BY DEF IInv
<1> QED
    BY <1>1, Invariance, PTL

\* The pending queue of try_slow_path: its requests are missing, its timer runs
\* while it is not empty, and it never holds a full batch.
THEOREM PendingQueue == Spec => [](PendingIsMissing /\ TimerIffPending /\ FullBatchFires)
<1>1. IInv => PendingIsMissing /\ TimerIffPending /\ FullBatchFires
    BY DEF IInv
<1> QED
    BY <1>1, Invariance, PTL

\* "fetcher did not receive all keys" is unreachable.
THEOREM NoInternalError == Spec => []FetcherReceivesAllKeys
<1>1. IInv => FetcherReceivesAllKeys
    BY DEF IInv
<1> QED
    BY <1>1, Invariance, PTL

\* The disk cache agrees with the cache at every point, crashes included.
THEOREM DiskAgreement == Spec => []DiskAgreesWithCache
<1>1. IInv => DiskAgreesWithCache
    BY DEF IInv
<1> QED
    BY <1>1, Invariance, PTL

\* A cached value is never replaced or dropped while the process lives: only
\* Insert writes the cache, and the batch it inserts is missing from it.
THEOREM CacheIsWriteOnce == Spec => WriteOnce
<1> DEFINE Kept == restarts' = restarts =>
                       \A k \in Keys : cache[k] # Missing => cache'[k] = cache[k]
<1>1. IInv /\ [Next]_vars => [Kept]_vars
    <2> SUFFICES ASSUME IInv, Next, restarts' = restarts,
                        NEW k \in Keys, cache[k] # Missing
                 PROVE  cache'[k] = cache[k]
        OBVIOUS
    <2>1. CASE \E t \in Threads : Insert(t)
        <3> PICK t \in Threads : Insert(t)
            BY <2>1
        <3>1. entry.key # k
            BY DEF Insert, IInv, EntryInHand, BatchIsMissing
        <3> QED
            BY <3>1 DEF Insert, IInv, TypeOK
    <2>2. CASE cache' = cache
        BY <2>2
    <2>3. ~Restart
        BY DEF Restart, IInv, TypeOK
    <2> QED
        BY <2>1, <2>2, <2>3
        DEF Next, ThreadStep, Call, Enter, SlowPathLoop, WaitTimeout, Reenter,
            AcquireToken, Post, WriteDisk, Finish, Expire, AllReturned, vars
<1> QED
    BY <1>1, Invariance, PTL DEF Spec, WriteOnce

-----------------------------------------------------------------------------
(* Where a scan of the cache stops.  That a scan which neither passes nor   *)
(* misses has met an unparsable value needs the first index at which it     *)
(* does not go on: the least-number principle.                              *)

\* A scan that finds no unparsable value passes or misses.
LEMMA ScanStops ==
    ASSUME NEW rs \in Seq(Keys), cache \in [Keys -> Values \cup {Missing}],
           ~Clean(rs), ~Misses(rs)
    PROVE  \E i \in DOMAIN rs : cache[rs[i]] = "bad"
<1> DEFINE T == {i \in DOMAIN rs : cache[rs[i]] # "good"}
<1>1. T \in SUBSET Nat /\ T # {}
    BY DEF Clean
<1>2. PICK i \in T : \A j \in T : i <= j
    BY <1>1, LeastNatural
<1>3. \A j \in DOMAIN rs : j < i => cache[rs[j]] = "good"
    BY <1>2
<1>4. cache[rs[i]] # Missing
    BY <1>2, <1>3 DEF Misses, StopsAt
<1>5. rs[i] \in Keys
    BY <1>2
<1> QED
    BY <1>2, <1>4, <1>5 DEF Values

\* The fast path answers "ok" for clean slices only, and "malformed" only when
\* a value of the slice does not parse.
LEMMA FastPathJustified ==
    ASSUME NEW rs \in Seq(Keys), cache \in [Keys -> Values \cup {Missing}]
    PROVE  /\ TryFastPath(rs) = "ok" => Clean(rs)
           /\ TryFastPath(rs) = "malformed" => \E i \in DOMAIN rs : cache[rs[i]] = "bad"
BY ScanStops DEF TryFastPath

\* The same for the fetcher's read of its own keys.
LEMMA OwnReadJustified ==
    ASSUME NEW rs \in Seq(Keys), cache \in [Keys -> Values \cup {Missing}]
    PROVE  /\ ReadOwnKeys(rs) = "ok" => Clean(rs)
           /\ ReadOwnKeys(rs) = "malformed" => \E i \in DOMAIN rs : cache[rs[i]] = "bad"
BY ScanStops DEF ReadOwnKeys

-----------------------------------------------------------------------------
(* No pending request is left without a thread that waits for it *)

\* A thread that joins the loop takes the batch, or waits for what it added.
LEMMA LoopKeepsOwners ==
    ASSUME IInv, NoOrphanRequest, NEW t \in Threads, SlowPathLoop(t)
    PROVE  NoOrphanRequest'
<1>u. cache' = cache /\ reqs' = reqs
    BY DEF SlowPathLoop
<1>a. CASE TakeBatch(t)
    BY <1>a DEF TakeBatch, NoOrphanRequest
<1>b. CASE WaitFor(t)
    <2> SUFFICES ASSUME \A k \in Keys : cache[k] # "bad", NEW k \in pending'
                 PROVE  \E u \in Threads : pc'[u] \in {"sleep", "woken"} /\ k \in KeysOf(reqs[u])
        BY <1>u DEF NoOrphanRequest, KeysOf
    <2>p. /\ \A u \in Threads : u # t => pc'[u] = pc[u]
          /\ pc'[t] = "sleep"
        BY <1>b DEF WaitFor, IInv, TypeOK
    <2>1. CASE k \in pending
        BY <2>1, <2>p DEF NoOrphanRequest
    <2>2. CASE k \in StillMissing(reqs[t])
        BY <2>2, <2>p DEF StillMissing
    <2> QED
        BY <1>b, <2>1, <2>2 DEF WaitFor, Enqueued
<1> QED
    BY <1>a, <1>b DEF SlowPathLoop

\* Every step of the backend keeps a waiting thread for every pending request.
LEMMA StepKeepsOwners ==
    ASSUME IInv, NoOrphanRequest, [Next]_vars
    PROVE  NoOrphanRequest'
<1> USE DEF NoOrphanRequest
<1>1. ASSUME pending' = pending,
             \A k \in Keys : cache[k] = "bad" => cache'[k] = "bad",
             \A u \in Threads : pc[u] \in {"sleep", "woken"} =>
                 pc'[u] \in {"sleep", "woken"} /\ reqs'[u] = reqs[u]
      PROVE  NoOrphanRequest'
    BY <1>1 DEF KeysOf
<1>2. ASSUME NEW t \in Threads, NEW rs \in Slices, Call(t, rs)
      PROVE  NoOrphanRequest'
    BY <1>1, <1>2 DEF Call, Return, batchVars, IInv, TypeOK
<1>3. ASSUME NEW t \in Threads, ThreadStep(t) PROVE NoOrphanRequest'
    <2>1. CASE Enter(t)
        BY <2>1, LoopKeepsOwners DEF Enter
    <2>2. CASE WaitTimeout(t)
        BY <1>1, <2>2 DEF WaitTimeout, batchVars, IInv, TypeOK
    <2>3. CASE Reenter(t)
        <3>1. CASE SlowPathLoop(t)
            BY <3>1, LoopKeepsOwners
        <3>2. CASE /\ TryFastPath(reqs[t]) # "miss"
                   /\ Return(t, TryFastPath(reqs[t]))
                   /\ UNCHANGED <<cache, disk, batchVars, reqs, calls, restarts>>
            <4> SUFFICES ASSUME \A k \in Keys : cache[k] # "bad", NEW k \in pending
                         PROVE  \E u \in Threads : pc'[u] \in {"sleep", "woken"} /\ k \in KeysOf(reqs[u])
                BY <3>2 DEF batchVars, KeysOf
            <4>0. reqs[t] \in Seq(Keys)
                BY DEF IInv, TypeOK
            <4>1. Clean(reqs[t])
                <5>1. \A i \in DOMAIN reqs[t] : cache[reqs[t][i]] # "bad"
                    BY <4>0
                <5>2. TryFastPath(reqs[t]) # "malformed"
                    BY <4>0, <5>1, FastPathJustified DEF IInv, TypeOK
                <5> QED
                    BY <3>2, <4>0, <5>2, FastPathAnswers, FastPathJustified DEF IInv, TypeOK
            <4>2. k \notin KeysOf(reqs[t])
                BY <4>1 DEF Clean, KeysOf, IInv, PendingIsMissing, Missing
            <4>3. PICK u \in Threads : pc[u] \in {"sleep", "woken"} /\ k \in KeysOf(reqs[u])
                OBVIOUS
            <4> QED
                BY <3>2, <4>2, <4>3 DEF Return, IInv, TypeOK
        <3> QED
            BY <2>3, <3>1, <3>2 DEF Reenter
    <2>4. CASE AcquireToken(t)
        BY <1>1, <2>4 DEF AcquireToken, IInv, TypeOK
    <2>5. CASE \E outcome \in {"answered", "transient", "permanent"} : Post(t, outcome)
        BY <1>1, <2>5 DEF Post, NotifyAndReturn, IInv, TypeOK
    <2>6. CASE \E k \in Keys, v \in Values : WriteDisk(t, k, v)
        BY <1>1, <2>6 DEF WriteDisk, IInv, TypeOK
    <2>7. CASE Insert(t)
        <3>1. \A k \in Keys : cache[k] = "bad" => cache'[k] = "bad"
            BY <2>7 DEF Insert, IInv, TypeOK, EntryInHand, BatchIsMissing, Missing
        <3> QED
            BY <1>1, <2>7, <3>1 DEF Insert, IInv, TypeOK
    <2>8. CASE Finish(t)
        BY <1>1, <2>8 DEF Finish, NotifyAndReturn, IInv, TypeOK
    <2> QED
        BY <1>3, <2>1, <2>2, <2>3, <2>4, <2>5, <2>6, <2>7, <2>8 DEF ThreadStep
<1>4. CASE Expire
    BY <1>1, <1>4 DEF Expire, callVars
<1>5. CASE Restart
    BY <1>5 DEF Restart
<1>6. CASE UNCHANGED vars
    BY <1>1, <1>6 DEF vars, batchVars, callVars
<1> QED
    BY <1>2, <1>3, <1>4, <1>5, <1>6 DEF Next, AllReturned

\* A request in the pending batch always has a thread waiting for it, unless a
\* cached value does not parse: a timeout never fires a batch for nobody.
THEOREM PendingHasOwner == Spec => []NoOrphanRequest
<1>1. Init => NoOrphanRequest
    BY DEF Init, NoOrphanRequest
<1>2. IInv /\ NoOrphanRequest /\ [Next]_vars => NoOrphanRequest'
    BY StepKeepsOwners
<1> QED
    BY <1>1, <1>2, Invariance, PTL DEF Spec

-----------------------------------------------------------------------------
(* The backend implements FetchService: the store is the cache, a call is   *)
(* open while its thread is inside fetch_or_wait                            *)

\* A return from inside the backend is an answer of the service.
LEMMA ReturnIsAnswer ==
    ASSUME IInv, NEW t \in Threads, pc[t] # "idle",
           NEW r \in {"ok", "malformed", "failed"},
           r = "failed" \/ Service!Justified(reqs[t], r),
           UNCHANGED <<cache, reqs>>,
           result' = [result EXCEPT ![t] = r],
           \A u \in Threads : u # t => (pc'[u] # "idle" <=> pc[u] # "idle"),
           pc' \in [Threads -> {"idle", "lock", "sleep", "woken", "acquire", "post",
                                "write", "insert"}],
           pc'[t] = "idle"
    PROVE  Service!Next
<1>1. [u \in Threads |-> pc[u] # "idle"]' = [[u \in Threads |-> pc[u] # "idle"] EXCEPT ![t] = FALSE]
    OBVIOUS
<1>2. Service!Answer(t, r)
    BY <1>1 DEF Service!Answer
<1> QED
    BY <1>2 DEF Service!Next

\* A step that leaves the cache and the open calls alone is not seen.
LEMMA InnerStepIsInvisible ==
    ASSUME UNCHANGED <<cache, reqs, result>>,
           \A u \in Threads : pc'[u] # "idle" <=> pc[u] # "idle"
    PROVE  UNCHANGED Service!vars
BY DEF Service!vars

\* Every step of the backend is a step of the service, or is not seen.
LEMMA StepImplements ==
    ASSUME IInv, IInv', [Next]_vars
    PROVE  [Service!Next]_(Service!vars)
<1>t. /\ cache \in [Keys -> Values \cup {Missing}]
      /\ pc \in [Threads -> {"idle", "lock", "sleep", "woken", "acquire", "post",
                             "write", "insert"}]
      /\ pc' \in [Threads -> {"idle", "lock", "sleep", "woken", "acquire", "post",
                              "write", "insert"}]
      /\ reqs \in [Threads -> Seq(Keys)]
    BY DEF IInv, TypeOK
<1>1. ASSUME NEW t \in Threads, NEW rs \in Slices, Call(t, rs)
      PROVE  Service!Next
    <2>1. CASE TryFastPath(rs) # "miss"
        <3>1. TryFastPath(rs) \in {"ok", "malformed"}
            BY <2>1, FastPathAnswers
        <3>2. Service!Justified(rs, TryFastPath(rs))
            BY <1>t, <3>1, SlicesAssumption, FastPathJustified DEF Service!Justified, Clean
        <3>3. [u \in Threads |-> pc[u] # "idle"]' = [u \in Threads |-> pc[u] # "idle"]
            BY <1>1, <1>t, <2>1 DEF Call, Return
        <3>4. Service!AskCached(t, rs, TryFastPath(rs))
            BY <1>1, <1>t, <2>1, <3>2, <3>3 DEF Call, Return, Service!AskCached
        <3> QED
            BY <3>1, <3>4 DEF Service!Next
    <2>2. CASE TryFastPath(rs) = "miss"
        <3>1. [u \in Threads |-> pc[u] # "idle"]'
                  = [[u \in Threads |-> pc[u] # "idle"] EXCEPT ![t] = TRUE]
            BY <1>1, <1>t, <2>2 DEF Call
        <3>2. Service!Ask(t, rs)
            BY <1>1, <1>t, <2>2, <3>1 DEF Call, Service!Ask
        <3> QED
            BY <3>2 DEF Service!Next
    <2> QED
        BY <2>1, <2>2
<1>2. ASSUME NEW t \in Threads, pc[t] # "idle", SlowPathLoop(t)
      PROVE  UNCHANGED Service!vars
    BY <1>2, <1>t, InnerStepIsInvisible DEF SlowPathLoop, TakeBatch, WaitFor
<1>3. ASSUME NEW t \in Threads, ThreadStep(t)
      PROVE  [Service!Next]_(Service!vars)
    <2>1. CASE Enter(t)
        BY <1>2, <2>1 DEF Enter
    <2>2. CASE WaitTimeout(t)
        BY <1>t, <2>2, InnerStepIsInvisible DEF WaitTimeout
    <2>3. CASE Reenter(t)
        <3>1. CASE SlowPathLoop(t)
            BY <1>2, <2>3, <3>1 DEF Reenter
        <3>2. CASE ~SlowPathLoop(t)
            <4>1. /\ TryFastPath(reqs[t]) \in {"ok", "malformed"}
                  /\ Return(t, TryFastPath(reqs[t]))
                  /\ UNCHANGED <<cache, reqs>>
                BY <2>3, <3>2, FastPathAnswers DEF Reenter
            <4>2. Service!Justified(reqs[t], TryFastPath(reqs[t]))
                BY <1>t, <4>1, FastPathJustified DEF Service!Justified, Clean
            <4>3. /\ pc[t] # "idle" /\ pc'[t] = "idle"
                  /\ \A u \in Threads : u # t => (pc'[u] # "idle" <=> pc[u] # "idle")
                BY <1>t, <2>3, <4>1 DEF Reenter, Return
            <4>4. result' = [result EXCEPT ![t] = TryFastPath(reqs[t])]
                BY <4>1 DEF Return
            <4>5. Service!Next
                BY <1>t, <4>1, <4>2, <4>3, <4>4, ReturnIsAnswer
            <4> QED
                BY <4>5
        <3> QED
            BY <3>1, <3>2
    <2>4. CASE AcquireToken(t)
        BY <1>t, <2>4, InnerStepIsInvisible DEF AcquireToken
    <2>5. CASE \E outcome \in {"answered", "transient", "permanent"} : Post(t, outcome)
        <3>1. CASE NotifyAndReturn(t, "failed")
            BY <1>t, <2>5, <3>1, ReturnIsAnswer DEF Post, NotifyAndReturn
        <3>2. CASE ~NotifyAndReturn(t, "failed")
            BY <1>t, <2>5, <3>2, InnerStepIsInvisible DEF Post
        <3> QED
            BY <3>1, <3>2
    <2>6. CASE \E k \in Keys, v \in Values : WriteDisk(t, k, v)
        BY <1>t, <2>6, InnerStepIsInvisible DEF WriteDisk
    <2>7. CASE Insert(t)
        <3>1. /\ entry.key \in Keys /\ entry.value \in {"good", "bad"}
              /\ cache[entry.key] = "missing"
            BY <2>7 DEF Insert, IInv, TypeOK, EntryInHand, BatchIsMissing, Missing, Values
        <3>2. [u \in Threads |-> pc[u] # "idle"]' = [u \in Threads |-> pc[u] # "idle"]
            BY <1>t, <2>7 DEF Insert
        <3>3. Service!Learn(entry.key, entry.value)
            BY <2>7, <3>1, <3>2 DEF Insert, Service!Learn
        <3> QED
            BY <3>1, <3>3 DEF Service!Next
    <2>8. CASE Finish(t)
        <3>1. ReadOwnKeys(reqs[t]) \in {"ok", "malformed"}
            BY <2>8, CoveredSliceReads DEF Finish, IInv, TypeOK, FetcherCovered, Fetching
        <3>2. Service!Justified(reqs[t], ReadOwnKeys(reqs[t]))
            BY <1>t, <3>1, OwnReadJustified DEF Service!Justified, Clean
        <3> QED
            BY <1>t, <2>8, <3>1, <3>2, ReturnIsAnswer DEF Finish, NotifyAndReturn
    <2> QED
        BY <1>3, <2>1, <2>2, <2>3, <2>4, <2>5, <2>6, <2>7, <2>8 DEF ThreadStep
<1>4. CASE Expire
    BY <1>4, InnerStepIsInvisible DEF Expire, callVars
<1>5. CASE Restart
    <2>1. cache' \in [Keys -> {"missing", "good", "bad"}]
        BY <1>5 DEF Restart, IInv, TypeOK, Values, Missing
    <2>2. \A k \in Keys : cache[k] # "missing" => cache'[k] \in {cache[k], "missing"}
        BY <1>5 DEF Restart, IInv, DiskAgreesWithCache, Missing
    <2>3. Service!Restart
        BY <1>5, <2>1, <2>2 DEF Restart, Service!Restart
    <2> QED
        BY <2>3 DEF Service!Next
<1>6. CASE UNCHANGED vars
    BY <1>6, InnerStepIsInvisible DEF vars, callVars
<1> QED
    BY <1>1, <1>3, <1>4, <1>5, <1>6 DEF Next, AllReturned

\* fetch_or_wait implements the abstract fetch service, for any threads, keys
\* and slices: an answer is what the store justifies, the store is filled once
\* per key, and a crash loses at most what was not saved.
THEOREM BackendImplementsService == Spec => ImplementsService
<1>1. Init => Service!Init
    BY DEF Init, Service!Init, Missing
<1>2. IInv /\ IInv' /\ [Next]_vars => [Service!Next]_(Service!vars)
    BY StepImplements
<1> QED
    BY <1>1, <1>2, Invariance, PTL DEF Spec, ImplementsService, Service!Spec

-----------------------------------------------------------------------------
(***************************************************************************)
(* The token bucket that paces the requests, for any number of threads,    *)
(* any rate and any width of the clock that LimiterAssumption admits.      *)
(***************************************************************************)

(* Arithmetic.                                                             *)

\* Multiplication preserves the order.
LEMMA ProductMonotone ==
    ASSUME NEW x \in Nat, NEW y \in Nat, NEW z \in Nat, x <= y
    PROVE  x * z <= y * z /\ x * z \in Nat /\ y * z \in Nat
OBVIOUS

\* Division with remainder.
LEMMA Remainder ==
    ASSUME NEW x \in Nat, NEW d \in Nat \ {0}
    PROVE  /\ x \div d \in Nat /\ x % d \in 0 .. d - 1
           /\ x = d * (x \div d) + (x % d)
OBVIOUS

\* The remainder of a number below the divisor, or one divisor above.
LEMMA SmallRemainder ==
    ASSUME NEW d \in Nat \ {0}, NEW x \in 0 .. d - 1
    PROVE  x % d = x /\ (x + d) % d = x
OBVIOUS

-----------------------------------------------------------------------------
(* The rate limiter: time on a clock that wraps.                           *)

\* Milliseconds from the word's last refill to clock reading c.
Gap(c, w) == (c + Size - w.last) % Size

Moments == 0 .. Size - 1
Words == [last : Moments, tokens : 0 .. MaxTokens]

\* What is assumed of the limiter's numbers.
LEMMA LimiterNumbers ==
    /\ MaxTokens \in Nat \ {0} /\ Interval \in Nat \ {0} /\ Size \in Nat \ {0} /\ MaxLag \in Nat
    /\ MaxTokens <= Interval /\ 2 * Interval + MaxLag <= Size /\ 4 * MaxLag < Size
BY LimiterAssumption

\* The time since the last refill, on a clock that wraps around.
LEMMA GapIs ==
    ASSUME NEW c \in Moments, NEW w \in Words
    PROVE  /\ Gap(c, w) \in Moments
           /\ Gap(c, w) = IF c >= w.last THEN c - w.last ELSE c + Size - w.last
<1>1. w.last \in Moments /\ Size \in Nat \ {0}
    BY LimiterNumbers DEF Words
<1>2. CASE c >= w.last
    <2>1. c - w.last \in 0 .. Size - 1 /\ c + Size - w.last = (c - w.last) + Size
        BY <1>1, <1>2 DEF Moments
    <2> QED
        BY <1>1, <1>2, <2>1, SmallRemainder DEF Gap, Moments
<1>3. CASE ~(c >= w.last)
    <2>1. c + Size - w.last \in 0 .. Size - 1
        BY <1>1, <1>3 DEF Moments
    <2> QED
        BY <1>1, <1>3, <2>1, SmallRemainder DEF Gap, Moments
<1> QED
    BY <1>2, <1>3

\* A millisecond later the gap is one larger, until it wraps.
LEMMA GapTick ==
    ASSUME NEW c \in Moments, NEW w \in Words, Gap(c, w) + 1 < Size
    PROVE  (c + 1) % Size \in Moments /\ Gap((c + 1) % Size, w) = Gap(c, w) + 1
<1> DEFINE d == (c + 1) % Size
<1>1. w.last \in Moments /\ Size \in Nat \ {0} /\ c \in Nat /\ c + 1 <= Size
    BY LimiterNumbers DEF Words, Moments
<1>2. d = IF c + 1 < Size THEN c + 1 ELSE 0
    <2>1. CASE c + 1 < Size
        BY <1>1, <2>1, SmallRemainder
    <2>2. CASE ~(c + 1 < Size)
        <3>1. c + 1 = 0 + Size /\ 0 \in 0 .. Size - 1
            BY <1>1, <2>2
        <3> QED
            BY <1>1, <2>2, <3>1, SmallRemainder
    <2> QED
        BY <2>1, <2>2
<1>3. d \in Moments
    BY <1>1, <1>2 DEF Moments
<1> HIDE DEF d
<1>4. /\ Gap(c, w) = IF c >= w.last THEN c - w.last ELSE c + Size - w.last
      /\ Gap(d, w) = IF d >= w.last THEN d - w.last ELSE d + Size - w.last
    BY <1>3, GapIs
<1>5. Gap(d, w) = Gap(c, w) + 1
    BY <1>1, <1>2, <1>4 DEF Moments
<1> QED
    BY <1>3, <1>5 DEF d

-----------------------------------------------------------------------------
(* The refill.                                                             *)

\* The tokens that e milliseconds bring.
Gained(e) == (e * MaxTokens) \div Interval

\* The bucket holds at most its burst.
Filled(k, e) == IF k + Gained(e) > MaxTokens THEN MaxTokens ELSE k + Gained(e)

\* The refill is not cut off by its width, and brings no more than the rate.
LEMMA GainedIs ==
    ASSUME NEW e \in Moments
    PROVE  /\ Gained(e) \in Nat /\ Gained(e) * Interval <= e * MaxTokens
           /\ Gained(e) = 0 <=> e * MaxTokens < Interval
           /\ Gained(e) % Size = Gained(e)
<1> DEFINE x == e * MaxTokens
           q == x \div Interval
           r == x % Interval
<1>0. e \in Nat /\ e < Size
    BY LimiterNumbers DEF Moments
<1>1. x \in Nat /\ x <= e * Interval
    BY <1>0, LimiterNumbers, ProductMonotone
<1>2. q \in Nat /\ r \in 0 .. Interval - 1 /\ x = Interval * q + r
    BY <1>1, LimiterNumbers, Remainder
<1> HIDE DEF q, r
<1>3. q * Interval = Interval * q /\ Interval * q \in Nat
    BY <1>2, LimiterNumbers
<1>4. q * Interval <= x
    BY <1>1, <1>2, <1>3, LimiterNumbers
<1>5. q = 0 <=> x < Interval
    <2>1. q = 0 => x < Interval
        BY <1>2, LimiterNumbers
    <2>2. q # 0 => q * Interval >= Interval
        BY <1>2, LimiterNumbers, ProductMonotone
    <2> QED
        BY <1>1, <1>3, <1>4, <2>1, <2>2, LimiterNumbers
<1>6. q <= e
    <2> SUFFICES ASSUME q >= e + 1 PROVE FALSE
        BY <1>0, <1>2
    <2>1. (e + 1) * Interval <= q * Interval
        BY <1>0, <1>2, LimiterNumbers, ProductMonotone
    <2>2. (e + 1) * Interval = e * Interval + Interval /\ e * Interval \in Nat
        BY <1>0, LimiterNumbers
    <2> QED
        BY <1>1, <1>3, <1>4, <2>1, <2>2, LimiterNumbers
<1>7. q % Size = q
    BY <1>0, <1>2, <1>6, LimiterNumbers, SmallRemainder
<1> QED
    BY <1>2, <1>4, <1>5, <1>7 DEF q, Gained

-----------------------------------------------------------------------------
(* The debt.                                                               *)

\* What the requests let through may exceed the rate by, with k tokens in the
\* bucket g milliseconds after the last refill: every token gone and every
\* millisecond of waiting counts against it.
DebtOK(d, k, g) ==
    \/ d = 0
    \/ d + k * Interval + g * MaxTokens <= MaxTokens * Interval + Interval + MaxLag * MaxTokens

\* Refilling the bucket and taking a token keeps the debt covered.
LEMMA DebtAfterRefill ==
    ASSUME NEW d \in Nat, NEW k \in 0 .. MaxTokens, NEW e \in Moments, NEW l \in 0 .. MaxLag,
           Gained(e) > 0, DebtOK(d, k, e + l), NEW n \in Nat, n + 1 = Filled(k, e)
    PROVE  DebtOK(d + Interval, n, l)
<1> DEFINE a == Gained(e)
           MI == MaxTokens * Interval
           LM == MaxLag * MaxTokens
           kI == k * Interval
           aI == a * Interval
           eM == e * MaxTokens
           lM == l * MaxTokens
           nI == n * Interval
<1>0. k \in Nat /\ e \in Nat /\ l \in Nat /\ a \in Nat /\ aI <= eM
    BY GainedIs DEF Moments
<1> HIDE DEF a
<1>1. lM <= LM /\ lM \in Nat /\ LM \in Nat
    BY LimiterNumbers, ProductMonotone, <1>0
<1>2. MI \in Nat /\ kI \in Nat /\ aI \in Nat /\ eM \in Nat /\ nI \in Nat
    BY <1>0, LimiterNumbers
<1>3. (e + l) * MaxTokens = eM + lM /\ (n + 1) * Interval = nI + Interval /\ (k + a) * Interval = kI + aI
    BY <1>0, LimiterNumbers
<1>4. nI + Interval <= MI /\ nI + Interval <= kI + aI
    <2>1. n + 1 <= MaxTokens /\ n + 1 <= k + a
        BY <1>0, LimiterNumbers DEF Filled, a
    <2>2. (n + 1) * Interval <= MaxTokens * Interval /\ (n + 1) * Interval <= (k + a) * Interval
        BY <1>0, <2>1, LimiterNumbers, ProductMonotone
    <2> QED
        BY <1>3, <2>2
<1>5. d = 0 \/ d + kI + (eM + lM) <= MI + Interval + LM
    BY <1>3 DEF DebtOK
<1> HIDE DEF MI, LM, kI, aI, eM, lM, nI
<1>6. (d + Interval) + nI + lM <= MI + Interval + LM
    BY <1>0, <1>1, <1>2, <1>4, <1>5, LimiterNumbers
<1> QED
    BY <1>6 DEF DebtOK, MI, LM, nI, lM

\* So does taking a token without refilling.
LEMMA DebtAfterTake ==
    ASSUME NEW d \in Nat, NEW k \in 0 .. MaxTokens, NEW e \in Moments, NEW l \in 0 .. MaxLag,
           Gained(e) = 0, DebtOK(d, k, e + l), NEW n \in Nat, n + 1 = k
    PROVE  DebtOK(d + Interval, n, e + l)
<1> DEFINE MI == MaxTokens * Interval
           LM == MaxLag * MaxTokens
           kI == k * Interval
           eM == e * MaxTokens
           lM == l * MaxTokens
           nI == n * Interval
<1>0. k \in Nat /\ e \in Nat /\ l \in Nat /\ eM < Interval /\ eM \in Nat
    BY GainedIs, LimiterNumbers DEF Moments
<1>1. lM <= LM /\ lM \in Nat /\ LM \in Nat
    BY LimiterNumbers, ProductMonotone, <1>0
<1>2. kI <= MI /\ kI \in Nat /\ MI \in Nat /\ nI \in Nat
    BY <1>0, LimiterNumbers, ProductMonotone
<1>3. (e + l) * MaxTokens = eM + lM /\ kI = nI + Interval
    BY <1>0, LimiterNumbers
<1>5. d = 0 \/ d + kI + (eM + lM) <= MI + Interval + LM
    BY <1>3 DEF DebtOK
<1> HIDE DEF MI, LM, kI, eM, lM, nI
<1>6. (d + Interval) + nI + (eM + lM) <= MI + Interval + LM
    BY <1>0, <1>1, <1>2, <1>3, <1>5, LimiterNumbers
<1> QED
    BY <1>3, <1>6 DEF DebtOK, MI, LM, nI

\* So does the passing of time.
LEMMA DebtAfterTick ==
    ASSUME NEW d \in Nat, NEW k \in 0 .. MaxTokens, NEW g \in Moments, DebtOK(d, k, g)
    PROVE  DebtOK(IF d > MaxTokens THEN d - MaxTokens ELSE 0, k, g + 1)
<1>1. k \in Nat /\ g \in Nat
    BY DEF Moments
<1>2. (g + 1) * MaxTokens = g * MaxTokens + MaxTokens /\ g * MaxTokens \in Nat /\ k * Interval \in Nat
      /\ MaxTokens * Interval \in Nat /\ MaxLag * MaxTokens \in Nat
    BY <1>1, LimiterNumbers
<1> QED
    BY <1>1, <1>2, LimiterNumbers DEF DebtOK

-----------------------------------------------------------------------------
(* The threads in acquire.                                                 *)

\* What a thread at p knows of the word s it loaded, l milliseconds after its
\* last step and with r milliseconds of sleep left, when the clock shows c: it
\* computed its word n, or found no token, with the clock of l milliseconds ago;
\* when its sleep is over the word it saw has a token.
ThreadOK(p, s, n, r, l, c) ==
    /\ p = "loaded" => l <= Gap(c, s) /\ Gap(c, s) - l + 2 * MaxLag < Size
    /\ p = "swap" =>
          /\ l <= Gap(c, s) /\ Gap(c, s) - l + MaxLag < Size
          /\ n.tokens + 1 = Filled(s.tokens, Gap(c, s) - l)
          /\ IF Gained(Gap(c, s) - l) > 0 THEN Gap(c, n) = l ELSE n.last = s.last
    /\ p = "empty" => l <= Gap(c, s) /\ (Gap(c, s) - l) * MaxTokens < Interval
    /\ p = "asleep" => Gap(c, s) + r < Size /\ (Gap(c, s) + r) * MaxTokens >= Interval

LimiterTyped ==
    /\ clock \in Moments
    /\ word \in Words
    /\ at \in [Callers -> {"idle", "retry", "loaded", "swap", "empty", "asleep"}]
    /\ seen \in [Callers -> Words]
    /\ next \in [Callers -> Words]
    /\ rest \in [Callers -> Nat]
    /\ late \in [Callers -> 0 .. MaxLag]
    /\ debt \in Nat

LimiterInv ==
    /\ LimiterTyped
    /\ Gap(clock, word) + 2 * MaxLag < Size
    /\ DebtOK(debt, word.tokens, Gap(clock, word))
    /\ \A t \in Callers : ThreadOK(at[t], seen[t], next[t], rest[t], late[t], clock)

\* What a thread has before it loads the word.
LEMMA NoWordIsWord == NoWord \in Words
BY LimiterNumbers DEF NoWord, Words, Moments

\* A full bucket satisfies the invariant.
LEMMA LimiterInitInv == LimiterInit => LimiterInv
<1> SUFFICES ASSUME LimiterInit PROVE LimiterInv
    OBVIOUS
<1>1. LimiterTyped
    BY NoWordIsWord, LimiterNumbers DEF LimiterInit, LimiterTyped, Words, Moments
<1>2. Gap(clock, word) = 0
    BY <1>1, GapIs DEF LimiterInit, LimiterTyped
<1>3. DebtOK(debt, word.tokens, Gap(clock, word))
    BY DEF LimiterInit, DebtOK
<1>4. \A t \in Callers : ThreadOK(at[t], seen[t], next[t], rest[t], late[t], clock)
    BY DEF LimiterInit, ThreadOK
<1> QED
    BY <1>1, <1>2, <1>3, <1>4, LimiterNumbers DEF LimiterInv

\* The operators of the model in terms of the gap.
LEMMA ModelGap ==
    ASSUME clock \in Moments, NEW w \in Words
    PROVE  /\ Elapsed(w) = Gap(clock, w)
           /\ Add(w) = Gained(Gap(clock, w))
           /\ Refilled(w) = Filled(w.tokens, Gap(clock, w))
           /\ LastRefill(w) = IF Gained(Gap(clock, w)) > 0 THEN clock ELSE w.last
<1>1. Elapsed(w) = Gap(clock, w)
    BY DEF Elapsed, Gap
<1>2. Gap(clock, w) \in Moments
    BY GapIs
<1>3. Add(w) = Gained(Gap(clock, w)) /\ Gained(Gap(clock, w)) \in Nat
    BY <1>1, <1>2, GainedIs DEF Add, Gained
<1>4. w.tokens \in Nat /\ w.tokens <= MaxTokens
    BY LimiterNumbers DEF Words
<1> HIDE DEF Gained
<1> QED
    BY <1>1, <1>3, <1>4, LimiterNumbers DEF Refilled, Filled, LastRefill

-----------------------------------------------------------------------------
(* Every step keeps the invariant.                                         *)

\* A bound on a product bounds its factor.
LEMMA ProductBound ==
    ASSUME NEW x \in Nat, NEW y \in Nat, x * MaxTokens < y
    PROVE  x < y
<1>1. MaxTokens \in Nat \ {0}
    BY LimiterNumbers
<1>2. x <= x * MaxTokens
    BY <1>1
<1>3. x * MaxTokens \in Nat
    BY <1>1
<1> QED
    BY <1>2, <1>3

\* A millisecond passes for a thread in acquire ...
LEMMA BusyTick ==
    ASSUME NEW p \in {"retry", "loaded", "swap", "empty"}, NEW s \in Words, NEW n \in Words,
           NEW r, NEW q, NEW l \in 0 .. MaxLag, NEW c \in Moments,
           ThreadOK(p, s, n, r, l, c), l < MaxLag
    PROVE  ThreadOK(p, s, n, q, l + 1, (c + 1) % Size)
<1> DEFINE g == Gap(c, s)
           d == (c + 1) % Size
<1>0. g \in Nat /\ l \in Nat
    BY GapIs, LimiterNumbers DEF Moments
<1>1. CASE p = "loaded"
    <2>1. g + 1 < Size /\ l <= g /\ g - l + 2 * MaxLag < Size
        BY <1>0, <1>1, LimiterNumbers DEF ThreadOK
    <2>2. Gap(d, s) = g + 1
        BY <2>1, GapTick
    <2> QED
        BY <1>0, <1>1, <2>1, <2>2 DEF ThreadOK
<1>2. CASE p = "swap"
    <2>1. /\ l <= g /\ g - l + MaxLag < Size
          /\ n.tokens + 1 = Filled(s.tokens, g - l)
          /\ IF Gained(g - l) > 0 THEN Gap(c, n) = l ELSE n.last = s.last
        BY <1>2 DEF ThreadOK
    <2>2. Gap(d, s) = g + 1
        BY <1>0, <2>1, GapTick, LimiterNumbers
    <2>3. Gap(c, n) = l => Gap(d, n) = l + 1
        BY <1>0, GapTick, LimiterNumbers
    <2>4. (g + 1) - (l + 1) = g - l
        BY <1>0
    <2>5. l + 1 <= g + 1 /\ (g + 1) - (l + 1) + MaxLag < Size
        BY <1>0, <2>1, <2>4
    <2> HIDE DEF g, d
    <2> QED
        BY <1>2, <2>1, <2>2, <2>3, <2>4, <2>5 DEF ThreadOK, d
<1>3. CASE p = "empty"
    <2>1. l <= g /\ (g - l) * MaxTokens < Interval
        BY <1>3 DEF ThreadOK
    <2>2. g - l \in Nat /\ g - l < Interval
        BY <1>0, <2>1, ProductBound, LimiterNumbers
    <2>3. Gap(d, s) = g + 1
        BY <1>0, <2>2, GapTick, LimiterNumbers
    <2>4. (g + 1) - (l + 1) = g - l /\ l + 1 <= g + 1
        BY <1>0, <2>1
    <2> HIDE DEF g, d
    <2> QED
        BY <1>3, <2>1, <2>3, <2>4 DEF ThreadOK, d
<1>4. CASE p = "retry"
    BY <1>4 DEF ThreadOK
<1> QED
    BY <1>1, <1>2, <1>3, <1>4

\* ... and for one that sleeps.
LEMMA AsleepTick ==
    ASSUME NEW s \in Words, NEW n, NEW r \in Nat, NEW l, NEW m, NEW c \in Moments,
           ThreadOK("asleep", s, n, r, l, c), r > 0
    PROVE  ThreadOK("asleep", s, n, r - 1, m, (c + 1) % Size)
<1>0. Gap(c, s) \in Nat /\ Gap(c, s) + r < Size /\ (Gap(c, s) + r) * MaxTokens >= Interval
    BY GapIs, LimiterNumbers DEF Moments, ThreadOK
<1>1. Gap((c + 1) % Size, s) = Gap(c, s) + 1
    BY <1>0, GapTick, LimiterNumbers
<1>2. (Gap(c, s) + 1) + (r - 1) = Gap(c, s) + r
    BY <1>0
<1> QED
    BY <1>0, <1>1, <1>2 DEF ThreadOK

\* The passing of time keeps the invariant.
LEMMA TickInv ==
    ASSUME LimiterInv, Tick
    PROVE  LimiterInv'
<1> DEFINE g == Gap(clock, word)
<1>0. LimiterTyped /\ clock \in Moments /\ word \in Words /\ debt \in Nat
      /\ g \in Nat /\ g \in Moments /\ g + 1 + 2 * MaxLag < Size
    BY GapIs, ModelGap, LimiterNumbers DEF LimiterInv, LimiterTyped, Tick, Moments
<1>1. clock' = (clock + 1) % Size /\ clock' \in Moments /\ Gap(clock', word) = g + 1
    BY <1>0, GapTick, LimiterNumbers DEF Tick
<1>2. debt' \in Nat /\ DebtOK(debt', word.tokens, g + 1)
    <2>1. debt' = IF debt > MaxTokens THEN debt - MaxTokens ELSE 0
        BY DEF Tick
    <2>2. word.tokens \in 0 .. MaxTokens /\ DebtOK(debt, word.tokens, g)
        BY <1>0 DEF Words, LimiterInv
    <2>3. DebtOK(IF debt > MaxTokens THEN debt - MaxTokens ELSE 0, word.tokens, g + 1)
        BY <1>0, <2>2, DebtAfterTick
    <2> QED
        BY <1>0, <2>1, <2>3, LimiterNumbers
<1>3. rest' \in [Callers -> Nat] /\ late' \in [Callers -> 0 .. MaxLag]
    <2>1. \A t \in Callers : (IF rest[t] > 0 THEN rest[t] - 1 ELSE 0) \in Nat
        BY <1>0 DEF LimiterTyped
    <2>2. \A t \in Callers : (IF Busy(t) THEN late[t] + 1 ELSE 0) \in 0 .. MaxLag
        BY <1>0, LimiterNumbers DEF LimiterTyped, Tick
    <2> QED
        BY <2>1, <2>2 DEF Tick
<1>4. LimiterTyped'
    BY <1>0, <1>1, <1>2, <1>3 DEF LimiterTyped, Tick
<1>5. ASSUME NEW t \in Callers
      PROVE  ThreadOK(at[t], seen[t], next[t], rest'[t], late'[t], clock')
    <2>1. /\ ThreadOK(at[t], seen[t], next[t], rest[t], late[t], clock)
          /\ seen[t] \in Words /\ next[t] \in Words /\ rest[t] \in Nat /\ late[t] \in 0 .. MaxLag
          /\ at[t] \in {"idle", "retry", "loaded", "swap", "empty", "asleep"}
        BY <1>0 DEF LimiterInv, LimiterTyped
    <2>2. CASE at[t] = "idle"
        BY <2>2 DEF ThreadOK
    <2>3. CASE at[t] = "asleep"
        <3>1. rest[t] > 0 /\ rest'[t] = rest[t] - 1
            BY <2>3 DEF Tick
        <3> QED
            BY <1>0, <1>1, <2>1, <2>3, <3>1, AsleepTick
    <2>4. CASE at[t] \in {"retry", "loaded", "swap", "empty"}
        <3>1. late[t] < MaxLag /\ late'[t] = late[t] + 1
            BY <2>4 DEF Tick, Busy
        <3> QED
            BY <1>0, <1>1, <2>1, <2>4, <3>1, BusyTick
    <2> QED
        BY <2>1, <2>2, <2>3, <2>4
<1>6. word' = word /\ at' = at /\ seen' = seen /\ next' = next
    BY DEF Tick
<1> HIDE DEF g
<1> QED
    BY <1>0, <1>1, <1>2, <1>4, <1>5, <1>6 DEF LimiterInv

\* A step of one thread leaves the others, the clock and the word as they are.
LEMMA OthersKept ==
    ASSUME LimiterInv, NEW t \in Callers, clock' = clock, LimiterTyped',
           Gap(clock, word') + 2 * MaxLag < Size,
           DebtOK(debt', word.tokens', Gap(clock, word')),
           \A u \in Callers \ {t} : /\ at'[u] = at[u] /\ seen'[u] = seen[u] /\ next'[u] = next[u]
                                    /\ rest'[u] = rest[u] /\ late'[u] = late[u],
           ThreadOK(at'[t], seen'[t], next'[t], rest'[t], 0, clock), late'[t] = 0
    PROVE  LimiterInv'
<1>1. \A u \in Callers \ {t} : ThreadOK(at'[u], seen'[u], next'[u], rest'[u], late'[u], clock)
    BY DEF LimiterInv
<1> QED
    BY <1>1 DEF LimiterInv

\* Loading the word keeps the invariant.
LEMMA LoadInv ==
    ASSUME LimiterInv, NEW t \in Callers, Load(t), late' = [late EXCEPT ![t] = 0]
    PROVE  LimiterInv'
<1>1. LimiterTyped /\ Gap(clock, word) \in Nat /\ Gap(clock, word) + 2 * MaxLag < Size
    BY GapIs DEF LimiterInv, LimiterTyped, Moments
<1>2. LimiterTyped'
    BY <1>1, LimiterNumbers DEF LimiterTyped, Load
<1>3. seen'[t] = word /\ at'[t] = "loaded"
    BY <1>1 DEF LimiterTyped, Load
<1>4. ThreadOK(at'[t], seen'[t], next'[t], rest'[t], 0, clock)
    BY <1>1, <1>3 DEF ThreadOK
<1> QED
    BY <1>1, <1>2, <1>4, OthersKept DEF Load, LimiterTyped, LimiterInv

\* Loading it again after a lost exchange keeps the invariant.
LEMMA ReloadInv ==
    ASSUME LimiterInv, NEW t \in Callers, Reload(t), late' = [late EXCEPT ![t] = 0]
    PROVE  LimiterInv'
<1>1. LimiterTyped /\ Gap(clock, word) \in Nat /\ Gap(clock, word) + 2 * MaxLag < Size
    BY GapIs DEF LimiterInv, LimiterTyped, Moments
<1>2. LimiterTyped'
    BY <1>1, NoWordIsWord, LimiterNumbers DEF LimiterTyped, Reload
<1>3. seen'[t] = word /\ at'[t] = "loaded"
    BY <1>1 DEF LimiterTyped, Reload
<1>4. ThreadOK(at'[t], seen'[t], next'[t], rest'[t], 0, clock)
    BY <1>1, <1>3 DEF ThreadOK
<1> QED
    BY <1>1, <1>2, <1>4, OthersKept DEF Reload, LimiterTyped, LimiterInv

\* Waking up keeps the invariant.
LEMMA WakeInv ==
    ASSUME LimiterInv, NEW t \in Callers, Wake(t), late' = [late EXCEPT ![t] = 0]
    PROVE  LimiterInv'
<1>1. LimiterTyped
    BY DEF LimiterInv
<1>2. LimiterTyped'
    BY <1>1, LimiterNumbers DEF LimiterTyped, Wake
<1>3. at'[t] = "retry"
    BY <1>1 DEF LimiterTyped, Wake
<1>4. ThreadOK(at'[t], seen'[t], next'[t], rest'[t], 0, clock)
    BY <1>3 DEF ThreadOK
<1> QED
    BY <1>1, <1>2, <1>4, OthersKept DEF Wake, LimiterTyped, LimiterInv

\* Computing the next word keeps the invariant.
LEMMA ComputeInv ==
    ASSUME LimiterInv, NEW t \in Callers, Compute(t), late' = [late EXCEPT ![t] = 0]
    PROVE  LimiterInv'
<1> DEFINE s == seen[t]
           g == Gap(clock, s)
           l == late[t]
<1>1. /\ LimiterTyped /\ clock \in Moments /\ s \in Words /\ l \in Nat /\ l <= MaxLag
      /\ g \in Nat /\ g \in Moments /\ s.tokens \in Nat /\ s.tokens <= MaxTokens
    BY GapIs, LimiterNumbers DEF LimiterInv, LimiterTyped, Moments, Words
<1>2. l <= g /\ g - l + 2 * MaxLag < Size
    BY <1>1 DEF LimiterInv, ThreadOK, Compute
<1>3. Refilled(s) = Filled(s.tokens, g) /\ LastRefill(s) = IF Gained(g) > 0 THEN clock ELSE s.last
    BY <1>1, ModelGap
<1>4. Gained(g) \in Nat /\ (Gained(g) = 0 => g * MaxTokens < Interval)
    BY <1>1, GainedIs
<1>5. g - 0 = g /\ g + MaxLag < Size
    BY <1>1, <1>2, LimiterNumbers
<1> HIDE DEF g, s
<1>6. CASE at'[t] = "swap" /\ Refilled(s) >= 1
           /\ next' = [next EXCEPT ![t] = [last |-> LastRefill(s), tokens |-> Refilled(s) - 1]]
           /\ at' = [at EXCEPT ![t] = "swap"]
    <2> DEFINE n == [last |-> LastRefill(s), tokens |-> Refilled(s) - 1]
    <2>1. Filled(s.tokens, g) \in Nat /\ Filled(s.tokens, g) <= MaxTokens
        BY <1>1, <1>4, LimiterNumbers DEF Filled
    <2>2. n.tokens \in 0 .. MaxTokens /\ n.tokens + 1 = Filled(s.tokens, g)
        BY <1>3, <1>6, <2>1, LimiterNumbers
    <2>3. n.last \in Moments
        BY <1>1, <1>3 DEF Words
    <2>4. n \in Words
        BY <2>2, <2>3 DEF Words
    <2>5. IF Gained(g) > 0 THEN Gap(clock, n) = 0 ELSE n.last = s.last
        <3>1. CASE Gained(g) > 0
            <4>1. n.last = clock /\ clock \in Nat
                BY <1>1, <1>3, <3>1, LimiterNumbers DEF Moments
            <4> HIDE DEF n
            <4>2. Gap(clock, n) = 0
                BY <1>1, <2>4, <4>1, GapIs
            <4> QED
                BY <3>1, <4>2
        <3>2. CASE ~(Gained(g) > 0)
            BY <1>3, <3>2
        <3> QED
            BY <3>1, <3>2
    <2>6. next'[t] = n /\ at'[t] = "swap" /\ seen'[t] = s
        BY <1>1, <1>6 DEF LimiterTyped, Compute, s
    <2>7. LimiterTyped'
        BY <1>1, <1>6, <2>4, LimiterNumbers DEF LimiterTyped, Compute
    <2> HIDE DEF n
    <2>8. ThreadOK("swap", s, n, rest'[t], 0, clock)
        BY <1>1, <1>5, <2>2, <2>5 DEF ThreadOK, g
    <2> QED
        BY <1>1, <1>6, <2>6, <2>7, <2>8, OthersKept DEF Compute, LimiterTyped, LimiterInv
<1>7. CASE at' = [at EXCEPT ![t] = "empty"] /\ Refilled(s) = 0 /\ next' = next
    <2>1. Gained(g) = 0
        BY <1>1, <1>3, <1>4, <1>7, LimiterNumbers DEF Filled
    <2>2. at'[t] = "empty" /\ seen'[t] = s
        BY <1>1, <1>7 DEF LimiterTyped, Compute, s
    <2>3. LimiterTyped'
        BY <1>1, <1>7, LimiterNumbers DEF LimiterTyped, Compute
    <2>4. ThreadOK("empty", s, next'[t], rest'[t], 0, clock)
        BY <1>1, <1>4, <1>5, <2>1 DEF ThreadOK, g
    <2> QED
        BY <1>1, <1>7, <2>2, <2>3, <2>4, OthersKept DEF Compute, LimiterTyped, LimiterInv
<1> QED
    BY <1>1, <1>6, <1>7 DEF Compute, s, LimiterTyped

\* A compare-exchange, won or lost, keeps the invariant.
LEMMA TakeInv ==
    ASSUME LimiterInv, NEW t \in Callers, Take(t), late' = [late EXCEPT ![t] = 0]
    PROVE  LimiterInv'
<1> DEFINE n == next[t]
           g == Gap(clock, word)
           l == late[t]
           e == g - l
<1>1. /\ LimiterTyped /\ clock \in Moments /\ word \in Words /\ n \in Words /\ l \in 0 .. MaxLag
      /\ g \in Nat /\ g \in Moments /\ word.tokens \in 0 .. MaxTokens /\ n.tokens \in Nat /\ debt \in Nat
      /\ g + 2 * MaxLag < Size /\ DebtOK(debt, word.tokens, g)
    BY GapIs, LimiterNumbers DEF LimiterInv, LimiterTyped, Moments, Words
<1>2. /\ l <= g /\ n.tokens + 1 = Filled(word.tokens, e)
      /\ IF Gained(e) > 0 THEN Gap(clock, n) = l ELSE n.last = word.last
    <2>1. at[t] = "swap" /\ seen[t] = word /\ ThreadOK(at[t], seen[t], next[t], rest[t], late[t], clock)
        BY DEF Take, LimiterInv
    <2> QED
        BY <2>1 DEF ThreadOK
<1>3. e \in Moments /\ e + l = g
    BY <1>1, <1>2, LimiterNumbers DEF Moments
<1>4. Gap(clock, n) + 2 * MaxLag < Size /\ DebtOK(debt + Interval, n.tokens, Gap(clock, n))
    <2> HIDE DEF n, l, e
    <2>1. CASE Gained(e) > 0
        BY <1>1, <1>2, <1>3, <2>1, DebtAfterRefill, LimiterNumbers
    <2>2. CASE ~(Gained(e) > 0)
        <3>1. Gained(e) = 0 /\ Gap(clock, n) = g
            BY <1>2, <1>3, <2>2, GainedIs DEF Gap
        <3>2. Filled(word.tokens, e) = word.tokens
            BY <1>1, <3>1, LimiterNumbers DEF Filled
        <3>3. DebtOK(debt + Interval, n.tokens, e + l)
            BY <1>1, <1>2, <1>3, <3>1, <3>2, DebtAfterTake
        <3> QED
            BY <1>1, <1>3, <3>1, <3>3
    <2> QED
        BY <2>1, <2>2
<1>5. at'[t] = "idle" /\ word' = n /\ debt' = debt + Interval
    BY <1>1 DEF Take, LimiterTyped
<1>6. LimiterTyped'
    BY <1>1, <1>5, NoWordIsWord, LimiterNumbers DEF LimiterTyped, Take
<1>7. ThreadOK(at'[t], seen'[t], next'[t], rest'[t], 0, clock)
    BY <1>5 DEF ThreadOK
<1> HIDE DEF n, g, l, e
<1> QED
    BY <1>1, <1>4, <1>5, <1>6, <1>7, OthersKept DEF Take, LimiterTyped

\* The sleep lasts until the refill brings a token, and no longer than it takes
\* from empty.
LEMMA SleepIsEnough ==
    ASSUME clock \in Moments, NEW w \in Words
    PROVE  /\ SleepMs(w) \in Nat /\ SleepMs(w) <= Interval
           /\ (Gap(clock, w) + SleepMs(w)) * MaxTokens >= Interval
<1> DEFINE g == Gap(clock, w)
           x == g * MaxTokens
           r == x % Interval
           o == x \div Interval
           f == Interval - r
           y == f + MaxTokens - 1
           q == y \div MaxTokens
           m == y % MaxTokens
<1>1. g \in Nat /\ x \in Nat
    BY GapIs, LimiterNumbers DEF Moments
<1>2. r \in 0 .. Interval - 1 /\ o \in Nat /\ x = Interval * o + r
    BY <1>1, Remainder, LimiterNumbers
<1>3. r <= x /\ f \in Nat /\ 1 <= f /\ f <= Interval /\ y \in Nat
    <2> HIDE DEF x, o, r
    <2>1. Interval * o \in Nat
        BY <1>2, LimiterNumbers
    <2> QED
        BY <1>1, <1>2, <2>1, LimiterNumbers
<1>4. SleepMs(w) = q
    BY ModelGap DEF SleepMs, Shortfall
<1> HIDE DEF r
<1>5. q \in Nat /\ m \in 0 .. MaxTokens - 1 /\ y = MaxTokens * q + m
    BY <1>3, Remainder, LimiterNumbers
<1> HIDE DEF q, m, f
<1>6. MaxTokens * q = q * MaxTokens /\ q * MaxTokens \in Nat
    BY <1>5, LimiterNumbers
<1>7. q * MaxTokens >= f
    BY <1>3, <1>5, <1>6, LimiterNumbers
<1>8. q <= f
    <2> SUFFICES ASSUME q >= f + 1 PROVE FALSE
        BY <1>3, <1>5
    <2>1. (f + 1) * MaxTokens <= q * MaxTokens
        BY <1>3, <1>5, LimiterNumbers, ProductMonotone
    <2>2. (f + 1) * MaxTokens = f * MaxTokens + MaxTokens /\ f * MaxTokens >= f /\ f * MaxTokens \in Nat
        BY <1>3, LimiterNumbers
    <2> QED
        BY <1>3, <1>5, <1>6, <2>1, <2>2, LimiterNumbers
<1>9. (g + q) * MaxTokens = x + q * MaxTokens
    BY <1>1, <1>5, LimiterNumbers
<1>10. x + q * MaxTokens >= Interval
    <2> HIDE DEF x
    <2> QED
        BY <1>1, <1>2, <1>3, <1>6, <1>7, LimiterNumbers DEF f
<1> QED
    BY <1>3, <1>4, <1>5, <1>8, <1>9, <1>10, LimiterNumbers

\* Going to sleep keeps the invariant.
LEMMA SleepInv ==
    ASSUME LimiterInv, NEW t \in Callers, Sleep(t), late' = [late EXCEPT ![t] = 0]
    PROVE  LimiterInv'
<1> DEFINE s == seen[t]
           g == Gap(clock, s)
           l == late[t]
           r == SleepMs(s)
<1>1. LimiterTyped /\ clock \in Moments /\ s \in Words /\ l \in Nat /\ l <= MaxLag /\ g \in Nat
    BY GapIs, LimiterNumbers DEF LimiterInv, LimiterTyped, Moments
<1>2. l <= g /\ (g - l) * MaxTokens < Interval
    BY <1>1 DEF LimiterInv, ThreadOK, Sleep
<1>3. g - l \in Nat /\ g - l < Interval
    BY <1>1, <1>2, ProductBound, LimiterNumbers
<1>4. r \in Nat /\ r <= Interval /\ (g + r) * MaxTokens >= Interval
    BY <1>1, SleepIsEnough
<1> HIDE DEF r
<1>5. g + r < Size
    BY <1>1, <1>3, <1>4, LimiterNumbers
<1>6. at'[t] = "asleep" /\ rest'[t] = r /\ seen'[t] = s
    BY <1>1 DEF Sleep, LimiterTyped, r
<1>7. LimiterTyped'
    BY <1>1, <1>4, LimiterNumbers DEF LimiterTyped, Sleep, r
<1>8. ThreadOK("asleep", s, next'[t], r, 0, clock)
    BY <1>4, <1>5 DEF ThreadOK
<1> QED
    BY <1>1, <1>6, <1>7, <1>8, OthersKept DEF Sleep, LimiterTyped, LimiterInv

\* Every step keeps the invariant.
LEMMA LimiterStepInv ==
    LimiterInv /\ [LimiterNext]_limiterVars => LimiterInv'
<1> SUFFICES ASSUME LimiterInv, [LimiterNext]_limiterVars PROVE LimiterInv'
    OBVIOUS
<1>1. CASE Tick
    BY <1>1, TickInv
<1>2. ASSUME NEW t \in Callers, AcquireStep(t) PROVE LimiterInv'
    BY <1>2, LoadInv, ComputeInv, TakeInv, ReloadInv, SleepInv, WakeInv DEF AcquireStep
<1>3. CASE UNCHANGED limiterVars
    BY <1>3 DEF limiterVars, LimiterInv, LimiterTyped
<1> QED
    BY <1>1, <1>2, <1>3 DEF LimiterNext

-----------------------------------------------------------------------------
(* What the invariant says of the limiter.                                 *)

\* The debt bounds the number of grants.
LEMMA RateFollows == LimiterInv => RateBounded
<1> SUFFICES ASSUME LimiterInv PROVE RateBounded
    OBVIOUS
<1> DEFINE kI == word.tokens * Interval
           gM == Gap(clock, word) * MaxTokens
           MI == MaxTokens * Interval
           LM == MaxLag * MaxTokens
<1>1. word.tokens \in Nat /\ Gap(clock, word) \in Nat /\ debt \in Nat
    BY GapIs, LimiterNumbers DEF LimiterInv, LimiterTyped, Words, Moments
<1>2. kI \in Nat /\ gM \in Nat /\ MI \in Nat /\ LM \in Nat /\ (MaxTokens + 1) * Interval = MI + Interval
    BY <1>1, LimiterNumbers
<1>3. debt = 0 \/ debt + kI + gM <= MI + Interval + LM
    BY DEF LimiterInv, DebtOK
<1> HIDE DEF kI, gM, MI, LM
<1>4. debt <= MI + Interval + LM
    BY <1>1, <1>2, <1>3, LimiterNumbers
<1> QED
    BY <1>2, <1>4 DEF RateBounded, LM

\* A thread sleeps until a token is there.
LEMMA SleepFollows == LimiterInv => SleepSuffices
<1> SUFFICES ASSUME LimiterInv, NEW t \in Callers,
                    at[t] = "asleep", rest[t] = 0, word = seen[t]
             PROVE  Refilled(word) >= 1
    BY DEF SleepSuffices
<1> DEFINE g == Gap(clock, word)
<1>1. /\ clock \in Moments /\ word \in Words /\ g \in Nat /\ g \in Moments /\ word.tokens \in Nat
    BY GapIs, LimiterNumbers DEF LimiterInv, LimiterTyped, Words, Moments
<1>2. (g + 0) * MaxTokens >= Interval
    BY DEF LimiterInv, ThreadOK
<1>3. ~(g * MaxTokens < Interval)
    BY <1>1, <1>2, LimiterNumbers
<1>4. Gained(g) \in Nat /\ Gained(g) # 0
    BY <1>1, <1>3, GainedIs
<1>5. Refilled(word) = Filled(word.tokens, g)
    BY <1>1, ModelGap
<1> HIDE DEF g
<1> QED
    BY <1>1, <1>4, <1>5, LimiterNumbers DEF Filled

\* However acquires of any number of threads interleave, and across the wrap of
\* the clock, the bucket lets through no more than its burst and its rate, and
\* a thread that slept finds the token it slept for (acquire).
THEOREM LimiterIsSound == LimiterSpec => []LimiterSound
<1>1. LimiterInv => LimiterSound
    BY RateFollows, SleepFollows DEF LimiterSound
<1> QED
    BY <1>1, LimiterInitInv, LimiterStepInv, PTL DEF LimiterSpec
==============================================================================
