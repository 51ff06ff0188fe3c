----------------------------- MODULE FetchService -----------------------------
(***************************************************************************)
(* What SharedBackend::fetch_or_wait promises a fuzzer thread, with the    *)
(* batching, the mutex, the condition variable and the retries left out: a *)
(* write-once store that is filled from the RPC endpoint, and calls that   *)
(* are answered from the store or reported as failed.                      *)
(***************************************************************************)
EXTENDS Naturals, Sequences

CONSTANTS Threads, Keys, Slices

VARIABLES
    store,   \* what is known of each key
    open,    \* whether the thread has an unanswered call
    asked,   \* the slice of the thread's last call
    reply    \* the answer to the thread's last call

vars == <<store, open, asked, reply>>

Init ==
    /\ store = [k \in Keys |-> "missing"]
    /\ open = [t \in Threads |-> FALSE]
    /\ asked = [t \in Threads |-> <<>>]
    /\ reply = [t \in Threads |-> "none"]

\* The answers the store justifies.
Justified(rs, r) ==
    \/ r = "ok" /\ \A i \in DOMAIN rs : store[rs[i]] = "good"
    \/ r = "malformed" /\ \E i \in DOMAIN rs : store[rs[i]] = "bad"

Ask(t, rs) ==
    /\ ~open[t]
    /\ open' = [open EXCEPT ![t] = TRUE]
    /\ asked' = [asked EXCEPT ![t] = rs]
    /\ reply' = [reply EXCEPT ![t] = "none"]
    /\ UNCHANGED store

\* A call that finds everything in the store is answered without waiting.
AskCached(t, rs, r) ==
    /\ ~open[t]
    /\ Justified(rs, r)
    /\ asked' = [asked EXCEPT ![t] = rs]
    /\ reply' = [reply EXCEPT ![t] = r]
    /\ UNCHANGED <<store, open>>

\* The endpoint's answer for one key; a known key is never overwritten.
Learn(k, v) ==
    /\ store[k] = "missing"
    /\ store' = [store EXCEPT ![k] = v]
    /\ UNCHANGED <<open, asked, reply>>

Answer(t, r) ==
    /\ open[t]
    /\ r = "failed" \/ Justified(asked[t], r)
    /\ open' = [open EXCEPT ![t] = FALSE]
    /\ reply' = [reply EXCEPT ![t] = r]
    /\ UNCHANGED <<store, asked>>

\* The process is replaced: calls are gone, the store keeps what was saved,
\* which may include an answer that was saved but not yet readable.
Restart ==
    /\ store' \in [Keys -> {"missing", "good", "bad"}]
    /\ \A k \in Keys : store[k] # "missing" => store'[k] \in {store[k], "missing"}
    /\ open' = [t \in Threads |-> FALSE]
    /\ asked' = [t \in Threads |-> <<>>]
    /\ reply' = [t \in Threads |-> "none"]

Next ==
    \/ \E t \in Threads, rs \in Slices : Ask(t, rs)
    \/ \E t \in Threads, rs \in Slices, r \in {"ok", "malformed"} : AskCached(t, rs, r)
    \/ \E k \in Keys, v \in {"good", "bad"} : Learn(k, v)
    \/ \E t \in Threads, r \in {"ok", "malformed", "failed"} : Answer(t, r)
    \/ Restart

Spec == Init /\ [][Next]_vars
=============================================================================
