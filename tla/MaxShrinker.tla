---------------------------- MODULE MaxShrinker -----------------------------
(***************************************************************************)
(* Shrinking the best sequence of a max campaign, src/maxer/shrinker.rs.   *)
(* Unlike the test shrinker, a worker leaves a sequence of one call alone, *)
(* skips an empty candidate without counting it, and accepts a candidate   *)
(* that keeps the value at or above the target value.                      *)
(***************************************************************************)
EXTENDS MaxExec

CONSTANTS
    Workers,    \* shrinker threads
    Bests,      \* best sequences with their values, as campaigns find them
    MaxRuns,    \* --max-shrink-runs
    MaxFaults   \* bound: replays that fail

Sequences == Seq(Handlers)

ASSUME MaxRunsAssumption == MaxRuns \in Nat
ASSUME BestsAssumption == Bests \subseteq [value : Nat, calls : Sequences \ {<<>>}]
ASSUME BestsReproduce == \A b \in Bests : Preserves(b.calls, b.value)

VARIABLES
    best,       \* the sequence to shrink, its value is the target value
    current,    \* SharedShrink.current
    attempts,   \* SharedShrink.attempts
    timed_out,  \* the deadline has passed
    pc,
    candidate,  \* the sequence each worker validates
    validated,  \* replays started so far, over all workers
    faults

vars == <<best, current, attempts, timed_out, pc, candidate, validated, faults>>

Init ==
    /\ best \in Bests
    /\ current = best.calls
    /\ attempts = 0
    /\ timed_out = FALSE
    /\ pc = [w \in Workers |-> IF Len(best.calls) <= 1 THEN "done" ELSE "check"]
    /\ candidate = [w \in Workers |-> <<>>]
    /\ validated = 0
    /\ faults = 0

Goto(w, label) == pc' = [pc EXCEPT ![w] = label]

\* The head of shrink_worker's loop: exhausted() and timed_out().
Check(w) ==
    /\ pc[w] = "check"
    /\ Goto(w, IF attempts >= MaxRuns \/ timed_out THEN "done" ELSE "cut")
    /\ UNCHANGED <<best, current, attempts, timed_out, candidate, validated, faults>>

\* Mutant of Without: the two halves are swapped.
Without_Rotated(s, from, to) == SubSeq(s, to + 1, Len(s)) \o SubSeq(s, 1, from - 1)

\* Sequence::without: the calls before position from and after position to.
Without(s, from, to) == SubSeq(s, 1, from - 1) \o SubSeq(s, to + 1, Len(s))

\* The current sequence is short enough.
Minimal(w) ==
    /\ pc[w] = "cut"
    /\ Len(current) <= 1
    /\ Goto(w, "done")
    /\ UNCHANGED <<best, current, attempts, timed_out, candidate, validated, faults>>

\* Delete a chunk of the current sequence, some calls remain.
Cut(w) ==
    /\ pc[w] = "cut"
    /\ Len(current) > 1
    /\ \E from, to \in DOMAIN current :
          /\ from <= to
          /\ Without(current, from, to) # <<>>
          /\ candidate' = [candidate EXCEPT ![w] = Without(current, from, to)]
    /\ Goto(w, "attempt")
    /\ UNCHANGED <<best, current, attempts, timed_out, validated, faults>>

\* The chunk was the whole sequence: try again, nothing is counted.
CutAll(w) ==
    /\ pc[w] = "cut"
    /\ Len(current) > 1
    /\ Goto(w, "check")
    /\ UNCHANGED <<best, current, attempts, timed_out, candidate, validated, faults>>

\* Mutant of RecordAttempt: attempts are not counted.
RecordAttempt_NoCount(w) ==
    /\ pc[w] = "attempt"
    /\ Goto(w, "validate")
    /\ UNCHANGED <<best, current, attempts, timed_out, candidate, validated, faults>>

\* record_attempt: fetch_add, then compare with the budget.
RecordAttempt(w) ==
    /\ pc[w] = "attempt"
    /\ attempts' = attempts + 1
    /\ \/ /\ attempts + 1 <= MaxRuns
          /\ validated' = validated + 1
          /\ Goto(w, "validate")
       \/ /\ attempts + 1 > MaxRuns
          /\ Goto(w, "done")
          /\ UNCHANGED validated
    /\ UNCHANGED <<best, current, timed_out, candidate, faults>>

\* Mutant of Validate: a reverting value call counts as success.
Validate_IgnoresRevert(w) ==
    /\ pc[w] = "validate"
    /\ Goto(w, IF ValueOf(candidate[w]) = NoValue \/ Preserves(candidate[w], best.value)
               THEN "update" ELSE "check")
    /\ UNCHANGED <<best, current, attempts, timed_out, candidate, validated, faults>>

\* Replay the candidate on a clean clone and measure the value.
Validate(w) ==
    /\ pc[w] = "validate"
    /\ Goto(w, IF Preserves(candidate[w], best.value) THEN "update" ELSE "check")
    /\ UNCHANGED <<best, current, attempts, timed_out, candidate, validated, faults>>

\* SharedShrink::update compares with the sequence current by now.
Update(w) ==
    /\ pc[w] = "update"
    /\ current' = IF Len(candidate[w]) < Len(current) THEN candidate[w] ELSE current
    /\ Goto(w, "check")
    /\ UNCHANGED <<best, attempts, timed_out, candidate, validated, faults>>

\* A replay fails: the worker returns the error, the others go on.
Fault(w) ==
    /\ pc[w] = "validate"
    /\ faults < MaxFaults
    /\ faults' = faults + 1
    /\ Goto(w, "failed")
    /\ UNCHANGED <<best, current, attempts, timed_out, candidate, validated>>

Timeout ==
    /\ ~timed_out
    /\ timed_out' = TRUE
    /\ UNCHANGED <<best, current, attempts, pc, candidate, validated, faults>>

AllDone == \A w \in Workers : pc[w] \in {"done", "failed"}

Joined == AllDone /\ UNCHANGED vars

WorkerStep(w) ==
    \/ Check(w)
    \/ Minimal(w)
    \/ Cut(w)
    \/ CutAll(w)
    \/ RecordAttempt(w)
    \/ Validate(w)
    \/ Update(w)
    \/ Fault(w)

Next == (\E w \in Workers : WorkerStep(w)) \/ Timeout \/ Joined

Spec == Init /\ [][Next]_vars

\* Every worker runs; its random draws do not delete everything forever.
FairSpec ==
    /\ Spec
    /\ \A w \in Workers : WF_vars(WorkerStep(w)) /\ SF_vars(Cut(w))

-----------------------------------------------------------------------------
\* Every variable ranges over the values its Rust type has in the model; the
\* sequences in use are not empty.
TypeOK ==
    /\ best \in Bests
    /\ current \in Sequences \ {<<>>}
    /\ candidate \in [Workers -> Sequences]
    /\ \A w \in Workers :
          pc[w] \in {"attempt", "validate", "update"} => candidate[w] # <<>>
    /\ attempts \in Nat /\ validated \in Nat /\ faults \in Nat
    /\ timed_out \in BOOLEAN
    /\ pc \in [Workers -> {"check", "cut", "attempt", "validate", "update", "done",
                           "failed"}]

\* "the final value never drops below the target value": whatever the workers
\* accept, and however stale the sequence they cut it from.
ValuePreserved == Preserves(current, best.value)

\* The result is what MaxCampaign expects of shrinking: the best sequence with
\* calls deleted, never all of them, that keeps its value.
ShrinksAsPromised == current \in Shrinkings(best.calls, best.value)

\* "the sequence length never increases": a candidate cut from a stale sequence
\* never replaces a shorter one found meanwhile.
LengthNeverIncreases == [][current' # current => Len(current') < Len(current)]_vars

\* The shared counter bounds the replays, although every worker may increment
\* it once after it is used up.
ValidationsBounded == validated <= MaxRuns /\ validated <= attempts

\* The safety of the shrinker: the current sequence keeps the
\* best value, and the budget bounds the replays.
ShrinkerSound == TypeOK /\ ValuePreserved /\ ValidationsBounded

\* Shrinking ends when its budget does.
Terminates == <>AllDone
=============================================================================
