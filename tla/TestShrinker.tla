---------------------------- MODULE TestShrinker ----------------------------
(***************************************************************************)
(* Shrinking one finding, shrink_one in src/tester/shrinker.rs: workers    *)
(* delete random chunks from the current sequence, replay the rest on a    *)
(* clean chain and replace the current sequence when the finding still     *)
(* reproduces.  They share the current finding (under a mutex) and the     *)
(* attempt counter; a candidate is cut from a snapshot that may be stale   *)
(* by the time it is accepted.                                             *)
(***************************************************************************)
EXTENDS HarnessExec

CONSTANTS
    Workers,    \* shrinker threads
    Seeds,      \* findings handed to the shrinker
    StopIds,    \* ids that record a stop filter's revert or panic
    MaxRuns,    \* validation budget per finding
    MaxFaults   \* bound: replays that fail

\* A finding: its id and the calls that end with the one reporting it.
Calls == Handlers \cup Range(Invariants)
Findings == [id : STRING, calls : Seq(Calls)]

ASSUME MaxRunsAssumption == MaxRuns \in Nat
ASSUME SeedsAssumption == Seeds \subseteq Findings

VARIABLES
    seed,       \* the finding as the fuzzer recorded it
    current,    \* SharedShrink.current
    attempts,   \* SharedShrink.attempts
    timed_out,  \* the deadline has passed
    pc,
    snapshot,   \* the finding each worker cuts its candidate from
    candidate,  \* the sequence it validates
    validated,  \* replays started so far, over all workers
    faults

vars == <<seed, current, attempts, timed_out, pc, snapshot, candidate, validated, faults>>

Init ==
    /\ seed \in Seeds
    /\ current = seed
    /\ attempts = 0
    /\ timed_out = FALSE
    /\ pc = [w \in Workers |-> IF Len(seed.calls) <= 1 THEN "done" ELSE "check"]
    /\ snapshot = [w \in Workers |-> seed]
    /\ candidate = [w \in Workers |-> <<>>]
    /\ validated = 0
    /\ faults = 0

Goto(w, label) == pc' = [pc EXCEPT ![w] = label]

\* The head of shrink_worker's loop: exhausted() and timed_out().
Check(w) ==
    /\ pc[w] = "check"
    /\ Goto(w, IF attempts >= MaxRuns \/ timed_out THEN "done" ELSE "cut")
    /\ UNCHANGED <<seed, current, attempts, timed_out, snapshot, candidate, validated,
                   faults>>

\* Sequence::without: the calls before position from and after position to.
Without(s, from, to) == SubSeq(s, 1, from - 1) \o SubSeq(s, to + 1, Len(s))

\* Snapshot the current finding and delete a chunk of it.
Cut(w) ==
    /\ pc[w] = "cut"
    /\ snapshot' = [snapshot EXCEPT ![w] = current]
    /\ \/ /\ current.calls = <<>>
          /\ Goto(w, "done")
          /\ UNCHANGED candidate
       \/ \E from, to \in DOMAIN current.calls :
             /\ from <= to
             /\ candidate' = [candidate EXCEPT ![w] = Without(current.calls, from, to)]
             /\ Goto(w, "attempt")
    /\ UNCHANGED <<seed, current, attempts, timed_out, validated, faults>>

\* Mutant of RecordAttempt: attempts are not counted.
RecordAttempt_NoCount(w) ==
    /\ pc[w] = "attempt"
    /\ Goto(w, "validate")
    /\ UNCHANGED <<seed, current, attempts, timed_out, snapshot, candidate, validated,
                   faults>>

\* record_attempt: fetch_add, then compare with the budget.
RecordAttempt(w) ==
    /\ pc[w] = "attempt"
    /\ attempts' = attempts + 1
    /\ \/ /\ attempts + 1 <= MaxRuns
          /\ validated' = validated + 1
          /\ Goto(w, "validate")
       \/ /\ attempts + 1 > MaxRuns
          /\ Goto(w, "done")
          /\ UNCHANGED validated
    /\ UNCHANGED <<seed, current, timed_out, snapshot, candidate, faults>>

\* The ids reported anywhere in a replay.
ReportedIds(calls) ==
    LET rs == Exec(Genesis, calls).results IN {rs[i].report : i \in DOMAIN rs}

\* reproduces: the last call for a stop finding, any call for a report.
Reproduces(calls, id) ==
    IF id \in StopIds THEN calls # <<>> /\ id \in LastIds(calls)
    ELSE id \in ReportedIds(calls)

\* What the shrinker is given reproduces: the fuzzer recorded the calls up to
\* the one that reported the id.
ASSUME SeedsReproduce == \A f \in Seeds : Reproduces(f.calls, f.id)

\* Mutant of Validate: every candidate is accepted.
Validate_Always(w) ==
    /\ pc[w] = "validate"
    /\ Goto(w, "update")
    /\ UNCHANGED <<seed, current, attempts, timed_out, snapshot, candidate, validated,
                   faults>>

Validate(w) ==
    /\ pc[w] = "validate"
    /\ Goto(w, IF Reproduces(candidate[w], snapshot[w].id) THEN "update" ELSE "check")
    /\ UNCHANGED <<seed, current, attempts, timed_out, snapshot, candidate, validated,
                   faults>>

\* SharedShrink::update compares with the finding current by now.
Update(w) ==
    /\ pc[w] = "update"
    /\ current' = IF Len(candidate[w]) < Len(current.calls)
                  THEN [snapshot[w] EXCEPT !.calls = candidate[w]]
                  ELSE current
    /\ Goto(w, "check")
    /\ UNCHANGED <<seed, attempts, timed_out, snapshot, candidate, validated, faults>>

\* A replay fails: the worker returns the error, shrink_one reports it once
\* the others are done.
Fault(w) ==
    /\ pc[w] = "validate"
    /\ faults < MaxFaults
    /\ faults' = faults + 1
    /\ Goto(w, "failed")
    /\ UNCHANGED <<seed, current, attempts, timed_out, snapshot, candidate, validated>>

Timeout ==
    /\ ~timed_out
    /\ timed_out' = TRUE
    /\ UNCHANGED <<seed, current, attempts, pc, snapshot, candidate, validated, faults>>

AllDone == \A w \in Workers : pc[w] \in {"done", "failed"}

Joined == AllDone /\ UNCHANGED vars

WorkerStep(w) ==
    Check(w) \/ Cut(w) \/ RecordAttempt(w) \/ Validate(w) \/ Update(w) \/ Fault(w)

Next == (\E w \in Workers : WorkerStep(w)) \/ Timeout \/ Joined

Spec == Init /\ [][Next]_vars
FairSpec == Spec /\ \A w \in Workers : WF_vars(WorkerStep(w))

-----------------------------------------------------------------------------
\* Every variable ranges over the values its Rust type has in the model.
TypeOK ==
    /\ seed \in Seeds
    /\ current \in Findings
    /\ current.id = seed.id
    /\ snapshot \in [Workers -> Findings]
    /\ candidate \in [Workers -> Seq(Calls)]
    /\ attempts \in Nat /\ validated \in Nat /\ faults \in Nat
    /\ timed_out \in BOOLEAN
    /\ pc \in [Workers -> {"check", "cut", "attempt", "validate", "update", "done",
                           "failed"}]

\* Whatever the workers accept, the current sequence still reproduces the
\* finding on a clean replay.
StillReproduces == Reproduces(current.calls, seed.id)

\* "the sequence length never increases": a candidate cut from a stale
\* snapshot never replaces a shorter sequence found meanwhile.
LengthNeverIncreases ==
    [][current' # current => Len(current'.calls) < Len(current.calls)]_vars

\* The shared counter bounds the replays, although every worker may increment
\* it once after it is used up.
ValidationsBounded ==
    /\ validated <= MaxRuns
    /\ validated <= attempts

\* The safety of the shrinker: the current sequence still reproduces
\* its finding, and the budget bounds the replays.
ShrinkerSound == TypeOK /\ StillReproduces /\ ValidationsBounded

\* Shrinking ends when its budget does.
Terminates == <>AllDone
=============================================================================
