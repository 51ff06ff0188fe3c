---------------------------- MODULE TestCampaign ----------------------------
(***************************************************************************)
(* The fuzzing campaign of `ripfuzz test`: src/tester/fuzzer.rs with the   *)
(* collection of broken invariants (src/tester/broken_invariant.rs) and    *)
(* the corpus (src/tester/corpus/mod.rs) its workers share.                *)
(*                                                                         *)
(* Each worker spends its share of the run budget.  A run executes a fresh *)
(* random sequence, extends a corpus snapshot by one call, or mutates a    *)
(* sequence at the call limit; after each handler call it checks the       *)
(* invariants on a throwaway clone.  Reads and writes of the shared        *)
(* objects are separate steps.  Coverage is a set of points; the score of  *)
(* a merge is the number of points that are new to the campaign.           *)
(***************************************************************************)
EXTENDS HarnessExec, FiniteSets

CONSTANTS
    Workers,      \* fuzzer threads, numbered 0 .. n - 1
    MaxRuns,      \* --max-runs
    MaxCalls,     \* --max-calls
    MaxFindings,  \* --max-failures
    MaxEntries,   \* MAX_ENTRIES of the corpus
    CanTimeOut,   \* whether --timeout is given
    MaxFaults     \* bound: executions that fail (an RPC error, say)

ASSUME CampaignAssumption ==
    /\ Workers = 0 .. Cardinality(Workers) - 1 /\ Cardinality(Workers) \in Nat \ {0}
    /\ MaxEntries \in Nat \ {0}
    /\ {MaxRuns, MaxCalls, MaxFindings, MaxFaults} \subseteq Nat
    /\ Invariants \in Seq(Range(Invariants))

VARIABLES
    runs,         \* Shared.runs
    stop,         \* Shared.stop
    timed_out,    \* the deadline has passed
    findings,     \* SharedBrokenInvariants, in discovery order
    corpus,       \* Corpus entries: sequence, score and memoized chain
    covered,      \* SharedCoverage
    pc,           \* where each worker is
    budget,       \* runs each worker may still start
    calls,        \* the worker's sequence
    index,        \* the pending call it executes next
    chain,        \* its working chain
    new_edges,    \* coverage its sequence brought so far
    results,      \* results of its last execution
    faults,       \* executions that failed so far
    reported,     \* ids the executed calls have reported so far
    halted,       \* finding ids the stop filters matched
    outcome,      \* of the campaign
    late          \* runs each worker began when there was a reason to stop

shared == <<runs, stop, timed_out, findings, corpus, covered>>
local == <<pc, budget, calls, index, chain, new_edges, results>>
vars == <<shared, local, faults, reported, halted, outcome, late>>

\* split_runs: the first remainder workers get one run more.
SplitRuns(w) ==
    LET n == Cardinality(Workers)
    IN  (MaxRuns \div n) + (IF w < MaxRuns % n THEN 1 ELSE 0)

\* Fuzzer::run spawns no worker when the harness has no handler to call.
FirstPc == IF Handlers = {} THEN "done" ELSE "check"

Init ==
    /\ runs = 0
    /\ stop = FALSE
    /\ timed_out = FALSE
    /\ findings = <<>>
    /\ corpus = <<>>
    /\ covered = {}
    /\ pc = [w \in Workers |-> FirstPc]
    /\ budget = [w \in Workers |-> SplitRuns(w)]
    /\ calls = [w \in Workers |-> <<>>]
    /\ index = [w \in Workers |-> 1]
    /\ chain = [w \in Workers |-> Genesis]
    /\ new_edges = [w \in Workers |-> 0]
    /\ results = [w \in Workers |-> <<>>]
    /\ faults = 0
    /\ reported = {}
    /\ halted = {}
    /\ outcome = "running"
    /\ late = [w \in Workers |-> 0]

-----------------------------------------------------------------------------
\* SharedBrokenInvariants

KnownAt(id) == {i \in DOMAIN findings : findings[i].id = id}

\* Mutant of TryAdd: a known id always takes the latest sequence.
TryAdd_Latest(f) ==
    findings' =
        IF KnownAt(f.id) # {}
        THEN [i \in DOMAIN findings |-> IF i \in KnownAt(f.id) THEN f ELSE findings[i]]
        ELSE IF Len(findings) >= MaxFindings THEN findings ELSE Append(findings, f)

\* try_add, under the collection's mutex: a known id keeps its shortest
\* sequence, a new id is rejected when the collection is full.
TryAdd(f) ==
    findings' =
        IF KnownAt(f.id) # {}
        THEN [i \in DOMAIN findings |->
                 IF i \in KnownAt(f.id) /\ Len(f.calls) < Len(findings[i].calls)
                 THEN f ELSE findings[i]]
        ELSE IF Len(findings) >= MaxFindings THEN findings ELSE Append(findings, f)

IsFull == Len(findings) >= MaxFindings

\* The calls of worker w up to and including its current handler call.
Prefix(w) == SubSeq(calls[w], 1, index[w])

ReportedIds(rs) == {rs[i].report : i \in DOMAIN rs} \ {NoId}

Finding(id, cs) == [id |-> id, calls |-> cs]

-----------------------------------------------------------------------------
\* Corpus

Weakest(s) ==
    CHOOSE i \in DOMAIN s :
        /\ \A j \in DOMAIN s : s[i].new_edges <= s[j].new_edges
        /\ \A j \in 1 .. i - 1 : s[i].new_edges < s[j].new_edges

\* Corpus::add: when full, evict the first weakest entry unless the new
\* sequence is weaker still.
AddEntry(e) ==
    corpus' =
        IF Len(corpus) < MaxEntries THEN Append(corpus, e)
        ELSE IF e.new_edges >= corpus[Weakest(corpus)].new_edges
             THEN Append(RemoveAt(corpus, Weakest(corpus)), e)
             ELSE corpus

-----------------------------------------------------------------------------
Goto(w, label) == pc' = [pc EXCEPT ![w] = label]

\* execute_sequence returns: its locals are gone.
Leave(w, label) ==
    /\ Goto(w, label)
    /\ calls' = [calls EXCEPT ![w] = <<>>]
    /\ index' = [index EXCEPT ![w] = 1]
    /\ chain' = [chain EXCEPT ![w] = Genesis]
    /\ new_edges' = [new_edges EXCEPT ![w] = 0]
    /\ results' = [results EXCEPT ![w] = <<>>]

\* Mutant of Check: only the deadline and the budget end the loop.
Check_IgnoresStop(w) ==
    /\ pc[w] = "check"
    /\ Goto(w, IF budget[w] = 0 \/ timed_out THEN "done" ELSE "capacity")
    /\ UNCHANGED <<shared, budget, calls, index, chain, new_edges, results, faults,
                   reported, halted, outcome, late>>

\* The head of the worker's loop: the stop flag and the deadline.
Check(w) ==
    /\ pc[w] = "check"
    /\ Goto(w, IF budget[w] = 0 \/ stop \/ timed_out THEN "done" ELSE "capacity")
    /\ UNCHANGED <<shared, budget, calls, index, chain, new_edges, results, faults,
                   reported, halted, outcome, late>>

\* Whatever ends a campaign early.
StopReason == stop \/ timed_out \/ IsFull

\* Then the capacity of the collection; a worker that finds room begins a run,
\* whatever the stop flag and the deadline have become.
Capacity(w) ==
    /\ pc[w] = "capacity"
    /\ \/ /\ IsFull
          /\ stop' = TRUE
          /\ Goto(w, "done")
          /\ UNCHANGED <<runs, budget, late>>
       \/ /\ ~IsFull /\ budget[w] > 0
          /\ runs' = runs + 1
          /\ budget' = [budget EXCEPT ![w] = @ - 1]
          /\ late' = [late EXCEPT ![w] = @ + (IF StopReason THEN 1 ELSE 0)]
          /\ Goto(w, "pick")
          /\ UNCHANGED stop
    /\ UNCHANGED <<timed_out, findings, corpus, covered, calls, index, chain,
                   new_edges, results, faults, reported, halted, outcome>>

\* Run sequence cs on the given chain, its calls before from being executed.
Start(w, cs, from, world) ==
    /\ calls' = [calls EXCEPT ![w] = cs]
    /\ index' = [index EXCEPT ![w] = from]
    /\ chain' = [chain EXCEPT ![w] = world]
    /\ new_edges' = [new_edges EXCEPT ![w] = 0]

\* max_calls.max(1)
CallLimit == IF MaxCalls = 0 THEN 1 ELSE MaxCalls

RandomSequences == UNION {[1 .. n -> Handlers] : n \in 1 .. CallLimit}

\* Extend a snapshot by one call, on the memoized chain.
Extend(w, e, c) ==
    /\ Len(e.calls) < MaxCalls
    /\ Start(w, Append(e.calls, c), Len(e.calls) + 1, e.chain)

\* Mutant of Mutate: the mutated sequence runs on the snapshot.
Mutate_OnSnapshot(w, e, c, pos) ==
    /\ Len(e.calls) >= MaxCalls
    /\ Start(w, [e.calls EXCEPT ![pos] = c], 1, e.chain)

\* At the call limit: replace one call and run everything from the start.
Mutate(w, e, c, pos) ==
    /\ Len(e.calls) >= MaxCalls
    /\ Start(w, [e.calls EXCEPT ![pos] = c], 1, Genesis)

\* Choose the run's sequence: fresh, or from a corpus entry if there is one.
Pick(w) ==
    /\ pc[w] = "pick"
    /\ \/ \E cs \in RandomSequences : Start(w, cs, 1, Genesis)
       \/ \E i \in DOMAIN corpus, c \in Handlers :
             \/ Extend(w, corpus[i], c)
             \/ \E pos \in DOMAIN corpus[i].calls : Mutate(w, corpus[i], c, pos)
    /\ Goto(w, "call")
    /\ UNCHANGED <<shared, budget, results, faults, reported, halted, outcome, late>>

\* Commit the handler call on the working chain and merge its coverage.
ExecHandler(w) ==
    /\ pc[w] = "call"
    /\ LET x == Exec(chain[w], <<calls[w][index[w]]>>)
       IN  /\ chain' = [chain EXCEPT ![w] = x.world]
           /\ results' = [results EXCEPT ![w] = x.results]
           /\ reported' = reported \cup ReportedIds(x.results)
           /\ covered' = covered \cup Points(x.results)
           /\ new_edges' =
                 [new_edges EXCEPT ![w] = @ + Cardinality(Points(x.results) \ covered)]
    /\ Goto(w, "report")
    /\ UNCHANGED <<runs, stop, timed_out, findings, corpus, budget, calls, index,
                   faults, halted, outcome, late>>

\* chain.exec fails: the worker gives up, the others are not told.
ExecFault(w) ==
    /\ pc[w] \in {"call", "invariants"}
    /\ faults < MaxFaults
    /\ faults' = faults + 1
    /\ Leave(w, "failed")
    /\ UNCHANGED <<shared, budget, reported, halted, outcome, late>>

\* Mutant of NextCall: the index stays where it is.
NextCall_NoAdvance(w) ==
    /\ results' = [results EXCEPT ![w] = <<>>]
    /\ Goto(w, IF index[w] < Len(calls[w]) THEN "call" ELSE "keep")
    /\ UNCHANGED <<findings, halted, stop, calls, index, chain, new_edges>>

\* After the last pending call the sequence may join the corpus.
NextCall(w) ==
    /\ index' = [index EXCEPT ![w] = @ + 1]
    /\ results' = [results EXCEPT ![w] = <<>>]
    /\ Goto(w, IF index[w] < Len(calls[w]) THEN "call" ELSE "keep")
    /\ UNCHANGED <<findings, halted, stop, calls, chain, new_edges>>

\* A BrokenInvariantError of the handler call.
ReportHandler(w) ==
    /\ pc[w] = "report"
    /\ LET r == results[w][1]
       IN  IF r.report = NoId THEN UNCHANGED findings
           ELSE TryAdd(Finding(r.report, Prefix(w)))
    /\ Goto(w, "filter")
    /\ UNCHANGED <<runs, stop, timed_out, corpus, covered, budget, calls, index, chain,
                   new_edges, results, faults, reported, halted, outcome, late>>

\* A stop filter matched: record the finding, ask everyone to stop, leave the
\* sequence without keeping it.
Halt(w, id, cs) ==
    /\ TryAdd(Finding(id, cs))
    /\ halted' = halted \cup {id}
    /\ stop' = TRUE
    /\ Leave(w, "check")

\* The stop filters on the handler call, revert before panic.
FilterHandler(w) ==
    /\ pc[w] = "filter"
    /\ LET r == results[w][1]
           id == IF r.revert # NoId THEN r.revert ELSE r.panic
       IN  \/ id # NoId /\ Halt(w, id, Prefix(w))
           \/ /\ id = NoId
              /\ Invariants = <<>>
              /\ NextCall(w)
           \/ /\ id = NoId
              /\ Invariants # <<>>
              /\ Goto(w, "invariants")
              /\ UNCHANGED <<findings, halted, stop, calls, index, chain, new_edges, results>>
    /\ UNCHANGED <<runs, timed_out, corpus, covered, budget, faults, reported, outcome, late>>

\* Every invariant runs on one clone of the working chain.
ExecInvariants(w) ==
    /\ pc[w] = "invariants"
    /\ LET x == Exec(chain[w], Invariants)
       IN  /\ results' = [results EXCEPT ![w] = x.results]
           /\ reported' = reported \cup ReportedIds(x.results)
           /\ covered' = covered \cup Points(x.results)
           /\ new_edges' =
                 [new_edges EXCEPT ![w] = @ + Cardinality(Points(x.results) \ covered)]
    /\ Goto(w, "checked")
    /\ UNCHANGED <<runs, stop, timed_out, findings, corpus, budget, calls, index, chain,
                   faults, halted, outcome, late>>

\* The reports of the invariants, one try_add each in declaration order; a
\* report that was added is cleared from the results.
ReportInvariant(w) ==
    /\ pc[w] = "checked"
    /\ \E i \in DOMAIN results[w] :
          /\ results[w][i].report # NoId
          /\ \A j \in 1 .. i - 1 : results[w][j].report = NoId
          /\ TryAdd(Finding(results[w][i].report, Append(Prefix(w), Invariants[i])))
          /\ results' = [results EXCEPT ![w][i].report = NoId]
    /\ UNCHANGED <<runs, stop, timed_out, corpus, covered, pc, budget, calls, index,
                   chain, new_edges, faults, reported, halted, outcome, late>>

AllReported(w) == \A i \in DOMAIN results[w] : results[w][i].report = NoId

\* The first invariant the revert filter matches, then the first the panic
\* filter matches.
FirstMatch(w, i) ==
    LET rs == results[w]
        reverts == {j \in DOMAIN rs : rs[j].revert # NoId}
        panics == {j \in DOMAIN rs : rs[j].panic # NoId}
        candidates == IF reverts # {} THEN reverts ELSE panics
    IN  i \in candidates /\ \A j \in candidates : i <= j

FilterInvariants(w) ==
    /\ pc[w] = "checked"
    /\ AllReported(w)
    /\ \/ \E i \in DOMAIN results[w] :
             /\ FirstMatch(w, i)
             /\ LET r == results[w][i]
                IN  Halt(w, IF r.revert # NoId THEN r.revert ELSE r.panic,
                         Append(Prefix(w), Invariants[i]))
       \/ /\ \A i \in DOMAIN results[w] : ~FirstMatch(w, i)
          /\ NextCall(w)
    /\ UNCHANGED <<runs, timed_out, corpus, covered, budget, faults, reported, outcome, late>>

\* The sequence joins the corpus if it brought new coverage.
Keep(w) ==
    /\ pc[w] = "keep"
    /\ IF new_edges[w] > 0
       THEN AddEntry([calls |-> calls[w], new_edges |-> new_edges[w], chain |-> chain[w]])
       ELSE UNCHANGED corpus
    /\ Goto(w, "full")
    /\ UNCHANGED <<runs, stop, timed_out, findings, covered, budget, calls, index, chain,
                   new_edges, results, faults, reported, halted, outcome, late>>

CheckFull(w) ==
    /\ pc[w] = "full"
    /\ stop' = (stop \/ IsFull)
    /\ Leave(w, "check")
    /\ UNCHANGED <<runs, timed_out, findings, corpus, covered, budget, faults, reported,
                   halted, outcome, late>>

\* The deadline passes.
Timeout ==
    /\ CanTimeOut
    /\ ~timed_out
    /\ timed_out' = TRUE
    /\ UNCHANGED <<runs, stop, findings, corpus, covered, local, faults, reported,
                   halted, outcome, late>>

\* Fuzzer::run joins the workers; one failure fails the campaign.
Join ==
    /\ outcome = "running"
    /\ \A w \in Workers : pc[w] \in {"done", "failed"}
    /\ outcome' = IF \E w \in Workers : pc[w] = "failed" THEN "failed" ELSE "finished"
    /\ UNCHANGED <<shared, local, faults, reported, halted, late>>

Finished == outcome # "running" /\ UNCHANGED vars

WorkerStep(w) ==
    \/ Check(w)
    \/ Capacity(w)
    \/ Pick(w)
    \/ ExecHandler(w)
    \/ ExecFault(w)
    \/ ReportHandler(w)
    \/ FilterHandler(w)
    \/ ExecInvariants(w)
    \/ ReportInvariant(w)
    \/ FilterInvariants(w)
    \/ Keep(w)
    \/ CheckFull(w)

Next ==
    \/ \E w \in Workers : WorkerStep(w)
    \/ Timeout
    \/ Join
    \/ Finished

Spec == Init /\ [][Next]_vars

\* The operating system runs every worker, and the joining main thread.
FairSpec == Spec /\ (\A w \in Workers : WF_vars(WorkerStep(w))) /\ WF_vars(Join)
-----------------------------------------------------------------------------
Ids == {findings[i].id : i \in DOMAIN findings}

\* Every variable ranges over the values its Rust type has in the model.
TypeOK ==
    /\ runs \in Nat
    /\ stop \in BOOLEAN /\ timed_out \in BOOLEAN
    /\ \A i \in DOMAIN findings : findings[i].calls # <<>>
    /\ \A i \in DOMAIN corpus :
          Range(corpus[i].calls) \subseteq Handlers /\ corpus[i].new_edges > 0
    /\ pc \in [Workers -> {"check", "capacity", "pick", "call", "report", "filter",
                           "invariants", "checked", "keep", "full", "done", "failed"}]
    /\ budget \in [Workers -> Nat]
    /\ \A w \in Workers : Range(calls[w]) \subseteq Handlers /\ Len(calls[w]) <= CallLimit
    /\ \A w \in Workers : index[w] \in 1 .. Len(calls[w]) + 1
    /\ new_edges \in [Workers -> Nat]
    /\ outcome \in {"running", "finished", "failed"}

\* A memoized snapshot is the state its sequence leads to: extending it
\* continues that sequence, whatever the workers did in between.
SnapshotCoherent ==
    \A i \in DOMAIN corpus : corpus[i].chain = FuzzedWorld(corpus[i].calls)

\* Replaying a recorded finding on a clean chain shows its id on the last call:
\* "the calls that reproduce it, ending with the reverting call".
FindingsReproduce ==
    \A i \in DOMAIN findings : findings[i].id \in LastIds(findings[i].calls)

\* The collection is deduplicated by id and bounded, with any number of
\* workers adding to it.
FindingsDistinct ==
    /\ Cardinality(Ids) = Len(findings)
    /\ Len(findings) <= MaxFindings

\* A reported id is in the collection once its worker is between sequences,
\* unless the collection is full.
NoReportLost ==
    (\A w \in Workers : pc[w] \in {"check", "capacity", "pick", "done", "failed"}) /\ ~IsFull =>
        reported \subseteq Ids

\* The workers' shares add up to the run budget: a campaign ends before it has
\* executed --max-runs sequences only when the collection is full, a stop filter
\* matched, the deadline passed or there is no handler to call.
BudgetSpent ==
    /\ runs <= MaxRuns
    /\ outcome = "finished" /\ ~IsFull /\ halted = {} /\ ~timed_out =>
          runs = IF Handlers = {} THEN 0 ELSE MaxRuns

\* A finding is never dropped, and its sequence only gets shorter.
ShortestKept ==
    [][\A i \in DOMAIN findings :
          /\ i \in DOMAIN findings'
          /\ findings'[i].id = findings[i].id
          /\ findings'[i] = findings[i] \/ Len(findings'[i].calls) < Len(findings[i].calls)
      ]_vars

\* What the collection and the corpus of a campaign promise at every point:
\* snapshots extend their sequences, findings are distinct, reproduce and are
\* not lost, and the run budget is spent.
CampaignSound ==
    /\ TypeOK
    /\ SnapshotCoherent
    /\ FindingsReproduce
    /\ FindingsDistinct
    /\ NoReportLost
    /\ BudgetSpent

\* The campaign ends, with or without a timeout, failures or stop requests.
Terminates == <>(outcome # "running")

\* Once there is a reason to stop, each worker begins at most the run it has
\* just been cleared for, and the worker that raised the stop flag none: the flag
\* and the deadline are read before the capacity, and the run is begun after.
StopIsTimely ==
    /\ \A w \in Workers : late[w] \in {0, 1}
    /\ ~timed_out => \E w \in Workers : late[w] = 0

\* "The matching revert is recorded as a `REVERT:` finding"
\* (docs/test/README.md): what stopped a finished campaign is in its findings.
StopIsRecorded == outcome = "finished" => halted \subseteq Ids
=============================================================================
