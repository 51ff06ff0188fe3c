---------------------------- MODULE MaxCampaign -----------------------------
(***************************************************************************)
(* `ripfuzz max`: the worker loop of src/maxer/fuzzer.rs and the campaign  *)
(* around it, src/cli/max.rs steps 10 to 15, over several campaigns that   *)
(* hand the corpus file to each other.                                     *)
(*                                                                         *)
(* A worker executes a fresh sequence, extends the best sequence or a      *)
(* corpus entry by one call, or mutates one at the call limit.  It         *)
(* measures value() after every call, then considers the whole sequence    *)
(* for the shared best and adds the interesting prefixes to the corpus,    *)
(* one lock at a time.  The main thread joins the workers, shrinks the     *)
(* best sequence (MaxShrinker models how), keeps the result and saves.     *)
(***************************************************************************)
EXTENDS MaxCorpus

CONSTANTS
    Workers,       \* fuzzer threads, numbered 0 .. n - 1
    MaxRuns,       \* --max-fuzz-runs
    MaxCalls,      \* --max-calls
    Target,        \* --target-value, or NoTarget
    NoTarget,
    CanTimeOut,    \* whether --timeout is given
    MaxFaults,     \* bound: executions that fail while fuzzing
    MaxMainFaults, \* bound: executions that fail while shrinking
    MaxCampaigns   \* bound: campaigns

ASSUME CampaignAssumption ==
    /\ Workers = 0 .. Cardinality(Workers) - 1 /\ Cardinality(Workers) \in Nat \ {0}
    /\ MaxRuns \in Nat /\ MaxCalls \in Nat \ {0}
    /\ Target \in Nat \cup {NoTarget}

VARIABLES
    best,        \* Shared.best: value, calls and the chain after them
    runs,        \* Shared.runs
    stop,        \* Shared.stop
    timed_out,   \* the deadline has passed
    corpus,
    covered,     \* SharedCoverage
    records,
    pc,          \* where each worker is
    budget,      \* runs each worker may still start
    best_known,  \* the highest value each worker has measured
    run,         \* the locals of each worker's current run
    phase,       \* of the main thread
    shrunk,      \* the shrinker's result
    file,        \* the saved corpus
    faults,
    campaign     \* its number

shared == <<best, runs, stop, timed_out, corpus, covered, records>>
local == <<pc, budget, best_known, run>>
main == <<phase, shrunk, file, campaign>>
vars == <<shared, local, main, faults>>

Initial == Measure(Genesis)

\* split_runs: the first remainder workers get one run more.
SplitRuns(w) ==
    LET n == Cardinality(Workers)
    IN  (MaxRuns \div n) + (IF w < MaxRuns % n THEN 1 ELSE 0)

NoRun == [calls |-> <<>>, pending |-> <<>>, chain |-> Genesis, prev |-> Initial,
          prefixes |-> <<>>]

\* Mutant of SeedBest: the sequences of earlier campaigns are not used.
SeedBest_Initial(c) == [value |-> Initial, calls |-> <<>>, chain |-> NoChain]

\* The best of the replayed corpus, the initial value without one.
SeedBest(c) ==
    IF c = <<>> THEN [value |-> Initial, calls |-> <<>>, chain |-> NoChain]
    ELSE [value |-> BestEntry(c).value, calls |-> BestEntry(c).calls,
          chain |-> BestEntry(c).chain]

ReachedBy(value) == Target # NoTarget /\ value >= Target

\* The command fails at once when value() reverts on the initial state.
FirstPhase == IF Initial = NoValue THEN "failed" ELSE "fuzz"

\* Fuzzer::run skips fuzzing when the target is met already, or when the harness
\* has no handler to call.
FirstPc(b) ==
    [w \in Workers |->
        IF FirstPhase = "failed" \/ ReachedBy(b.value) \/ Handlers = {} THEN "done" ELSE "check"]

Init ==
    /\ best = SeedBest(<<>>)
    /\ runs = 0
    /\ stop = FALSE
    /\ timed_out = FALSE
    /\ corpus = <<>>
    /\ covered = {}
    /\ records = [k \in {} |-> 0]
    /\ pc = FirstPc(best)
    /\ budget = [w \in Workers |-> SplitRuns(w)]
    /\ best_known = [w \in Workers |-> Initial]
    /\ run = [w \in Workers |-> NoRun]
    /\ phase = FirstPhase
    /\ shrunk = <<>>
    /\ file = <<>>
    /\ faults = 0
    /\ campaign = 1

-----------------------------------------------------------------------------
\* The workers

Goto(w, label) == pc' = [pc EXCEPT ![w] = label]

\* The head of the loop, then record_run.
Check(w) ==
    /\ pc[w] = "check"
    /\ \/ /\ budget[w] = 0 \/ stop \/ timed_out
          /\ Goto(w, "done")
          /\ UNCHANGED <<runs, budget>>
       \/ /\ budget[w] > 0 /\ ~stop /\ ~timed_out
          /\ runs' = runs + 1
          /\ budget' = [budget EXCEPT ![w] = @ - 1]
          /\ Goto(w, "pick")
    /\ UNCHANGED <<best, stop, timed_out, corpus, covered, records, best_known, run, main,
                   faults>>

RandomSequences == UNION {[1 .. n -> Handlers] : n \in 1 .. MaxCalls}

InitialBase == [value |-> Initial, calls |-> <<>>, chain |-> Genesis]

\* Mutant of BestBase: the snapshot is not taken along with the sequence.
BestBase_NoSnapshot == [best EXCEPT !.chain = Genesis]

\* best_base: the best sequence once some sequence improved.
BestBase == IF best.calls = <<>> \/ best.chain = NoChain THEN InitialBase ELSE best

\* random_base draws any entry; every entry has a positive weight.
CorpusBases == IF corpus = <<>> THEN {InitialBase} ELSE Range(corpus)

\* Run the pending calls after the calls of a base, on its chain.
Start(w, base, pending) ==
    run' = [run EXCEPT ![w] = [calls |-> base.calls, pending |-> pending,
                               chain |-> base.chain, prev |-> base.value,
                               prefixes |-> <<>>]]

\* Extend a base by one call; at the call limit replace one of its calls and
\* run everything from the initial state.
Reuse(w, base, c) ==
    \/ /\ Len(base.calls) < MaxCalls
       /\ Start(w, base, <<c>>)
    \/ /\ Len(base.calls) >= MaxCalls
       /\ \E pos \in DOMAIN base.calls :
             Start(w, InitialBase, [base.calls EXCEPT ![pos] = c])

Pick(w) ==
    /\ pc[w] = "pick"
    /\ \/ \E s \in RandomSequences : Start(w, InitialBase, s)
       \/ \E base \in {BestBase} \cup CorpusBases, c \in Handlers : Reuse(w, base, c)
    /\ Goto(w, "call")
    /\ UNCHANGED <<shared, budget, best_known, main, faults>>

\* Execute the next pending call on the worker's chain, merge its coverage
\* and measure the value.  The prefix is recorded when its delta is observed.
ExecCall(w) ==
    /\ pc[w] = "call"
    /\ LET r == run[w]
           c == Head(r.pending)
           x == Exec(r.chain, <<c>>)
           v == Measure(x.world)
           prefix == [calls |-> Append(r.calls, c), value |-> IF v = NoValue THEN 0 ELSE v,
                      chain |-> x.world,
                      new_edges |-> Cardinality(Points(x.results) \ covered),
                      activity |-> 0, interesting |-> FALSE, measured |-> v # NoValue]
       IN  /\ covered' = covered \cup Points(x.results)
           /\ run' = [run EXCEPT ![w] =
                 [calls |-> prefix.calls, pending |-> Tail(r.pending), chain |-> x.world,
                  prev |-> r.prev, prefixes |-> Append(r.prefixes, prefix)]]
    /\ Goto(w, "observe")
    /\ UNCHANGED <<best, runs, stop, timed_out, corpus, records, budget, best_known, main,
                   faults>>

\* chain.exec fails: the worker gives up, the others are not told.
ExecFault(w) ==
    /\ pc[w] = "call"
    /\ faults < MaxFaults
    /\ faults' = faults + 1
    /\ run' = [run EXCEPT ![w] = NoRun]
    /\ Goto(w, "failed")
    /\ UNCHANGED <<shared, budget, best_known, main>>

\* Observe the delta of the call just executed and decide whether its prefix
\* is interesting.
Observe(w) ==
    /\ pc[w] = "observe"
    /\ LET r == run[w]
           p == Last(r.prefixes)
           delta == p.value - r.prev
           class == Class(Front(p.calls), Last(p.calls))
           interesting == \/ p.new_edges > 0
                          \/ p.value > best_known[w]
                          \/ Novel(records, class, delta, r.prev < Initial)
       IN  /\ records' = Observed(records, class, delta)
           /\ best_known' = [best_known EXCEPT ![w] = Larger(@, p.value)]
           /\ run' = [run EXCEPT ![w] =
                 [r EXCEPT !.prev = p.value,
                           !.prefixes = Append(Front(r.prefixes),
                                               [p EXCEPT !.activity = Activity(delta),
                                                         !.interesting = interesting])]]
    /\ Goto(w, IF run[w].pending = <<>> THEN "consider" ELSE "call")
    /\ UNCHANGED <<best, runs, stop, timed_out, corpus, covered, budget, main, faults>>

\* The prefixes to keep: the measured ones that are interesting, all of them
\* when the sequence became the best.
Kept(prefixes, improved) ==
    ElementsAt(prefixes, {i \in DOMAIN prefixes :
                             prefixes[i].measured /\ (improved \/ prefixes[i].interesting)})

\* Shared::consider on the whole sequence, under the mutex of the best.
Consider(w) ==
    /\ pc[w] = "consider"
    /\ LET p == Last(run[w].prefixes)
           improved == p.measured /\ Improves(best, p)
       IN  /\ best' = IF improved THEN [value |-> p.value, calls |-> p.calls, chain |-> p.chain]
                      ELSE best
           /\ run' = [run EXCEPT ![w].prefixes = Kept(@, improved)]
           /\ Goto(w, IF improved /\ ReachedBy(p.value) THEN "stop" ELSE "keep")
    /\ UNCHANGED <<runs, stop, timed_out, corpus, covered, records, budget, best_known, main,
                   faults>>

\* The target is reached: ask everyone to stop.
ReachTarget(w) ==
    /\ pc[w] = "stop"
    /\ stop' = TRUE
    /\ Goto(w, "keep")
    /\ UNCHANGED <<best, runs, timed_out, corpus, covered, records, budget, best_known, run,
                   main, faults>>

EntryOf(p) == [calls |-> p.calls, value |-> p.value, new_edges |-> p.new_edges,
               activity |-> p.activity, chain |-> p.chain]

\* Mutant of Keep: the prefix is added again and again.
Keep_NoPop(w) ==
    /\ pc[w] = "keep"
    /\ \/ /\ run[w].prefixes # <<>>
          /\ corpus' = Added(corpus, EntryOf(Head(run[w].prefixes)))
          /\ UNCHANGED <<pc, run>>
       \/ /\ run[w].prefixes = <<>>
          /\ run' = [run EXCEPT ![w] = NoRun]
          /\ Goto(w, "check")
          /\ UNCHANGED corpus
    /\ UNCHANGED <<best, runs, stop, timed_out, covered, records, budget, best_known, main,
                   faults>>

\* Corpus::add for the next prefix to keep, or the end of the run.
Keep(w) ==
    /\ pc[w] = "keep"
    /\ \/ /\ run[w].prefixes # <<>>
          /\ corpus' = Added(corpus, EntryOf(Head(run[w].prefixes)))
          /\ run' = [run EXCEPT ![w].prefixes = Tail(@)]
          /\ UNCHANGED pc
       \/ /\ run[w].prefixes = <<>>
          /\ run' = [run EXCEPT ![w] = NoRun]
          /\ Goto(w, "check")
          /\ UNCHANGED corpus
    /\ UNCHANGED <<best, runs, stop, timed_out, covered, records, budget, best_known, main,
                   faults>>

\* The deadline passes.
Timeout ==
    /\ CanTimeOut /\ ~timed_out /\ phase = "fuzz"
    /\ timed_out' = TRUE
    /\ UNCHANGED <<best, runs, stop, corpus, covered, records, local, main, faults>>

-----------------------------------------------------------------------------
\* The main thread

\* Fuzzer::run joins the workers.  A failed campaign saves its corpus and
\* ends; an empty best sequence is not shrunk.
Join ==
    /\ phase = "fuzz"
    /\ \A w \in Workers : pc[w] \in {"done", "failed"}
    /\ \/ /\ \E w \in Workers : pc[w] = "failed"
          /\ phase' = "failed"
          /\ file' = Persisted(corpus)
       \/ /\ \A w \in Workers : pc[w] = "done"
          /\ phase' = IF best.calls = <<>> THEN "save" ELSE "shrink"
          /\ UNCHANGED file
    /\ UNCHANGED <<shared, local, shrunk, faults, campaign>>

Shrink ==
    /\ phase = "shrink"
    /\ shrunk' \in Shrinkings(best.calls, best.value)
    /\ phase' = "keep"
    /\ UNCHANGED <<shared, local, file, faults, campaign>>

\* An execution of the shrinker, or of the shrunk sequence, fails: the
\* command returns the error.
MainFault ==
    /\ phase \in {"shrink", "keep"}
    /\ faults < MaxMainFaults
    /\ faults' = faults + 1
    /\ phase' = "failed"
    /\ UNCHANGED <<shared, local, shrunk, file, campaign>>

\* The coverage gain of the best sequence, zero when it is not in the corpus.
InheritedEdges ==
    LET same == {i \in DOMAIN corpus : corpus[i].calls = best.calls}
    IN  IF same = {} THEN 0
        ELSE corpus[CHOOSE i \in same : \A j \in same : i <= j].new_edges

\* Re-execute the shrunk sequence and add it with the value of the best.
KeepShrunk ==
    /\ phase = "keep"
    /\ corpus' = Added(corpus, [calls |-> shrunk, value |-> best.value, activity |-> 0,
                                new_edges |-> InheritedEdges,
                                chain |-> Exec(Genesis, shrunk).world])
    /\ phase' = "save"
    /\ UNCHANGED <<best, runs, stop, timed_out, covered, records, local, shrunk, file, faults,
                   campaign>>

Save ==
    /\ phase = "save"
    /\ file' = Persisted(corpus)
    /\ phase' = "done"
    /\ UNCHANGED <<shared, local, shrunk, faults, campaign>>

\* The next campaign loads and replays the corpus and seeds the best from it.
NextCampaign ==
    /\ phase \in {"done", "failed"}
    /\ campaign < MaxCampaigns
    /\ campaign' = campaign + 1
    /\ LET r == Replayed(Loaded(file))
       IN  /\ corpus' = r.corpus
           /\ covered' = r.covered
           /\ best' = SeedBest(r.corpus)
           /\ pc' = FirstPc(SeedBest(r.corpus))
    /\ runs' = 0 /\ stop' = FALSE /\ timed_out' = FALSE
    /\ records' = [k \in {} |-> 0]
    /\ budget' = [w \in Workers |-> SplitRuns(w)]
    /\ best_known' = [w \in Workers |-> Initial]
    /\ run' = [w \in Workers |-> NoRun]
    /\ phase' = FirstPhase
    /\ shrunk' = <<>>
    /\ UNCHANGED <<file, faults>>

Finished == phase \in {"done", "failed"} /\ campaign = MaxCampaigns /\ UNCHANGED vars

WorkerStep(w) ==
    \/ Check(w)
    \/ Pick(w)
    \/ ExecCall(w)
    \/ ExecFault(w)
    \/ Observe(w)
    \/ Consider(w)
    \/ ReachTarget(w)
    \/ Keep(w)

MainStep == Join \/ Shrink \/ MainFault \/ KeepShrunk \/ Save

Next ==
    \/ \E w \in Workers : WorkerStep(w)
    \/ Timeout
    \/ MainStep
    \/ NextCampaign
    \/ Finished

Spec == Init /\ [][Next]_vars

\* The operating system keeps running some thread of the process, the main
\* thread included; which one is left to it.  Nothing makes the user start
\* another campaign.
FairSpec == Spec /\ WF_vars((\E w \in Workers : WorkerStep(w)) \/ MainStep)
-----------------------------------------------------------------------------
Values == Nat \cup {NoValue}
Sequences == Seq(Handlers)
AllMeasured(es) == \A i \in DOMAIN es : es[i].value \in Nat /\ es[i].calls \in Sequences \ {<<>>}

\* Every variable ranges over the values its Rust type has in the model.
TypeOK ==
    /\ best.value \in Values /\ best.calls \in Sequences
    /\ runs \in 0 .. MaxRuns
    /\ stop \in BOOLEAN /\ timed_out \in BOOLEAN
    /\ Len(corpus) <= MaxEntries /\ AllMeasured(corpus) /\ AllMeasured(file)
    /\ \A k \in DOMAIN records : records[k].min <= records[k].max
    /\ pc \in [Workers -> {"check", "pick", "call", "observe", "consider", "stop", "keep",
                           "done", "failed"}]
    /\ budget \in [Workers -> Nat] /\ best_known \in [Workers -> Values]
    /\ \A w \in Workers : Len(run[w].calls) + Len(run[w].pending) <= MaxCalls
    /\ phase \in {"fuzz", "shrink", "keep", "save", "done", "failed"}
    /\ shrunk \in Sequences

\* A memoized snapshot is the state its sequence leads to, and the value
\* recorded with it is the value of that state: extending or comparing entries
\* means what it says, whoever measured them.
SnapshotCoherent ==
    \A i \in DOMAIN corpus :
        /\ corpus[i].chain = FuzzedWorld(corpus[i].calls)
        /\ phase = "fuzz" => corpus[i].value = Measure(corpus[i].chain)

\* The best sequence the command reports reaches its value when it is replayed
\* on a clean chain, although several workers raced to set it.
BestReproduces ==
    best.calls # <<>> =>
        /\ ValueOf(best.calls) = best.value
        /\ best.chain = FuzzedWorld(best.calls)

\* Once the worker that found it has added its prefixes, the corpus holds a
\* sequence as good as the best one: saving the corpus saves the result.
CorpusHoldsBest ==
    (\A w \in Workers : pc[w] \notin {"stop", "keep"}) /\ best.calls # <<>> =>
        TopValue(corpus) >= best.value

\* Fuzzing is asked to stop exactly when the target value is reached (or the
\* worker that reached it is about to ask).
TargetSignalled ==
    /\ stop => ReachedBy(best.value)
    /\ phase = "fuzz" /\ ReachedBy(best.value) =>
          runs = 0 \/ stop \/ \E w \in Workers : pc[w] = "stop"

\* What a max campaign promises at every point: its result reproduces, its
\* corpus holds a sequence as good and coherent snapshots, and it stops for the
\* target value only.
CampaignSound ==
    /\ TypeOK
    /\ SnapshotCoherent
    /\ BestReproduces
    /\ CorpusHoldsBest
    /\ TargetSignalled

\* "seed the best from that entry so reruns reuse its snapshot": a campaign
\* starts from a value at least as high as the one the last campaign found,
\* even when that one failed while fuzzing.  (When it failed while shrinking,
\* the command returns before it saves the corpus.)
BestSurvives ==
    [][/\ campaign' # campaign
       /\ best.calls # <<>>
       /\ phase = "done" \/ \E w \in Workers : pc[w] = "failed"
       => best'.value >= best.value]_vars

\* Every campaign ends, with or without a deadline and failing executions.
CampaignEnds == []<>(phase \in {"done", "failed"})

\* "Ripfuzz keeps the highest value seen" (docs/max/README.md): when fuzzing is
\* over, no worker has measured a higher value than the best.
HighestKept ==
    phase \in {"shrink", "keep", "save", "done"} =>
        \A w \in Workers : best_known[w] <= best.value

\* The best is "seeded with the empty sequence and the initial harness value"
\* (maxer/best.rs) and only improves, so it never is below that value.
NotBelowInitial == phase = "fuzz" => best.value >= Initial
=============================================================================
