----------------------------- MODULE MaxCorpus ------------------------------
(***************************************************************************)
(* The data structures a max campaign decides with: the corpus with its    *)
(* eviction rule (src/maxer/corpus.rs), the best sequence (best.rs), the   *)
(* signed value deltas (delta.rs) and their records per class of calls     *)
(* (records.rs).  Operators only; the state is in MaxCampaign.             *)
(***************************************************************************)
EXTENDS MaxExec, Integers, FiniteSets

CONSTANTS
    MaxEntries,   \* MAX_ENTRIES
    NoChain,      \* no snapshot of the best sequence yet
    Selector(_)   \* the function a call invokes, whatever its arguments

ASSUME MaxEntriesAssumption == MaxEntries \in Nat \ {0}

-----------------------------------------------------------------------------
\* Deltas

\* How often a number can be halved before it is zero.
BitLen(n) ==
    LET len[k \in 0 .. n] == IF k = 0 THEN 0 ELSE 1 + len[k \div 2]
    IN  len[n]

Magnitude(delta) == IF delta < 0 THEN -delta ELSE delta

\* Delta::activity
Activity(delta) == IF delta = 0 THEN 0 ELSE (BitLen(Magnitude(delta)) + 1) * 8

-----------------------------------------------------------------------------
\* Records: the extreme deltas of each (prefix selectors, selector) class

Class(prefix, c) == [prefix |-> [i \in DOMAIN prefix |-> Selector(prefix[i])],
                     handler |-> Selector(c)]

Smaller(a, b) == IF a < b THEN a ELSE b
Larger(a, b) == IF a < b THEN b ELSE a

Extremes(records, class, delta) ==
    IF class \in DOMAIN records
    THEN [min |-> Smaller(records[class].min, delta), max |-> Larger(records[class].max, delta)]
    ELSE [min |-> delta, max |-> delta]

\* The records after an observation; a zero delta leaves them alone.
Observed(records, class, delta) ==
    IF delta = 0 THEN records
    ELSE [k \in DOMAIN records \cup {class} |->
             IF k = class THEN Extremes(records, class, delta) ELSE records[k]]

\* Observation::is_interesting: a new extreme, or a climb from below the
\* initial value.
Novel(records, class, delta, below) ==
    \/ delta > 0 /\ below
    \/ delta # 0 /\ class \notin DOMAIN records
    \/ delta < 0 /\ class \in DOMAIN records /\ delta < records[class].min
    \/ delta > 0 /\ class \in DOMAIN records /\ delta > records[class].max

-----------------------------------------------------------------------------
\* Best

\* Best::consider replaces the best: a higher value, or the same value with
\* fewer calls once some sequence improved on the initial value.
Improves(best, p) ==
    \/ p.value > best.value
    \/ p.value = best.value /\ best.calls # <<>> /\ Len(p.calls) < Len(best.calls)

-----------------------------------------------------------------------------
\* Corpus: a sequence of entries, oldest first

Strength(e) == e.new_edges + e.activity

\* The best value currently in the corpus (zero when it is empty).
TopValue(corpus) ==
    LET values == {corpus[i].value : i \in DOMAIN corpus}
    IN  IF values = {} THEN 0 ELSE CHOOSE v \in values : \A u \in values : u <= v

Below(corpus) == {i \in DOMAIN corpus : corpus[i].value < TopValue(corpus)}

Weaker(a, b) ==
    \/ Strength(a) < Strength(b)
    \/ Strength(a) = Strength(b) /\ a.value < b.value

\* The first of the weakest entries below the best value.
Weakest(corpus) ==
    CHOOSE i \in Below(corpus) :
        /\ \A j \in Below(corpus) : ~Weaker(corpus[j], corpus[i])
        /\ \A j \in Below(corpus) : j < i => Weaker(corpus[i], corpus[j])

\* Where a full corpus makes room for a sequence that improves on it.
Victim(corpus) == IF Below(corpus) = {} THEN Len(corpus) ELSE Weakest(corpus)

\* Corpus::add: a full corpus always takes a sequence that improves on its
\* best value; another one must be stronger than the weakest entry.
Added(corpus, e) ==
    IF Len(corpus) < MaxEntries THEN Append(corpus, e)
    ELSE IF e.value > TopValue(corpus) THEN Append(RemoveAt(corpus, Victim(corpus)), e)
    ELSE IF Below(corpus) # {} /\ Strength(e) > Strength(corpus[Weakest(corpus)])
         THEN Append(RemoveAt(corpus, Weakest(corpus)), e)
         ELSE corpus

\* Corpus::best_entry: the last entry with the highest value.
BestEntry(corpus) ==
    corpus[CHOOSE i \in DOMAIN corpus :
              /\ corpus[i].value = TopValue(corpus)
              /\ \A j \in i + 1 .. Len(corpus) : corpus[j].value < TopValue(corpus)]

\* Corpus::save writes sequences, values and coverage gains, not snapshots.
Persisted(corpus) ==
    [i \in DOMAIN corpus |-> [calls |-> corpus[i].calls, value |-> corpus[i].value,
                              new_edges |-> corpus[i].new_edges]]

\* Corpus::load, one entry of the file: it is added without a snapshot; its
\* calls resolve, the harness being the same.
LoadEntry(corpus, e) ==
    Added(corpus, [calls |-> e.calls, value |-> e.value, new_edges |-> e.new_edges,
                   activity |-> 0, chain |-> NoChain])

Loaded(file) ==
    LET after[n \in 0 .. Len(file)] ==
            IF n = 0 THEN <<>> ELSE LoadEntry(after[n - 1], file[n])
    IN  after[Len(file)]

\* CorpusReplayer::replay, one loaded entry: run it on a clean chain, merge
\* its coverage, measure it again, drop it when value() reverts.
ReplayEntry(acc, e) ==
    LET x == Exec(Genesis, e.calls)
        v == Measure(x.world)
    IN  [covered |-> acc.covered \cup Points(x.results),
         corpus |->
            IF v = NoValue THEN acc.corpus
            ELSE Added(acc.corpus,
                       [calls |-> e.calls, value |-> v, activity |-> 0, chain |-> x.world,
                        new_edges |-> Cardinality(Points(x.results) \ acc.covered)])]

Replayed(loaded) ==
    LET after[n \in 0 .. Len(loaded)] ==
            IF n = 0 THEN [covered |-> {}, corpus |-> <<>>]
            ELSE ReplayEntry(after[n - 1], loaded[n])
    IN  after[Len(loaded)]
=============================================================================
