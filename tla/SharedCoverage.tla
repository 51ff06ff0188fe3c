--------------------------- MODULE SharedCoverage ---------------------------
(***************************************************************************)
(* The coverage map the fuzzing threads share (src/evm/coverage/shared.rs, *)
(* exec.rs).  A thread merges the local map of one execution, contract by  *)
(* contract, each hit with one atomic read-modify-write; nothing is        *)
(* locked.  An execution is kept as corpus entry exactly when its merge    *)
(* saw a bit that was not set before, so a bit must look new to exactly    *)
(* one merge.  Meanwhile the progress logger sums the map bit by bit.      *)
(*                                                                         *)
(* A word of the map is named by what it counts: <<"edge", c, pc>>,        *)
(* <<"depth", c, pc>>, <<"revert", c, word>>, <<"jump", c, marker>>; its   *)
(* value is the set of its bits that are set.                              *)
(***************************************************************************)
EXTENDS Naturals, Sequences, FiniteSets, Functions

CONSTANTS
    Workers,
    Runtime, Initcode,   \* contracts by their coverage id
    Runs,        \* executions: sequences of hits, see Hits
    MaxHits,     \* u8::MAX, where a local hit count saturates
    WordSize,    \* reverts per word, 64
    DepthTracked \* DEPTH_TRACKED_PCS

Covered == Runtime \union Initcode

\* What the inspector records: an instruction, a jump, a revert.
Hits ==
    [op : {"step"}, c : Covered, pc : Nat, depth : Nat]
    \union [op : {"jump"}, c : Covered, marker : Nat]
    \union [op : {"revert"}, c : Covered, pc : Nat]

ASSUME CoverageAssumption ==
    /\ Runtime \cap Initcode = {}
    /\ {MaxHits, WordSize} \subseteq Nat \ {0} /\ DepthTracked \in Nat
    /\ IsFiniteSet(Workers) /\ IsFiniteSet(Runs)
    /\ \A run \in Runs : run \in Seq(Hits)

VARIABLES
    map,      \* words of the shared map that exist: word -> bits
    raw,      \* raw_edges: <<c, pc>> -> Nat
    codes,    \* bytecodes: the contracts whose code is stored
    local,    \* the execution each worker merges: [words, hits]
    todo,     \* what the worker has still to merge
    found,    \* the bits that were new to the worker's merge
    reader    \* the logger's count in progress

mergeVars == <<map, raw, codes, local, todo, found, reader>>
-----------------------------------------------------------------------------
(* The local map, as the inspector fills it.                               *)

EmptyLocal == [words |-> <<>>, hits |-> <<>>]

\* f with bit b added to word w
WithBit(f, w, b) ==
    [x \in DOMAIN f \union {w} |-> IF x = w THEN (IF w \in DOMAIN f THEN f[w] ELSE {}) \union {b}
                                   ELSE f[x]]

Bumped(f, x) ==
    [y \in DOMAIN f \union {x} |->
        IF y # x THEN f[y] ELSE IF x \notin DOMAIN f THEN 1
        ELSE IF f[x] < MaxHits THEN f[x] + 1 ELSE MaxHits]

Hit(l, h) ==
    CASE h.op = "step" ->
           LET edged == WithBit(l.words, <<"edge", h.c, h.pc>>, 0)
           IN  [words |-> IF h.pc < DepthTracked
                          THEN WithBit(edged, <<"depth", h.c, h.pc>>,
                                       IF h.depth > 63 THEN 63 ELSE h.depth)
                          ELSE edged,
                hits |-> Bumped(l.hits, <<h.c, h.pc>>)]
      [] h.op = "jump" ->
           [l EXCEPT !.words = WithBit(l.words, <<"jump", h.c, h.marker>>, 0)]
      [] h.op = "revert" ->
           [l EXCEPT !.words = WithBit(l.words, <<"revert", h.c, h.pc \div WordSize>>,
                                       h.pc % WordSize)]

LocalOf(run) ==
    LET after[n \in 0 .. Len(run)] ==
            IF n = 0 THEN EmptyLocal ELSE Hit(after[n - 1], run[n])
    IN  after[Len(run)]
-----------------------------------------------------------------------------
(* merge: the steps of one contract, in order.                             *)

Rank(i) == CASE i.op = "insert" -> 0 [] i.op = "code" -> 1 [] i.op = "edge" -> 2
             [] i.op = "raw" -> 2 [] i.op = "depth" -> 3 [] i.op = "revert" -> 4
             [] i.op = "jump" -> 5

Item(op, c, w) == [op |-> op, c |-> c, word |-> w]

Items(l) ==
    LET cs == { w[2] : w \in DOMAIN l.words }
    IN  { Item("insert", c, <<>>) : c \in cs } \union { Item("code", c, <<>>) : c \in cs }
        \union { Item(w[1], w[2], w) : w \in DOMAIN l.words }

\* The contract a worker is in the middle of, if any.
Current(w) ==
    { c \in Covered : /\ \E i \in todo[w] : i.c = c
                        /\ Item("insert", c, <<>>) \notin todo[w] }

Ready(w) ==
    { i \in todo[w] : /\ \A c \in Current(w) : i.c = c
                      /\ \A j \in todo[w] : j.c = i.c => Rank(i) <= Rank(j) }

\* One value of `get_or_insert_with`: a word that exists keeps its bits.
GetOrInsert(f, ws) == [x \in DOMAIN f \union ws |-> IF x \in DOMAIN f THEN f[x] ELSE {}]

\* Mutant of NewBits: the bits of the merge, whether set before or not.
NewBits_All(word, bits) == bits
\* bits & !prev
NewBits(word, bits) == bits \ (IF word \in DOMAIN map THEN map[word] ELSE {})

\* Mutant of AddRaw: the count of the last execution.
AddRaw_Store(f, x, n) == [y \in DOMAIN f \union {x} |-> IF y = x THEN n ELSE f[y]]
\* raw_edges[pc].fetch_add
AddRaw(f, x, n) ==
    [y \in DOMAIN f \union {x} |->
        IF y # x THEN f[y] ELSE n + (IF x \in DOMAIN f THEN f[x] ELSE 0)]

MergeInit ==
    /\ map = <<>> /\ raw = <<>> /\ codes = {}
    /\ local = [w \in Workers |-> EmptyLocal]
    /\ todo = [w \in Workers |-> {}]
    /\ found = [w \in Workers |-> {}]
    /\ reader = [left |-> {}, sum |-> 0, low |-> 0]

\* A worker has executed a run and calls merge.
Merge(w, run) ==
    /\ local[w] = EmptyLocal
    /\ local' = [local EXCEPT ![w] = LocalOf(run)]
    /\ todo' = [todo EXCEPT ![w] = Items(LocalOf(run))]
    /\ UNCHANGED <<map, raw, codes, found, reader>>

\* The contract's words: a new contract has them all, at zero.
WordsOf(c) == { x \in UNION { DOMAIN LocalOf(r).words : r \in Runs } :
                  x[2] = c /\ x[1] # "jump" }

InsertContract(w, i) ==
    /\ i.op = "insert"
    /\ map' = GetOrInsert(map, WordsOf(i.c))
    /\ todo' = [todo EXCEPT ![w] = @ \ {i}]
    /\ UNCHANGED <<raw, codes, local, found, reader>>

StoreCode(w, i) ==
    /\ i.op = "code"
    /\ codes' = codes \union {i.c}
    /\ todo' = [todo EXCEPT ![w] = @ \ {i}]
    /\ UNCHANGED <<map, raw, local, found, reader>>

\* fetch_max, fetch_or: the bits, and which of them are counted as new.
MergeWord(w, i) ==
    LET bits == local[w].words[i.word]
        new  == IF i.c \in Initcode THEN {} ELSE NewBits(i.word, bits)
    IN  /\ i.op \in {"edge", "depth", "revert", "jump"}
        /\ i.op = "jump" => i.word \in DOMAIN map
        /\ map' = [map EXCEPT ![i.word] = @ \union bits]
        /\ found' = [found EXCEPT ![w] = @ \union { <<i.word, b>> : b \in new }]
        /\ todo' = [todo EXCEPT ![w] =
               (@ \ {i}) \union (IF i.op = "edge" THEN {Item("raw", i.c, i.word)} ELSE {})]
        /\ UNCHANGED <<raw, codes, local, reader>>

\* A jump edge's word is inserted before its fetch_max.
InsertJump(w, i) ==
    /\ i.op = "jump" /\ i.word \notin DOMAIN map
    /\ map' = GetOrInsert(map, {i.word})
    /\ UNCHANGED <<raw, codes, local, todo, found, reader>>

MergeRaw(w, i) ==
    /\ i.op = "raw"
    /\ raw' = AddRaw(raw, <<i.c, i.word[3]>>, local[w].hits[<<i.c, i.word[3]>>])
    /\ todo' = [todo EXCEPT ![w] = @ \ {i}]
    /\ UNCHANGED <<map, codes, local, found, reader>>

MergeStep(w) ==
    \E i \in Ready(w) :
        InsertContract(w, i) \/ StoreCode(w, i) \/ MergeWord(w, i) \/ InsertJump(w, i) \/ MergeRaw(w, i)
-----------------------------------------------------------------------------
(* The counters the logger and the statistics read.                        *)

\* The bits a counter of that kind counts: edge_count, depth_count,
\* revert_count count bits, jump_count counts the words.
CountedBits(word) ==
    IF word[1] = "jump" THEN 1 ELSE Cardinality(map[word])

Counted(word) == word[2] \in Runtime /\ word[1] \in {"edge", "jump"}

\* hit_count, as it is when read at one instant
CountedWords == { x \in DOMAIN map : Counted(x) }
HitCount == SumFunction([x \in CountedWords |-> CountedBits(x)])

StartCount ==
    /\ reader.left = {}
    /\ reader' = [left |-> CountedWords, sum |-> 0, low |-> HitCount]
    /\ UNCHANGED <<map, raw, codes, local, todo, found>>

\* One relaxed load.
CountWord ==
    \E x \in reader.left :
        /\ reader' = [reader EXCEPT !.left = @ \ {x}, !.sum = @ + CountedBits(x)]
        /\ UNCHANGED <<map, raw, codes, local, todo, found>>

MergeNext ==
    \/ \E w \in Workers, run \in Runs : Merge(w, run)
    \/ \E w \in Workers : MergeStep(w)
    \/ StartCount \/ CountWord

MergeSpec == MergeInit /\ [][MergeNext]_mergeVars
-----------------------------------------------------------------------------
Merged == UNION { {<<x, b>> : b \in map[x]} : x \in { y \in DOMAIN map : y[2] \in Runtime } }

\* Every bit of runtime coverage that is set was new to exactly one merge, so
\* whoever reached it first keeps its sequence and nobody else does
\* (merge's fetch_max and fetch_or against is_interesting).
ClaimedOnce ==
    /\ UNION { found[w] : w \in Workers } = Merged
    /\ \A v, w \in Workers : v # w => found[v] \cap found[w] = {}

Idle(w) == todo[w] = {}

\* Once the merges are through, the map holds every bit of every execution,
\* the code of its contracts and the sum of its hit counts.
NothingLost ==
    (\A w \in Workers : Idle(w)) =>
        /\ \A w \in Workers : \A x \in DOMAIN local[w].words :
              x \in DOMAIN map /\ local[w].words[x] \subseteq map[x] /\ x[2] \in codes
        /\ \A x \in DOMAIN raw :
              raw[x] = SumFunction(
                  [w \in Workers |-> IF x \in DOMAIN local[w].hits THEN local[w].hits[x] ELSE 0])

\* A count taken while merges run lies between the map's count when it was
\* started and the count when it is done: it never shows coverage lost.
CountBetween ==
    reader.left = {} => reader.low <= reader.sum /\ reader.sum <= HitCount

\* The shared map counts what the workers did: no merge is lost, and no
\* concurrent reading shows less than was there.
CoverageKept == NothingLost /\ CountBetween
=============================================================================
