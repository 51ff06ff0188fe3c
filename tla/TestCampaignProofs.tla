------------------------- MODULE TestCampaignProofs -------------------------
(***************************************************************************)
(* What a test campaign guarantees for any number of workers, any harness, *)
(* any budget and any limits.                                              *)
(***************************************************************************)
EXTENDS TestCampaign, FiniteSetTheorems, ProofBasics, TLAPS

-----------------------------------------------------------------------------
(* Executions, call by call.                                               *)

ExecStart(world) == [world |-> world, cheats |-> Cheats, results |-> <<>>]

\* The state of an execution after each of its calls.
ExecAfter(world, cs) ==
    CHOOSE after : after = [n \in 0 .. Len(cs) |->
                               IF n = 0 THEN ExecStart(world) ELSE ExecFold(after[n - 1], cs[n])]

\* The world of a fuzzed sequence after each of its calls.
WorldAfter(cs) ==
    CHOOSE after : after = [n \in 0 .. Len(cs) |->
                               IF n = 0 THEN Genesis ELSE CommitCall(after[n - 1], cs[n])]

\* An execution goes from call to call.
LEMMA ExecSteps ==
    ASSUME NEW world, NEW cs, Len(cs) \in Nat
    PROVE  /\ ExecAfter(world, cs)[0] = ExecStart(world)
           /\ \A n \in 1 .. Len(cs) :
                 ExecAfter(world, cs)[n] = ExecFold(ExecAfter(world, cs)[n - 1], cs[n])
           /\ Exec(world, cs) = ExecAfter(world, cs)[Len(cs)]
<1> DEFINE L == Len(cs)
           Runs(s, m) == s = [n \in 0 .. m |->
                                 IF n = 0 THEN ExecStart(world) ELSE ExecFold(s[n - 1], cs[n])]
           S == {m \in 0 .. L : \E s : Runs(s, m)}
<1>1. 0 \in S
    <2>1. Runs([k \in 0 .. 0 |-> ExecStart(world)], 0)
        OBVIOUS
    <2> HIDE DEF Runs
    <2> QED
        BY <2>1
<1>2. ASSUME NEW m \in 1 .. L, m - 1 \in S
      PROVE  m \in S
    <2>1. PICK s : Runs(s, m - 1)
        BY <1>2
    <2> DEFINE t == [k \in 0 .. m |-> IF k < m THEN s[k] ELSE ExecFold(s[m - 1], cs[m])]
    <2>2. \A k \in 0 .. m : t[k] = IF k = 0 THEN ExecStart(world) ELSE ExecFold(t[k - 1], cs[k])
        <3> TAKE k \in 0 .. m
        <3>1. k # 0 => t[k - 1] = s[k - 1]
            OBVIOUS
        <3>2. k < m => s[k] = IF k = 0 THEN ExecStart(world) ELSE ExecFold(s[k - 1], cs[k])
            BY <2>1
        <3> QED
            BY <3>1, <3>2
    <2>3. Runs(t, m)
        BY <2>2
    <2>4. m \in 0 .. L
        OBVIOUS
    <2> HIDE DEF t, Runs
    <2> QED
        BY <2>3, <2>4
<1> HIDE DEF S
<1>3. \A m \in 0 .. L : m \in S
    BY <1>1, <1>2, InductionUpTo
<1>4. \E s : Runs(s, L)
    BY <1>3 DEF S
<1>5. Runs(ExecAfter(world, cs), L)
    BY <1>4, Zenon DEF ExecAfter
<1>6. Exec(world, cs) = ExecAfter(world, cs)[Len(cs)]
    BY DEF Exec, ExecAfter, ExecStart
<1> QED
    BY <1>5, <1>6

\* So does a fuzzed sequence.
LEMMA WorldSteps ==
    ASSUME NEW cs, Len(cs) \in Nat
    PROVE  /\ WorldAfter(cs)[0] = Genesis
           /\ \A n \in 1 .. Len(cs) : WorldAfter(cs)[n] = CommitCall(WorldAfter(cs)[n - 1], cs[n])
           /\ FuzzedWorld(cs) = WorldAfter(cs)[Len(cs)]
<1> DEFINE L == Len(cs)
           Runs(s, m) == s = [n \in 0 .. m |-> IF n = 0 THEN Genesis ELSE CommitCall(s[n - 1], cs[n])]
           S == {m \in 0 .. L : \E s : Runs(s, m)}
<1>1. 0 \in S
    <2>1. Runs([k \in 0 .. 0 |-> Genesis], 0)
        OBVIOUS
    <2> HIDE DEF Runs
    <2> QED
        BY <2>1
<1>2. ASSUME NEW m \in 1 .. L, m - 1 \in S
      PROVE  m \in S
    <2>1. PICK s : Runs(s, m - 1)
        BY <1>2
    <2> DEFINE t == [k \in 0 .. m |-> IF k < m THEN s[k] ELSE CommitCall(s[m - 1], cs[m])]
    <2>2. \A k \in 0 .. m : t[k] = IF k = 0 THEN Genesis ELSE CommitCall(t[k - 1], cs[k])
        <3> TAKE k \in 0 .. m
        <3>1. k # 0 => t[k - 1] = s[k - 1]
            OBVIOUS
        <3>2. k < m => s[k] = IF k = 0 THEN Genesis ELSE CommitCall(s[k - 1], cs[k])
            BY <2>1
        <3> QED
            BY <3>1, <3>2
    <2>3. Runs(t, m)
        BY <2>2
    <2>4. m \in 0 .. L
        OBVIOUS
    <2> HIDE DEF t, Runs
    <2> QED
        BY <2>3, <2>4
<1> HIDE DEF S
<1>3. \A m \in 0 .. L : m \in S
    BY <1>1, <1>2, InductionUpTo
<1>4. \E s : Runs(s, L)
    BY <1>3 DEF S
<1>5. Runs(WorldAfter(cs), L)
    BY <1>4, Zenon DEF WorldAfter
<1>6. FuzzedWorld(cs) = WorldAfter(cs)[Len(cs)]
    BY DEF FuzzedWorld, WorldAfter
<1> QED
    BY <1>5, <1>6

\* Sequences that agree lead to the same world.
LEMMA WorldOfPrefix ==
    ASSUME NEW cs, Len(cs) \in Nat, NEW ds, Len(ds) \in Nat,
           NEW k \in Nat, k <= Len(cs), k <= Len(ds),
           \A i \in 1 .. k : cs[i] = ds[i]
    PROVE  WorldAfter(cs)[k] = WorldAfter(ds)[k]
<1> DEFINE S == {n \in 0 .. k : WorldAfter(cs)[n] = WorldAfter(ds)[n]}
<1>1. 0 \in S
    BY WorldSteps
<1>2. ASSUME NEW n \in 1 .. k, n - 1 \in S PROVE n \in S
    <2>1. /\ WorldAfter(cs)[n] = CommitCall(WorldAfter(cs)[n - 1], cs[n])
          /\ WorldAfter(ds)[n] = CommitCall(WorldAfter(ds)[n - 1], ds[n])
        BY WorldSteps
    <2> QED
        BY <1>2, <2>1
<1> HIDE DEF S
<1>3. \A n \in 0 .. k : n \in S
    BY <1>1, <1>2, InductionUpTo
<1> QED
    BY <1>3 DEF S

\* One result per call: what the transaction did on the world and with the
\* cheatcode state the calls before it left.
LEMMA ExecResults ==
    ASSUME NEW world, NEW cs, Len(cs) \in Nat, NEW n \in 0 .. Len(cs)
    PROVE  LET after == ExecAfter(world, cs) IN
           /\ \E T : after[n].results \in Seq(T)
           /\ Len(after[n].results) = n
           /\ \A i \in 1 .. n : after[n].results[i] = Tx(cs[i], after[i - 1].world, after[i - 1].cheats)
<1> DEFINE after == ExecAfter(world, cs)
           Good(m) == /\ \E T : after[m].results \in Seq(T)
                      /\ Len(after[m].results) = m
                      /\ \A i \in 1 .. m : after[m].results[i] = Tx(cs[i], after[i - 1].world, after[i - 1].cheats)
           S == {m \in 0 .. Len(cs) : Good(m)}
<1>1. 0 \in S
    <2>1. after[0].results = <<>>
        <3>1. after[0] = ExecStart(world)
            BY ExecSteps
        <3> QED
            BY <3>1 DEF ExecStart
    <2>2. Good(0)
        <3>1. <<>> \in Seq({})
            OBVIOUS
        <3> HIDE DEF after
        <3> QED
            BY <2>1, <3>1
    <2> QED
        BY <2>2
<1>2. ASSUME NEW m \in 1 .. Len(cs), m - 1 \in S PROVE m \in S
    <2> DEFINE r == Tx(cs[m], after[m - 1].world, after[m - 1].cheats)
    <2>1. after[m].results = Append(after[m - 1].results, r)
        <3>1. after[m] = ExecFold(after[m - 1], cs[m])
            BY ExecSteps
        <3> HIDE DEF after
        <3> QED
            BY <3>1 DEF ExecFold
    <2>2. PICK T : after[m - 1].results \in Seq(T)
        BY <1>2
    <2>3. Len(after[m - 1].results) = m - 1
          /\ \A i \in 1 .. m - 1 : after[m - 1].results[i] = Tx(cs[i], after[i - 1].world, after[i - 1].cheats)
        BY <1>2
    <2>4. r \in T \cup {r} /\ after[m - 1].results \in Seq(T \cup {r})
        <3> HIDE DEF after, r
        <3> QED
            BY <2>2
    <2> DEFINE U == T \cup {r}
    <2> HIDE DEF after, r, U
    <2>5. after[m - 1].results \in Seq(U) /\ r \in U
        BY <2>4 DEF U
    <2>6. /\ after[m].results \in Seq(U) /\ Len(after[m].results) = m
          /\ after[m].results[m] = r
          /\ \A i \in 1 .. m - 1 : after[m].results[i] = after[m - 1].results[i]
        BY <2>1, <2>3, <2>5
    <2>7. \A i \in 1 .. m : after[m].results[i] = Tx(cs[i], after[i - 1].world, after[i - 1].cheats)
        BY <2>3, <2>6 DEF r
    <2> QED
        BY <2>6, <2>7
<1> HIDE DEF S
<1>3. \A m \in 0 .. Len(cs) : m \in S
    BY <1>1, <1>2, InductionUpTo
<1>4. Good(n)
    BY <1>3 DEF S
<1> QED
    BY <1>4

-----------------------------------------------------------------------------
(* Harnesses.                                                              *)

HarnessCalls == Handlers \cup Range(Invariants)

\* The result of a transaction: six fields, and finitely many points passed.
IsResult(r) ==
    /\ r = [world |-> r.world, cheats |-> r.cheats, report |-> r.report,
            revert |-> r.revert, panic |-> r.panic, points |-> r.points]
    /\ IsFiniteSet(r.points)

\* All that the theorems assume of a harness contract, unless they say more.
Harness == \A world, cheats : \A c \in HarnessCalls : IsResult(Tx(c, world, cheats))

\* An execution has one result per call, and passes finitely many points.
LEMMA ExecIsList ==
    ASSUME Harness, NEW world, NEW cs, Len(cs) \in Nat, \A i \in 1 .. Len(cs) : cs[i] \in HarnessCalls
    PROVE  LET rs == Exec(world, cs).results
               after == ExecAfter(world, cs)
           IN  /\ IsList(rs)
               /\ Len(rs) = Len(cs)
               /\ \A i \in 1 .. Len(cs) : rs[i] = Tx(cs[i], after[i - 1].world, after[i - 1].cheats)
               /\ IsFiniteSet(Points(rs))
<1> DEFINE rs == Exec(world, cs).results
           after == ExecAfter(world, cs)
<1>1. rs = after[Len(cs)].results
    BY ExecSteps
<1>2. /\ \E T : after[Len(cs)].results \in Seq(T)
      /\ Len(after[Len(cs)].results) = Len(cs)
      /\ \A i \in 1 .. Len(cs) :
            after[Len(cs)].results[i] = Tx(cs[i], after[i - 1].world, after[i - 1].cheats)
    BY ExecResults
<1> HIDE DEF rs, after
<1>3. IsList(rs) /\ Len(rs) = Len(cs)
      /\ \A i \in 1 .. Len(cs) : rs[i] = Tx(cs[i], after[i - 1].world, after[i - 1].cheats)
    BY <1>1, <1>2 DEF IsList
<1>4. IsFiniteSet(Points(rs))
    <2> DEFINE F == [i \in 1 .. Len(cs) |-> rs[i].points]
               P == {F[i] : i \in 1 .. Len(cs)}
    <2>1. IsFiniteSet(1 .. Len(cs))
        BY FS_Interval
    <2>2. IsFiniteSet(P)
        <3>1. F \in Surjection(1 .. Len(cs), P)
            BY DEF Surjection
        <3> HIDE DEF F, P
        <3> QED
            BY <2>1, <3>1, FS_Surjection
    <2>3. \A T \in P : IsFiniteSet(T)
        BY <1>3 DEF Harness, IsResult
    <2>4. Points(rs) = UNION P
        BY <1>3, ListLength DEF Points
    <2> HIDE DEF P
    <2> QED
        BY <2>2, <2>3, <2>4, FS_UNION
<1> QED
    BY <1>3, <1>4 DEF rs, after

\* A handler call: one result, the world it committed.
LEMMA ExecOne ==
    ASSUME NEW world, NEW c
    PROVE  /\ ExecAfter(world, <<c>>)[0] = ExecStart(world)
           /\ Exec(world, <<c>>).world = Tx(c, world, Cheats).world
           /\ CommitCall(world, c) = Tx(c, world, Cheats).world
<1> DEFINE cs == <<c>>
<1>1. Len(cs) = 1 /\ cs[1] = c
    OBVIOUS
<1> HIDE DEF cs
<1>2. /\ ExecAfter(world, cs)[0] = ExecStart(world)
      /\ ExecAfter(world, cs)[1] = ExecFold(ExecAfter(world, cs)[0], c)
      /\ Exec(world, cs) = ExecAfter(world, cs)[1]
    BY <1>1, ExecSteps
<1>3. Exec(world, cs) = ExecFold(ExecStart(world), c)
    BY <1>2
<1>4. Exec(world, cs).world = Tx(c, world, Cheats).world
    BY <1>3 DEF ExecFold, ExecStart
<1> QED
    BY <1>2, <1>4 DEF cs, CommitCall

-----------------------------------------------------------------------------
(* The collection and the corpus.                                          *)

FindingsTyped(fs) == IsList(fs) /\ \A i \in DOMAIN fs : IsList(fs[i].calls) /\ fs[i].calls # <<>>

\* What try_add does to the collection: it grows or stays, every finding stays
\* or gets a shorter sequence, and the id is known unless there is no room.
LEMMA TryAddResult ==
    ASSUME IsList(findings), NEW f, TryAdd(f)
    PROVE  /\ IsList(findings')
           /\ Len(findings') >= Len(findings)
           /\ \A i \in DOMAIN findings' : findings'[i] = f \/ (i \in DOMAIN findings /\ findings'[i] = findings[i])
           /\ \A i \in DOMAIN findings :
                 /\ i \in DOMAIN findings'
                 /\ findings'[i].id = findings[i].id
                 /\ findings'[i] = findings[i] \/ Len(findings'[i].calls) < Len(findings[i].calls)
           /\ IsFull' \/ \E i \in DOMAIN findings' : findings'[i].id = f.id
           /\ \/ Len(findings') = Len(findings)
              \/ /\ KnownAt(f.id) = {} /\ ~IsFull
                 /\ Len(findings') = Len(findings) + 1
                 /\ findings'[Len(findings) + 1].id = f.id
<1>0. Len(findings) \in Nat /\ DOMAIN findings = 1 .. Len(findings)
    BY ListLength
<1>1. CASE KnownAt(f.id) # {}
    <2> DEFINE t == [i \in DOMAIN findings |->
                        IF i \in KnownAt(f.id) /\ Len(f.calls) < Len(findings[i].calls)
                        THEN f ELSE findings[i]]
    <2>1. findings' = t
        BY <1>1 DEF TryAdd
    <2>2. t = [i \in DOMAIN findings |-> t[i]]
        OBVIOUS
    <2>3. IsList(findings') /\ Len(findings') = Len(findings) /\ DOMAIN findings' = DOMAIN findings
        <3>1. DOMAIN t = DOMAIN findings
            OBVIOUS
        <3> HIDE DEF t
        <3> QED
            BY <2>1, <2>2, <3>1, ListReplace
    <2>4. \A i \in DOMAIN findings :
             \/ findings'[i] = findings[i]
             \/ findings'[i] = f /\ findings[i].id = f.id /\ Len(f.calls) < Len(findings[i].calls)
        BY <2>1 DEF KnownAt
    <2>5. PICK i \in DOMAIN findings : findings[i].id = f.id
        BY <1>1 DEF KnownAt
    <2>6. findings'[i].id = f.id
        BY <2>4, <2>5
    <2> HIDE DEF t
    <2> QED
        BY <1>0, <2>3, <2>4, <2>6
<1>2. CASE KnownAt(f.id) = {} /\ IsFull
    <2>1. findings' = findings
        BY <1>2 DEF TryAdd, IsFull
    <2> QED
        BY <1>0, <1>2, <2>1 DEF IsFull
<1>3. CASE KnownAt(f.id) = {} /\ ~IsFull
    <2>1. findings' = Append(findings, f)
        BY <1>3 DEF TryAdd, IsFull
    <2>2. /\ IsList(findings') /\ Len(findings') = Len(findings) + 1
          /\ \A i \in 1 .. Len(findings) : findings'[i] = findings[i]
          /\ findings'[Len(findings) + 1] = f
        BY <2>1, ListAppend
    <2>3. DOMAIN findings' = 1 .. Len(findings) + 1
        BY <2>2, ListLength
    <2>4. \E i \in DOMAIN findings' : findings'[i].id = f.id
        <3>1. Len(findings) + 1 \in DOMAIN findings' /\ findings'[Len(findings) + 1].id = f.id
            BY <1>0, <2>2, <2>3
        <3> QED
            BY <3>1
    <2>5. \A i \in DOMAIN findings : i \in DOMAIN findings' /\ findings'[i] = findings[i]
        BY <1>0, <2>2, <2>3
    <2>6. \A i \in DOMAIN findings' : findings'[i] = f \/ (i \in DOMAIN findings /\ findings'[i] = findings[i])
        BY <1>0, <2>2, <2>3
    <2>7. Len(findings') >= Len(findings)
        BY <1>0, <2>2
    <2>8. findings'[Len(findings) + 1].id = f.id
        BY <2>2
    <2> QED
        BY <1>3, <2>2, <2>4, <2>5, <2>6, <2>7, <2>8, Zenon
<1> QED
    BY <1>1, <1>2, <1>3

\* Adding a finding leaves a list of findings.
LEMMA TryAddTyped ==
    ASSUME FindingsTyped(findings), NEW f, IsList(f.calls), f.calls # <<>>, TryAdd(f)
    PROVE  FindingsTyped(findings')
BY TryAddResult DEF FindingsTyped

\* An entry of the corpus: its snapshot is where its calls lead.
EntryOK(e) ==
    /\ e.calls \in Seq(Handlers)
    /\ Len(e.calls) <= CallLimit
    /\ e.new_edges \in Nat \ {0}
    /\ e.chain = FuzzedWorld(e.calls)

CorpusOK(c) == IsList(c) /\ \A i \in DOMAIN c : EntryOK(c[i])

\* A corpus that is not empty has a first weakest entry.
LEMMA WeakestExists ==
    ASSUME NEW c, CorpusOK(c), Len(c) > 0
    PROVE  Weakest(c) \in DOMAIN c
<1>0. Len(c) \in Nat /\ DOMAIN c = 1 .. Len(c)
    BY ListLength DEF CorpusOK
<1>1. \A i \in DOMAIN c : c[i].new_edges \in Nat
    BY DEF CorpusOK, EntryOK
<1> DEFINE T == {c[i].new_edges : i \in DOMAIN c}
<1>2. PICK m \in T : \A n \in T : m <= n
    <2>1. T \in SUBSET Nat /\ T # {}
        BY <1>0, <1>1
    <2> HIDE DEF T
    <2> QED
        BY <2>1, LeastNatural
<1> DEFINE I == {i \in DOMAIN c : c[i].new_edges = m}
<1>3. PICK k \in I : \A n \in I : k <= n
    <2>1. I \in SUBSET Nat /\ I # {}
        BY <1>0
    <2> HIDE DEF I
    <2> QED
        BY <2>1, LeastNatural
<1>4. /\ k \in DOMAIN c
      /\ \A j \in DOMAIN c : c[k].new_edges <= c[j].new_edges
      /\ \A j \in 1 .. k - 1 : c[k].new_edges < c[j].new_edges
    <2>1. k \in DOMAIN c /\ \A j \in DOMAIN c : c[k].new_edges <= c[j].new_edges
        BY <1>2
    <2>2. ASSUME NEW j \in 1 .. k - 1 PROVE c[k].new_edges < c[j].new_edges
        <3>1. j \in DOMAIN c /\ j \notin I
            BY <1>0, <1>3, <2>1
        <3> QED
            BY <1>1, <2>1, <3>1
    <2> QED
        BY <2>1, <2>2
<1> HIDE DEF I, T
<1> QED
    BY <1>4, Zenon DEF Weakest

\* Adding an entry leaves a corpus.
LEMMA AddEntryOK ==
    ASSUME CorpusOK(corpus), NEW e, EntryOK(e), AddEntry(e)
    PROVE  CorpusOK(corpus')
<1>0. Len(corpus) \in Nat /\ DOMAIN corpus = 1 .. Len(corpus) /\ IsList(corpus)
    BY ListLength DEF CorpusOK
<1>1. ASSUME NEW c, CorpusOK(c), corpus' = Append(c, e)
      PROVE  CorpusOK(corpus')
    <2>1. Len(c) \in Nat /\ DOMAIN c = 1 .. Len(c) /\ IsList(c)
        BY <1>1, ListLength DEF CorpusOK
    <2>2. /\ IsList(corpus') /\ Len(corpus') = Len(c) + 1
          /\ \A i \in 1 .. Len(c) : corpus'[i] = c[i]
          /\ corpus'[Len(c) + 1] = e
        BY <1>1, <2>1, ListAppend
    <2>3. DOMAIN corpus' = 1 .. Len(c) + 1
        BY <2>2, ListLength
    <2>4. \A i \in DOMAIN corpus' : EntryOK(corpus'[i])
        BY <1>1, <2>1, <2>2, <2>3 DEF CorpusOK
    <2> QED
        BY <2>2, <2>4 DEF CorpusOK
<1>2. CASE Len(corpus) < MaxEntries
    BY <1>1, <1>2 DEF AddEntry
<1>3. CASE ~(Len(corpus) < MaxEntries) /\ e.new_edges >= corpus[Weakest(corpus)].new_edges
    <2>1. Weakest(corpus) \in DOMAIN corpus
        BY <1>0, <1>3, CampaignAssumption, WeakestExists
    <2> DEFINE c == RemoveAt(corpus, Weakest(corpus))
    <2>2. CorpusOK(c)
        BY <1>0, <2>1, ListRemove DEF CorpusOK
    <2>3. corpus' = Append(c, e)
        BY <1>3 DEF AddEntry
    <2> HIDE DEF c
    <2> QED
        BY <1>1, <2>2, <2>3
<1>4. CASE ~(Len(corpus) < MaxEntries) /\ ~(e.new_edges >= corpus[Weakest(corpus)].new_edges)
    BY <1>4 DEF AddEntry
<1> QED
    BY <1>2, <1>3, <1>4

-----------------------------------------------------------------------------
(* The state of a campaign between two steps.                              *)

Labels == {"check", "capacity", "pick", "call", "report", "filter", "invariants", "checked",
           "keep", "full", "done", "failed"}

Typed ==
    /\ runs \in Nat /\ stop \in BOOLEAN /\ timed_out \in BOOLEAN
    /\ pc \in [Workers -> Labels]
    /\ budget \in [Workers -> Nat]
    /\ calls \in [Workers -> Seq(Handlers)]
    /\ index \in [Workers -> Nat]
    /\ chain = [w \in Workers |-> chain[w]]
    /\ new_edges \in [Workers -> Nat]
    /\ results = [w \in Workers |-> results[w]]
    /\ outcome \in {"running", "finished", "failed"}

\* The result of the handler call the worker has just committed.
HandlerResult(cs, ix, rs) ==
    IsList(rs) /\ Len(rs) = 1 /\ rs[1] = Tx(cs[ix], WorldAfter(cs)[ix - 1], Cheats)

\* The results of the invariants on a clone of chain ch; the reports that are
\* recorded are cleared.
InvariantTx(ch, i) ==
    LET before == ExecAfter(ch, Invariants)[i - 1] IN Tx(Invariants[i], before.world, before.cheats)

InvariantResults(ch, rs) ==
    /\ IsList(rs) /\ Len(rs) = Len(Invariants)
    /\ \A i \in 1 .. Len(Invariants) :
          /\ IsResult(rs[i])
          /\ rs[i].revert = InvariantTx(ch, i).revert
          /\ rs[i].panic = InvariantTx(ch, i).panic
          /\ rs[i].report \in {InvariantTx(ch, i).report, NoId}

\* A worker's chain is the world of the calls it has committed, at each place
\* of execute_sequence.
WorkerOK(p, cs, ix, ch, rs) ==
    /\ Len(cs) <= CallLimit
    /\ ix \in 1 .. Len(cs) + 1
    /\ p = "call" => ix <= Len(cs) /\ ch = WorldAfter(cs)[ix - 1]
    /\ p \in {"report", "filter", "invariants", "checked"} => ix <= Len(cs) /\ ch = WorldAfter(cs)[ix]
    /\ p \in {"report", "filter"} => HandlerResult(cs, ix, rs)
    /\ p = "checked" => InvariantResults(ch, rs)
    /\ p \in {"keep", "full"} => ix = Len(cs) + 1 /\ ch = FuzzedWorld(cs)

Inv ==
    /\ Typed
    /\ CorpusOK(corpus)
    /\ FindingsTyped(findings)
    /\ \A w \in Workers : WorkerOK(pc[w], calls[w], index[w], chain[w], results[w])

\* A sequence may have a call.
LEMMA LimitIsPositive == CallLimit \in Nat \ {0} /\ MaxCalls <= CallLimit
BY CampaignAssumption DEF CallLimit

\* The invariants are calls of the harness.
LEMMA InvariantsAreCalls ==
    Len(Invariants) \in Nat /\ \A i \in 1 .. Len(Invariants) : Invariants[i] \in HarnessCalls
<1>1. Invariants \in Seq(Range(Invariants))
    BY CampaignAssumption
<1> DEFINE R == Range(Invariants)
<1> HIDE DEF R
<1>2. Invariants \in Seq(R)
    BY <1>1 DEF R
<1>3. Len(Invariants) \in Nat /\ \A i \in 1 .. Len(Invariants) : Invariants[i] \in R
    BY <1>2
<1> QED
    BY <1>3 DEF R, HarnessCalls

\* A worker's share of the runs is a number.
LEMMA ShareIsNatural == \A w \in Workers : SplitRuns(w) \in Nat
<1> DEFINE n == Cardinality(Workers)
<1>1. n \in Nat \ {0} /\ MaxRuns \in Nat
    BY CampaignAssumption
<1> HIDE DEF n
<1>2. MaxRuns \div n \in Nat
    BY <1>1
<1> QED
    BY <1>2 DEF SplitRuns, n

\* Between sequences a worker has nothing.
LEMMA IdleIsOK ==
    ASSUME NEW p \in {"check", "pick", "done", "failed"}, NEW ch, NEW rs
    PROVE  WorkerOK(p, <<>>, 1, ch, rs)
<1>1. Len(<<>>) = 0
    OBVIOUS
<1> QED
    BY <1>1, LimitIsPositive DEF WorkerOK

\* A campaign starts in a consistent state.
LEMMA InitInv == Init => Inv
<1> SUFFICES ASSUME Init PROVE Inv
    OBVIOUS
<1>1. <<>> \in Seq(Handlers)
    OBVIOUS
<1>2. Typed
    BY <1>1, ShareIsNatural DEF Init, FirstPc, Typed, Labels
<1>3. CorpusOK(corpus) /\ FindingsTyped(findings)
    BY EmptyList DEF Init, CorpusOK, FindingsTyped
<1>4. \A w \in Workers : WorkerOK(pc[w], calls[w], index[w], chain[w], results[w])
    BY IdleIsOK DEF Init, FirstPc
<1> QED
    BY <1>2, <1>3, <1>4 DEF Inv

\* A step of worker w that leaves the other workers alone keeps the invariant
\* if it keeps w's part of it.
LEMMA OneWorkerMoves ==
    ASSUME Inv, Typed', CorpusOK(corpus'), FindingsTyped(findings'),
           NEW w \in Workers,
           \A v \in Workers \ {w} :
              /\ pc'[v] = pc[v] /\ calls'[v] = calls[v] /\ index'[v] = index[v]
              /\ chain'[v] = chain[v] /\ results'[v] = results[v],
           WorkerOK(pc'[w], calls'[w], index'[w], chain'[w], results'[w])
    PROVE  Inv'
<1>1. \A v \in Workers : WorkerOK(pc'[v], calls'[v], index'[v], chain'[v], results'[v])
    <2> TAKE v \in Workers
    <2>1. CASE v = w
        BY <2>1
    <2>2. CASE v # w
        BY <2>2, Zenon DEF Inv
    <2> QED
        BY <2>1, <2>2
<1> QED
    BY <1>1 DEF Inv

\* execute_sequence returns.
LEMMA LeaveInv ==
    ASSUME Inv, NEW w \in Workers, NEW p \in {"check", "failed"}, Leave(w, p),
           runs' \in Nat, stop' \in BOOLEAN, UNCHANGED <<timed_out, corpus, budget, outcome>>,
           FindingsTyped(findings')
    PROVE  Inv'
<1>1. <<>> \in Seq(Handlers)
    OBVIOUS
<1>2. Typed'
    BY <1>1 DEF Inv, Typed, Leave, Goto, Labels
<1>3. WorkerOK(pc'[w], calls'[w], index'[w], chain'[w], results'[w])
    <2>1. pc'[w] = p /\ calls'[w] = <<>> /\ index'[w] = 1
        BY DEF Inv, Typed, Leave, Goto
    <2> QED
        BY <2>1, IdleIsOK
<1>4. \A v \in Workers \ {w} :
         /\ pc'[v] = pc[v] /\ calls'[v] = calls[v] /\ index'[v] = index[v]
         /\ chain'[v] = chain[v] /\ results'[v] = results[v]
    BY DEF Inv, Typed, Leave, Goto
<1>5. CorpusOK(corpus')
    BY DEF Inv
<1> QED
    BY <1>2, <1>3, <1>4, <1>5, OneWorkerMoves

\* On to the next call, or to the end of the sequence.
LEMMA NextCallInv ==
    ASSUME Inv, NEW w \in Workers, pc[w] \in {"filter", "checked"}, NextCall(w),
           UNCHANGED <<runs, timed_out, corpus, budget, outcome>>
    PROVE  Inv'
<1>0. /\ calls[w] \in Seq(Handlers) /\ index[w] \in Nat /\ Len(calls[w]) \in Nat
      /\ WorkerOK(pc[w], calls[w], index[w], chain[w], results[w])
    BY DEF Inv, Typed
<1>1. Typed'
    <2>1. (IF index[w] < Len(calls[w]) THEN "call" ELSE "keep") \in Labels
        BY DEF Labels
    <2>2. pc' \in [Workers -> Labels]
        BY <2>1 DEF Inv, Typed, NextCall, Goto
    <2>3. index' \in [Workers -> Nat] /\ results' = [v \in Workers |-> results'[v]]
        <3>1. /\ index \in [Workers -> Nat] /\ results = [v \in Workers |-> results[v]]
              /\ index' = [index EXCEPT ![w] = index[w] + 1]
              /\ results' = [results EXCEPT ![w] = <<>>]
            BY DEF Inv, Typed, NextCall
        <3>2. index' \in [Workers -> Nat]
            BY <1>0, <3>1
        <3>3. results' = [v \in Workers |-> results'[v]]
            BY <3>1
        <3> QED
            BY <3>2, <3>3
    <2> QED
        BY <2>2, <2>3 DEF Inv, Typed, NextCall
<1>2. index[w] \in 1 .. Len(calls[w]) /\ chain[w] = WorldAfter(calls[w])[index[w]] /\ Len(calls[w]) <= CallLimit
    BY <1>0 DEF WorkerOK
<1>3. /\ pc'[w] = IF index[w] < Len(calls[w]) THEN "call" ELSE "keep"
      /\ calls'[w] = calls[w] /\ index'[w] = index[w] + 1 /\ chain'[w] = chain[w]
    BY DEF Inv, Typed, NextCall, Goto
<1>4. WorkerOK(pc'[w], calls'[w], index'[w], chain'[w], results'[w])
    <2>1. CASE index[w] < Len(calls[w])
        <3>1. index[w] + 1 - 1 = index[w]
            BY <1>0
        <3> QED
            BY <1>0, <1>2, <1>3, <2>1, <3>1 DEF WorkerOK
    <2>2. CASE ~(index[w] < Len(calls[w]))
        <3>1. index[w] = Len(calls[w]) /\ chain[w] = FuzzedWorld(calls[w])
            BY <1>0, <1>2, <2>2, WorldSteps
        <3> QED
            BY <1>0, <1>2, <1>3, <2>2, <3>1 DEF WorkerOK
    <2> QED
        BY <2>1, <2>2
<1>5. \A v \in Workers \ {w} :
         /\ pc'[v] = pc[v] /\ calls'[v] = calls[v] /\ index'[v] = index[v]
         /\ chain'[v] = chain[v] /\ results'[v] = results[v]
    BY DEF Inv, Typed, NextCall, Goto
<1>6. CorpusOK(corpus') /\ FindingsTyped(findings')
    BY DEF Inv, NextCall
<1> QED
    BY <1>1, <1>4, <1>5, <1>6, OneWorkerMoves

\* The calls of a finding: what the worker has executed, with the invariant
\* that reported it, if one did.
LEMMA PrefixIsList ==
    ASSUME Inv, NEW w \in Workers, pc[w] \in {"report", "filter", "checked"}
    PROVE  /\ Prefix(w) \in Seq(Handlers)
           /\ Len(Prefix(w)) = index[w] /\ index[w] \in 1 .. Len(calls[w])
           /\ \A i \in 1 .. index[w] : Prefix(w)[i] = calls[w][i]
           /\ IsList(Prefix(w)) /\ Prefix(w) # <<>>
           /\ \A c : IsList(Append(Prefix(w), c)) /\ Append(Prefix(w), c) # <<>>
<1>1. calls[w] \in Seq(Handlers) /\ index[w] \in 1 .. Len(calls[w]) /\ Len(calls[w]) \in Nat
    BY DEF Inv, Typed, WorkerOK
<1>2. /\ Prefix(w) \in Seq(Handlers) /\ Len(Prefix(w)) = index[w]
      /\ \A i \in 1 .. index[w] : Prefix(w)[i] = calls[w][i]
    BY <1>1 DEF Prefix
<1>3. IsList(Prefix(w))
    BY <1>2 DEF IsList
<1>4. Len(<<>>) = 0
    OBVIOUS
<1>5. Prefix(w) # <<>>
    BY <1>1, <1>2, <1>4
<1>6. ASSUME NEW c PROVE IsList(Append(Prefix(w), c)) /\ Append(Prefix(w), c) # <<>>
    <2>1. IsList(Append(Prefix(w), c)) /\ Len(Append(Prefix(w), c)) = index[w] + 1
        BY <1>2, <1>3, ListAppend
    <2>2. index[w] + 1 # 0
        BY <1>1
    <2> QED
        BY <1>4, <2>1, <2>2
<1> QED
    BY <1>1, <1>2, <1>3, <1>5, <1>6

-----------------------------------------------------------------------------
(* Each step keeps the invariant.                                          *)

\* Check keeps the invariant.
LEMMA CheckInv == ASSUME Inv, NEW w \in Workers, Check(w) PROVE Inv'
<1>1. /\ pc' \in [Workers -> Labels] /\ pc'[w] \in {"done", "capacity"}
      /\ \A v \in Workers \ {w} : pc'[v] = pc[v]
    BY DEF Inv, Typed, Check, Goto, Labels
<1>2. UNCHANGED <<runs, stop, timed_out, findings, corpus, budget, calls, index, chain, new_edges,
                  results, outcome>>
    BY DEF Check, shared
<1>3. Typed'
    BY <1>1, <1>2 DEF Inv, Typed
<1>4. WorkerOK(pc'[w], calls'[w], index'[w], chain'[w], results'[w])
    <2>1. WorkerOK(pc[w], calls[w], index[w], chain[w], results[w])
        BY DEF Inv
    <2> QED
        BY <1>1, <1>2, <2>1 DEF WorkerOK
<1>5. CorpusOK(corpus') /\ FindingsTyped(findings')
    BY <1>2 DEF Inv
<1> QED
    BY <1>1, <1>2, <1>3, <1>4, <1>5, OneWorkerMoves

\* Capacity keeps the invariant.
LEMMA CapacityInv == ASSUME Inv, NEW w \in Workers, Capacity(w) PROVE Inv'
<1>1. /\ pc' \in [Workers -> Labels] /\ pc'[w] \in {"done", "pick"}
      /\ \A v \in Workers \ {w} : pc'[v] = pc[v]
    BY DEF Inv, Typed, Capacity, Goto, Labels
<1>2. budget' \in [Workers -> Nat] /\ runs' \in Nat /\ stop' \in BOOLEAN
    <2>1. budget \in [Workers -> Nat] /\ runs \in Nat /\ stop \in BOOLEAN
        BY DEF Inv, Typed
    <2>2. stop' \in {stop, TRUE}
        BY DEF Capacity
    <2>3. \/ UNCHANGED <<runs, budget>>
          \/ runs' = runs + 1 /\ budget[w] > 0 /\ budget' = [budget EXCEPT ![w] = @ - 1]
        BY DEF Capacity
    <2>4. budget' \in [Workers -> Nat] /\ runs' \in Nat
        BY <2>1, <2>3
    <2> QED
        BY <2>1, <2>2, <2>4
<1>3. Typed'
    BY <1>1, <1>2 DEF Inv, Typed, Capacity
<1>4. WorkerOK(pc'[w], calls'[w], index'[w], chain'[w], results'[w])
    <2>1. WorkerOK(pc[w], calls[w], index[w], chain[w], results[w])
        BY DEF Inv
    <2> QED
        BY <1>1, <2>1 DEF WorkerOK, Capacity
<1>5. CorpusOK(corpus') /\ FindingsTyped(findings')
    BY DEF Inv, Capacity
<1>6. \A v \in Workers \ {w} :
         /\ pc'[v] = pc[v] /\ calls'[v] = calls[v] /\ index'[v] = index[v]
         /\ chain'[v] = chain[v] /\ results'[v] = results[v]
    BY <1>1 DEF Capacity
<1> QED
    BY <1>3, <1>4, <1>5, <1>6, OneWorkerMoves

\* A sequence whose executed calls lead to the chain may be run.
LEMMA StartInv ==
    ASSUME Inv, NEW w \in Workers, Goto(w, "call"),
           UNCHANGED <<shared, budget, results, outcome>>,
           NEW cs \in Seq(Handlers), Len(cs) <= CallLimit,
           NEW from \in 1 .. Len(cs), NEW world, world = WorldAfter(cs)[from - 1],
           Start(w, cs, from, world)
    PROVE  Inv'
<1>0. Len(cs) \in Nat /\ from \in Nat
    OBVIOUS
<1>1. /\ pc' \in [Workers -> Labels] /\ pc'[w] = "call"
      /\ \A v \in Workers \ {w} : pc'[v] = pc[v]
    BY DEF Inv, Typed, Goto, Labels
<1>2. /\ calls' \in [Workers -> Seq(Handlers)] /\ index' \in [Workers -> Nat]
      /\ new_edges' \in [Workers -> Nat] /\ chain' = [v \in Workers |-> chain'[v]]
    BY <1>0 DEF Inv, Typed, Start
<1>3. Typed'
    BY <1>1, <1>2 DEF Inv, Typed, shared
<1>4. calls'[w] = cs /\ index'[w] = from /\ chain'[w] = world
    BY DEF Inv, Typed, Start
<1>5. WorkerOK(pc'[w], calls'[w], index'[w], chain'[w], results'[w])
    BY <1>0, <1>1, <1>4 DEF WorkerOK
<1>6. CorpusOK(corpus') /\ FindingsTyped(findings')
    BY DEF Inv, shared
<1>7. \A v \in Workers \ {w} :
         /\ pc'[v] = pc[v] /\ calls'[v] = calls[v] /\ index'[v] = index[v]
         /\ chain'[v] = chain[v] /\ results'[v] = results[v]
    BY <1>1 DEF Inv, Typed, Start
<1> QED
    BY <1>3, <1>5, <1>6, <1>7, OneWorkerMoves

\* Pick keeps the invariant.
LEMMA PickInv == ASSUME Inv, NEW w \in Workers, Pick(w) PROVE Inv'
<1>0. Goto(w, "call") /\ UNCHANGED <<shared, budget, results, outcome>>
    BY DEF Pick
<1>1. ASSUME NEW cs \in RandomSequences, Start(w, cs, 1, Genesis)
      PROVE  Inv'
    <2>1. PICK n \in 1 .. CallLimit : cs \in [1 .. n -> Handlers]
        BY DEF RandomSequences
    <2>2. n \in Nat /\ cs \in Seq(Handlers) /\ Len(cs) = n
        BY <2>1, LimitIsPositive
    <2>3. 1 \in 1 .. Len(cs) /\ Len(cs) <= CallLimit /\ Len(cs) \in Nat
        BY <2>1, <2>2, LimitIsPositive
    <2>4. Genesis = WorldAfter(cs)[1 - 1]
        BY <2>3, WorldSteps
    <2> QED
        BY <1>0, <1>1, <2>2, <2>3, <2>4, StartInv
<1>2. ASSUME NEW i \in DOMAIN corpus, NEW c \in Handlers
      PROVE  /\ Extend(w, corpus[i], c) => Inv'
             /\ \A pos \in DOMAIN corpus[i].calls : Mutate(w, corpus[i], c, pos) => Inv'
    <2> DEFINE e == corpus[i]
               es == e.calls
    <2>1. /\ es \in Seq(Handlers) /\ Len(es) \in Nat /\ Len(es) <= CallLimit
          /\ e.chain = FuzzedWorld(es)
        BY DEF Inv, CorpusOK, EntryOK
    <2>2. ASSUME Extend(w, e, c) PROVE Inv'
        <3> DEFINE cs == Append(es, c)
                   from == Len(es) + 1
        <3>1. /\ cs \in Seq(Handlers) /\ Len(cs) = Len(es) + 1
              /\ \A k \in 1 .. Len(es) : cs[k] = es[k]
            BY <2>1
        <3>2. Len(es) < MaxCalls /\ Start(w, cs, from, e.chain)
            BY <2>2 DEF Extend
        <3>3. e.chain = WorldAfter(es)[Len(es)]
            BY <2>1, WorldSteps
        <3> HIDE DEF es, e, cs
        <3>4. Len(cs) <= CallLimit /\ Len(cs) \in Nat /\ from \in 1 .. Len(cs)
            BY <2>1, <3>1, <3>2, LimitIsPositive, CampaignAssumption
        <3>5. WorldAfter(es)[Len(es)] = WorldAfter(cs)[Len(es)]
            <4>1. \A k \in 1 .. Len(es) : es[k] = cs[k]
                BY <3>1
            <4>2. Len(es) <= Len(es) /\ Len(es) <= Len(cs)
                BY <2>1, <3>1
            <4> QED
                BY <2>1, <3>4, <4>1, <4>2, WorldOfPrefix
        <3>6. from - 1 = Len(es)
            BY <2>1
        <3>7. e.chain = WorldAfter(cs)[from - 1]
            BY <3>3, <3>5, <3>6
        <3> HIDE DEF from
        <3> QED
            BY <1>0, <3>1, <3>2, <3>4, <3>7, StartInv
    <2>3. ASSUME NEW pos \in DOMAIN es, Mutate(w, e, c, pos) PROVE Inv'
        <3> DEFINE cs == [es EXCEPT ![pos] = c]
        <3>1. cs \in Seq(Handlers) /\ Len(cs) = Len(es) /\ pos \in 1 .. Len(es)
            BY <2>1
        <3>2. Start(w, cs, 1, Genesis)
            BY <2>3 DEF Mutate
        <3> HIDE DEF es, e, cs
        <3>3. 1 \in 1 .. Len(cs) /\ Len(cs) <= CallLimit /\ Len(cs) \in Nat
            BY <2>1, <3>1
        <3>4. Genesis = WorldAfter(cs)[1 - 1]
            BY <3>3, WorldSteps
        <3> QED
            BY <1>0, <3>1, <3>2, <3>3, <3>4, StartInv
    <2> QED
        BY <2>2, <2>3
<1> QED
    BY <1>1, <1>2 DEF Pick

\* Coverage is counted in naturals.
LEMMA EdgesAreNatural ==
    ASSUME Inv, NEW w \in Workers, NEW ps, IsFiniteSet(ps),
           new_edges' = [new_edges EXCEPT ![w] = @ + Cardinality(ps \ covered)]
    PROVE  new_edges' \in [Workers -> Nat]
<1>1. Cardinality(ps \ covered) \in Nat
    BY FS_Difference, FS_CardinalityType
<1> QED
    BY <1>1 DEF Inv, Typed

\* ExecHandler keeps the invariant: the chain follows the calls.
LEMMA ExecHandlerInv == ASSUME Harness, Inv, NEW w \in Workers, ExecHandler(w) PROVE Inv'
<1> DEFINE c == calls[w][index[w]]
           x == Exec(chain[w], <<c>>)
<1>0. /\ pc[w] = "call" /\ Goto(w, "report")
      /\ chain' = [chain EXCEPT ![w] = x.world]
      /\ results' = [results EXCEPT ![w] = x.results]
      /\ new_edges' = [new_edges EXCEPT ![w] = @ + Cardinality(Points(x.results) \ covered)]
      /\ UNCHANGED <<runs, stop, timed_out, findings, corpus, budget, calls, index, outcome>>
    BY DEF ExecHandler
<1>1. /\ calls[w] \in Seq(Handlers) /\ Len(calls[w]) \in Nat
      /\ index[w] \in 1 .. Len(calls[w]) /\ Len(calls[w]) <= CallLimit
      /\ chain[w] = WorldAfter(calls[w])[index[w] - 1]
    BY <1>0 DEF Inv, Typed, WorkerOK
<1>2. c \in Handlers
    BY <1>1
<1>3. /\ IsList(x.results) /\ Len(x.results) = 1 /\ IsFiniteSet(Points(x.results))
      /\ x.results[1] = Tx(c, chain[w], Cheats)
    <2> DEFINE cs == <<c>>
    <2>1. Len(cs) = 1 /\ cs[1] = c
        OBVIOUS
    <2>2. c \in HarnessCalls
        BY <1>2 DEF HarnessCalls
    <2>3. ExecAfter(chain[w], cs)[0] = ExecStart(chain[w])
        BY ExecOne
    <2> HIDE DEF cs, c
    <2>4. /\ IsList(Exec(chain[w], cs).results) /\ Len(Exec(chain[w], cs).results) = 1
          /\ IsFiniteSet(Points(Exec(chain[w], cs).results))
          /\ Exec(chain[w], cs).results[1] =
                Tx(c, ExecAfter(chain[w], cs)[1 - 1].world, ExecAfter(chain[w], cs)[1 - 1].cheats)
        BY <2>1, <2>2, ExecIsList
    <2>5. Exec(chain[w], cs).results[1] = Tx(c, chain[w], Cheats)
        BY <2>3, <2>4 DEF ExecStart
    <2> QED
        BY <2>4, <2>5 DEF cs
<1>4. x.world = WorldAfter(calls[w])[index[w]]
    <2>1. WorldAfter(calls[w])[index[w]] = CommitCall(chain[w], c)
        BY <1>1, WorldSteps
    <2> QED
        BY <2>1 DEF CommitCall
<1> HIDE DEF x
<1>5. /\ pc' \in [Workers -> Labels] /\ pc'[w] = "report"
      /\ \A v \in Workers \ {w} : pc'[v] = pc[v]
    BY <1>0 DEF Inv, Typed, Goto, Labels
<1>6. new_edges' \in [Workers -> Nat]
    BY <1>0, <1>3, EdgesAreNatural
<1>7. /\ chain' = [v \in Workers |-> chain'[v]] /\ results' = [v \in Workers |-> results'[v]]
      /\ chain'[w] = x.world /\ results'[w] = x.results
      /\ \A v \in Workers \ {w} : chain'[v] = chain[v] /\ results'[v] = results[v]
    BY <1>0 DEF Inv, Typed
<1>8. Typed'
    BY <1>0, <1>5, <1>6, <1>7 DEF Inv, Typed
<1>9. WorkerOK(pc'[w], calls'[w], index'[w], chain'[w], results'[w])
    <2>1. calls'[w] = calls[w] /\ index'[w] = index[w]
        BY <1>0
    <2>2. HandlerResult(calls[w], index[w], x.results)
        BY <1>1, <1>3 DEF HandlerResult
    <2> QED
        BY <1>1, <1>4, <1>5, <1>7, <2>1, <2>2 DEF WorkerOK
<1>10. CorpusOK(corpus') /\ FindingsTyped(findings')
    BY <1>0 DEF Inv
<1> QED
    BY <1>0, <1>5, <1>7, <1>8, <1>9, <1>10, OneWorkerMoves

\* ExecFault keeps the invariant.
LEMMA ExecFaultInv == ASSUME Inv, NEW w \in Workers, ExecFault(w) PROVE Inv'
<1>1. /\ Leave(w, "failed") /\ runs' \in Nat /\ stop' \in BOOLEAN
      /\ UNCHANGED <<timed_out, corpus, budget, outcome>>
    BY DEF ExecFault, shared, Inv, Typed
<1>2. FindingsTyped(findings')
    BY DEF ExecFault, shared, Inv
<1> QED
    BY <1>1, <1>2, LeaveInv

\* ReportHandler keeps the invariant.
LEMMA ReportHandlerInv == ASSUME Inv, NEW w \in Workers, ReportHandler(w) PROVE Inv'
<1>0. pc[w] = "report" /\ Goto(w, "filter")
      /\ UNCHANGED <<runs, stop, timed_out, corpus, budget, calls, index, chain, new_edges, results, outcome>>
    BY DEF ReportHandler
<1>1. /\ pc' \in [Workers -> Labels] /\ pc'[w] = "filter"
      /\ \A v \in Workers \ {w} : pc'[v] = pc[v]
    BY <1>0 DEF Inv, Typed, Goto, Labels
<1>2. Typed'
    BY <1>0, <1>1 DEF Inv, Typed
<1>3. FindingsTyped(findings')
    <2>1. CASE UNCHANGED findings
        BY <2>1 DEF Inv
    <2>2. CASE TryAdd(Finding(results[w][1].report, Prefix(w)))
        <3> DEFINE f == Finding(results[w][1].report, Prefix(w))
        <3>1. IsList(f.calls) /\ f.calls # <<>>
            BY <1>0, PrefixIsList DEF Finding
        <3> HIDE DEF f
        <3> QED
            BY <2>2, <3>1, TryAddTyped DEF Inv, f
    <2> QED
        BY <2>1, <2>2 DEF ReportHandler
<1>4. WorkerOK(pc'[w], calls'[w], index'[w], chain'[w], results'[w])
    <2>1. WorkerOK(pc[w], calls[w], index[w], chain[w], results[w])
        BY DEF Inv
    <2> QED
        BY <1>0, <1>1, <2>1 DEF WorkerOK
<1>5. CorpusOK(corpus')
    BY <1>0 DEF Inv
<1>6. \A v \in Workers \ {w} :
         /\ pc'[v] = pc[v] /\ calls'[v] = calls[v] /\ index'[v] = index[v]
         /\ chain'[v] = chain[v] /\ results'[v] = results[v]
    BY <1>0, <1>1
<1> QED
    BY <1>2, <1>3, <1>4, <1>5, <1>6, OneWorkerMoves

\* Halting for a filter keeps the invariant.
LEMMA HaltInv ==
    ASSUME Inv, NEW w \in Workers, NEW id, NEW cs, IsList(cs), cs # <<>>, Halt(w, id, cs),
           UNCHANGED <<runs, timed_out, corpus, budget, outcome>>
    PROVE  Inv'
<1> DEFINE f == Finding(id, cs)
<1>1. IsList(f.calls) /\ f.calls # <<>>
    BY DEF Finding
<1>2. TryAdd(f) /\ Leave(w, "check") /\ stop' = TRUE
    BY DEF Halt
<1> HIDE DEF f
<1>3. FindingsTyped(findings')
    BY <1>1, <1>2, TryAddTyped DEF Inv
<1>4. runs' \in Nat /\ stop' \in BOOLEAN
    BY <1>2 DEF Inv, Typed
<1> QED
    BY <1>2, <1>3, <1>4, LeaveInv

\* FilterHandler keeps the invariant.
LEMMA FilterHandlerInv == ASSUME Inv, NEW w \in Workers, FilterHandler(w) PROVE Inv'
<1>0. pc[w] = "filter" /\ UNCHANGED <<runs, timed_out, corpus, budget, outcome>>
    BY DEF FilterHandler
<1>1. ASSUME NEW id, Halt(w, id, Prefix(w)) PROVE Inv'
    BY <1>0, <1>1, PrefixIsList, HaltInv
<1>2. CASE NextCall(w)
    BY <1>0, <1>2, NextCallInv
<1>3. CASE Goto(w, "invariants") /\ UNCHANGED <<findings, halted, stop, calls, index, chain, new_edges, results>>
    <2>1. /\ pc' \in [Workers -> Labels] /\ pc'[w] = "invariants"
          /\ \A v \in Workers \ {w} : pc'[v] = pc[v]
        BY <1>3 DEF Inv, Typed, Goto, Labels
    <2>2. Typed'
        BY <1>0, <1>3, <2>1 DEF Inv, Typed
    <2>3. WorkerOK(pc'[w], calls'[w], index'[w], chain'[w], results'[w])
        <3>1. WorkerOK(pc[w], calls[w], index[w], chain[w], results[w])
            BY DEF Inv
        <3> QED
            BY <1>0, <1>3, <2>1, <3>1 DEF WorkerOK
    <2>4. CorpusOK(corpus') /\ FindingsTyped(findings')
        BY <1>0, <1>3 DEF Inv
    <2>5. \A v \in Workers \ {w} :
             /\ pc'[v] = pc[v] /\ calls'[v] = calls[v] /\ index'[v] = index[v]
             /\ chain'[v] = chain[v] /\ results'[v] = results[v]
        BY <1>3, <2>1
    <2> QED
        BY <2>2, <2>3, <2>4, <2>5, OneWorkerMoves
<1> QED
    BY <1>1, <1>2, <1>3 DEF FilterHandler

\* ExecInvariants keeps the invariant: they run on a clone of the chain.
LEMMA ExecInvariantsInv == ASSUME Harness, Inv, NEW w \in Workers, ExecInvariants(w) PROVE Inv'
<1> DEFINE x == Exec(chain[w], Invariants)
<1>0. /\ pc[w] = "invariants" /\ Goto(w, "checked")
      /\ results' = [results EXCEPT ![w] = x.results]
      /\ new_edges' = [new_edges EXCEPT ![w] = @ + Cardinality(Points(x.results) \ covered)]
      /\ UNCHANGED <<runs, stop, timed_out, findings, corpus, budget, calls, index, chain, outcome>>
    BY DEF ExecInvariants
<1>1. InvariantResults(chain[w], x.results) /\ IsFiniteSet(Points(x.results))
    <2>1. /\ IsList(x.results) /\ Len(x.results) = Len(Invariants) /\ IsFiniteSet(Points(x.results))
          /\ \A i \in 1 .. Len(Invariants) : x.results[i] = InvariantTx(chain[w], i)
        BY InvariantsAreCalls, ExecIsList DEF InvariantTx
    <2>2. \A i \in 1 .. Len(Invariants) : IsResult(InvariantTx(chain[w], i))
        BY InvariantsAreCalls DEF Harness, InvariantTx
    <2> QED
        BY <2>1, <2>2 DEF InvariantResults
<1> HIDE DEF x
<1>2. /\ pc' \in [Workers -> Labels] /\ pc'[w] = "checked"
      /\ \A v \in Workers \ {w} : pc'[v] = pc[v]
    BY <1>0 DEF Inv, Typed, Goto, Labels
<1>3. new_edges' \in [Workers -> Nat]
    BY <1>0, <1>1, EdgesAreNatural
<1>4. /\ results' = [v \in Workers |-> results'[v]] /\ results'[w] = x.results
      /\ \A v \in Workers \ {w} : results'[v] = results[v]
    BY <1>0 DEF Inv, Typed
<1>5. Typed'
    BY <1>0, <1>2, <1>3, <1>4 DEF Inv, Typed
<1>6. WorkerOK(pc'[w], calls'[w], index'[w], chain'[w], results'[w])
    <2>1. WorkerOK(pc[w], calls[w], index[w], chain[w], results[w])
        BY DEF Inv
    <2> QED
        BY <1>0, <1>1, <1>2, <1>4, <2>1 DEF WorkerOK
<1>7. CorpusOK(corpus') /\ FindingsTyped(findings')
    BY <1>0 DEF Inv
<1> QED
    BY <1>0, <1>2, <1>4, <1>5, <1>6, <1>7, OneWorkerMoves

\* ReportInvariant keeps the invariant.
LEMMA ReportInvariantInv == ASSUME Inv, NEW w \in Workers, ReportInvariant(w) PROVE Inv'
<1>0. pc[w] = "checked"
      /\ UNCHANGED <<runs, stop, timed_out, corpus, pc, budget, calls, index, chain, new_edges, outcome>>
    BY DEF ReportInvariant
<1>1. PICK i \in DOMAIN results[w] :
         /\ TryAdd(Finding(results[w][i].report, Append(Prefix(w), Invariants[i])))
         /\ results' = [results EXCEPT ![w][i].report = NoId]
    BY DEF ReportInvariant
<1>2. WorkerOK(pc[w], calls[w], index[w], chain[w], results[w]) /\ InvariantResults(chain[w], results[w])
    BY <1>0 DEF Inv, WorkerOK
<1>3. IsList(results[w]) /\ Len(results[w]) = Len(Invariants) /\ DOMAIN results[w] = 1 .. Len(Invariants)
    BY <1>2, ListLength DEF InvariantResults
<1> DEFINE r == [results[w][i] EXCEPT !.report = NoId]
           rs == [results[w] EXCEPT ![i] = r]
<1>4. /\ results' = [v \in Workers |-> results'[v]] /\ results'[w] = rs
      /\ \A v \in Workers \ {w} : results'[v] = results[v]
    BY <1>1 DEF Inv, Typed
<1>5. IsResult(r) /\ r.report = NoId /\ r.revert = results[w][i].revert /\ r.panic = results[w][i].panic
    <2>1. IsResult(results[w][i])
        BY <1>2, <1>3 DEF InvariantResults
    <2> QED
        BY <2>1 DEF IsResult
<1>6. InvariantResults(chain[w], rs)
    <2>1. DOMAIN rs = DOMAIN results[w] /\ rs = [j \in DOMAIN results[w] |-> rs[j]]
          /\ \A j \in DOMAIN results[w] : rs[j] = IF j = i THEN r ELSE results[w][j]
        <3> DEFINE s == results[w]
        <3>1. s = [j \in 1 .. Len(Invariants) |-> s[j]] /\ DOMAIN s = 1 .. Len(Invariants)
            BY <1>3 DEF IsList
        <3> HIDE DEF s, r
        <3>2. [s EXCEPT ![i] = r] = [j \in DOMAIN s |-> IF j = i THEN r ELSE s[j]]
            BY <3>1
        <3> QED
            BY <3>2 DEF s
    <2> HIDE DEF rs, r
    <2>2. IsList(rs) /\ Len(rs) = Len(Invariants)
        BY <1>3, <2>1, ListReplace
    <2> QED
        BY <1>2, <1>3, <1>5, <2>1, <2>2 DEF InvariantResults
<1> HIDE DEF r, rs
<1>7. Typed'
    BY <1>0, <1>4 DEF Inv, Typed
<1>8. FindingsTyped(findings')
    <2> DEFINE f == Finding(results[w][i].report, Append(Prefix(w), Invariants[i]))
    <2>1. IsList(f.calls) /\ f.calls # <<>>
        BY <1>0, PrefixIsList DEF Finding
    <2> HIDE DEF f
    <2> QED
        BY <1>1, <2>1, TryAddTyped DEF Inv, f
<1>9. WorkerOK(pc'[w], calls'[w], index'[w], chain'[w], results'[w])
    BY <1>0, <1>2, <1>4, <1>6 DEF WorkerOK
<1>10. CorpusOK(corpus')
    BY <1>0 DEF Inv
<1> QED
    BY <1>0, <1>4, <1>7, <1>8, <1>9, <1>10, OneWorkerMoves

\* FilterInvariants keeps the invariant.
LEMMA FilterInvariantsInv == ASSUME Inv, NEW w \in Workers, FilterInvariants(w) PROVE Inv'
<1>0. pc[w] = "checked" /\ UNCHANGED <<runs, timed_out, corpus, budget, outcome>>
    BY DEF FilterInvariants
<1>1. ASSUME NEW id, NEW i, Halt(w, id, Append(Prefix(w), Invariants[i])) PROVE Inv'
    BY <1>0, <1>1, PrefixIsList, HaltInv
<1>2. CASE NextCall(w)
    BY <1>0, <1>2, NextCallInv
<1> QED
    BY <1>1, <1>2 DEF FilterInvariants

\* Keep keeps the invariant: the snapshot is the state of the whole sequence.
LEMMA KeepInv == ASSUME Inv, NEW w \in Workers, Keep(w) PROVE Inv'
<1>0. pc[w] = "keep" /\ Goto(w, "full")
      /\ UNCHANGED <<runs, stop, timed_out, findings, budget, calls, index, chain, new_edges, results, outcome>>
    BY DEF Keep
<1>1. /\ pc' \in [Workers -> Labels] /\ pc'[w] = "full"
      /\ \A v \in Workers \ {w} : pc'[v] = pc[v]
    BY <1>0 DEF Inv, Typed, Goto, Labels
<1>2. Typed'
    BY <1>0, <1>1 DEF Inv, Typed
<1>3. WorkerOK(pc[w], calls[w], index[w], chain[w], results[w])
    BY DEF Inv
<1>4. WorkerOK(pc'[w], calls'[w], index'[w], chain'[w], results'[w])
    BY <1>0, <1>1, <1>3 DEF WorkerOK
<1>5. CorpusOK(corpus')
    <2>1. CASE new_edges[w] > 0
        <3> DEFINE e == [calls |-> calls[w], new_edges |-> new_edges[w], chain |-> chain[w]]
        <3>1. EntryOK(e)
            BY <1>0, <1>3, <2>1 DEF EntryOK, WorkerOK, Inv, Typed
        <3>2. AddEntry(e)
            BY <2>1 DEF Keep
        <3> HIDE DEF e
        <3> QED
            BY <3>1, <3>2, AddEntryOK DEF Inv
    <2>2. CASE ~(new_edges[w] > 0)
        BY <2>2 DEF Keep, Inv
    <2> QED
        BY <2>1, <2>2
<1>6. FindingsTyped(findings')
    BY <1>0 DEF Inv
<1> QED
    BY <1>0, <1>1, <1>2, <1>4, <1>5, <1>6, OneWorkerMoves

\* CheckFull keeps the invariant.
LEMMA CheckFullInv == ASSUME Inv, NEW w \in Workers, CheckFull(w) PROVE Inv'
<1>1. Leave(w, "check") /\ UNCHANGED <<runs, timed_out, findings, corpus, budget, outcome>>
    BY DEF CheckFull
<1>2. runs' \in Nat
    BY <1>1 DEF Inv, Typed
<1>3. stop' \in BOOLEAN
    BY Zenon DEF CheckFull
<1>4. FindingsTyped(findings')
    BY <1>1 DEF Inv
<1> QED
    BY <1>1, <1>2, <1>3, <1>4, LeaveInv

\* Every step keeps the invariant.
LEMMA NextInv == ASSUME Harness, Inv, [Next]_vars PROVE Inv'
<1>1. ASSUME NEW w \in Workers, WorkerStep(w) PROVE Inv'
    BY <1>1, CheckInv, CapacityInv, PickInv, ExecHandlerInv, ExecFaultInv, ReportHandlerInv, FilterHandlerInv,
       ExecInvariantsInv, ReportInvariantInv, FilterInvariantsInv, KeepInv, CheckFullInv DEF WorkerStep
<1>2. ASSUME UNCHANGED <<runs, stop, findings, corpus, local>>, timed_out' \in BOOLEAN,
             outcome' \in {"running", "finished", "failed"}
      PROVE  Inv'
    BY <1>2 DEF Inv, Typed, local
<1>3. CASE Timeout
    BY <1>2, <1>3 DEF Timeout, Inv, Typed
<1>4. CASE Join
    BY <1>2, <1>4 DEF Join, Inv, Typed, shared
<1>5. CASE UNCHANGED vars
    BY <1>2, <1>5 DEF vars, Inv, Typed, shared
<1> QED
    BY <1>1, <1>3, <1>4, <1>5 DEF Next, Finished

\* The state of the workers, the corpus and the collection is consistent after
\* every step of every worker.
THEOREM CampaignInv ==
    ASSUME Harness PROVE Spec => []Inv
<1>1. Init => Inv
    BY InitInv
<1>2. Inv /\ [Next]_vars => Inv'
    BY NextInv
<1> QED
    BY <1>1, <1>2, PTL DEF Spec

\* The invariant gives the types.
LEMMA InvGivesType == Inv => TypeOK
<1> SUFFICES ASSUME Inv PROVE TypeOK
    OBVIOUS
<1>1. \A i \in DOMAIN findings : findings[i].calls # <<>>
    BY DEF Inv, FindingsTyped
<1>2. \A i \in DOMAIN corpus : Range(corpus[i].calls) \subseteq Handlers /\ corpus[i].new_edges > 0
    BY DEF Inv, CorpusOK, EntryOK, Range
<1>3. \A w \in Workers : Range(calls[w]) \subseteq Handlers /\ Len(calls[w]) <= CallLimit
    BY DEF Inv, Typed, WorkerOK, Range
<1>4. \A w \in Workers : index[w] \in 1 .. Len(calls[w]) + 1
    BY DEF Inv, WorkerOK
<1> QED
    BY <1>1, <1>2, <1>3, <1>4 DEF Inv, Typed, TypeOK, Labels

\* A memoized snapshot of the corpus is the state its sequence leads to, with
\* any number of workers, whatever the harness does (SnapshotCoherent, the
\* extension of snapshots in src/tester/fuzzer.rs).
THEOREM SnapshotsAreCoherent ==
    ASSUME Harness PROVE Spec => [](TypeOK /\ SnapshotCoherent)
<1>1. Inv => TypeOK /\ SnapshotCoherent
    BY InvGivesType DEF Inv, CorpusOK, EntryOK, SnapshotCoherent
<1> QED
    BY <1>1, CampaignInv, PTL

-----------------------------------------------------------------------------
(* What is recorded, and by whom.                                          *)

ResultIds(r) == {r.report, r.revert, r.panic} \ {NoId}

\* Finding f is what worker w has just seen: an id of its handler call or of
\* one of the invariants, with the calls up to it.
Seen(w, f) ==
    \/ /\ pc[w] \in {"report", "filter"}
       /\ f.id \in ResultIds(results[w][1])
       /\ f.calls = Prefix(w)
    \/ /\ pc[w] = "checked"
       /\ \E i \in DOMAIN results[w] : /\ f.id \in ResultIds(results[w][i])
                                       /\ f.calls = Append(Prefix(w), Invariants[i])

\* The collection changes only by try_add, of a finding some worker has seen.
LEMMA FindingsStep ==
    ASSUME [Next]_vars, findings' # findings
    PROVE  \E w \in Workers : \E f : TryAdd(f) /\ Seen(w, f)
<1>0. PICK w \in Workers : WorkerStep(w)
    BY DEF Next, Timeout, Join, Finished, vars, shared
<1>1. CASE ReportHandler(w)
    <2> DEFINE r == results[w][1]
               f == Finding(r.report, Prefix(w))
    <2>1. pc[w] = "report" /\ r.report # NoId /\ TryAdd(f)
        BY <1>1 DEF ReportHandler
    <2>2. f.id = r.report /\ f.calls = Prefix(w)
        BY DEF Finding
    <2> HIDE DEF f
    <2>3. Seen(w, f)
        BY <2>1, <2>2 DEF Seen, ResultIds
    <2> QED
        BY <2>1, <2>3
<1>2. CASE FilterHandler(w)
    <2> DEFINE r == results[w][1]
               id == IF r.revert # NoId THEN r.revert ELSE r.panic
               f == Finding(id, Prefix(w))
    <2>1. pc[w] = "filter" /\ id # NoId /\ TryAdd(f)
        BY <1>2 DEF FilterHandler, NextCall, Halt
    <2>2. f.id = id /\ f.calls = Prefix(w) /\ id \in {r.revert, r.panic}
        BY DEF Finding
    <2> HIDE DEF f, id
    <2>3. Seen(w, f)
        BY <2>1, <2>2 DEF Seen, ResultIds
    <2> QED
        BY <2>1, <2>3
<1>3. CASE ReportInvariant(w)
    <2>1. PICK i \in DOMAIN results[w] :
             /\ results[w][i].report # NoId
             /\ TryAdd(Finding(results[w][i].report, Append(Prefix(w), Invariants[i])))
        BY <1>3 DEF ReportInvariant
    <2> DEFINE f == Finding(results[w][i].report, Append(Prefix(w), Invariants[i]))
    <2>2. f.id = results[w][i].report /\ f.calls = Append(Prefix(w), Invariants[i]) /\ TryAdd(f)
        BY <2>1 DEF Finding
    <2> HIDE DEF f
    <2>3. Seen(w, f)
        BY <1>3, <2>1, <2>2 DEF Seen, ResultIds, ReportInvariant
    <2> QED
        BY <2>2, <2>3
<1>4. CASE FilterInvariants(w)
    <2>1. PICK i \in DOMAIN results[w] :
             /\ FirstMatch(w, i)
             /\ Halt(w, IF results[w][i].revert # NoId THEN results[w][i].revert ELSE results[w][i].panic,
                     Append(Prefix(w), Invariants[i]))
        BY <1>4 DEF FilterInvariants, NextCall
    <2> DEFINE r == results[w][i]
               id == IF r.revert # NoId THEN r.revert ELSE r.panic
               f == Finding(id, Append(Prefix(w), Invariants[i]))
    <2>2. id # NoId /\ id \in {r.revert, r.panic}
        BY <2>1 DEF FirstMatch
    <2>3. f.id = id /\ f.calls = Append(Prefix(w), Invariants[i]) /\ TryAdd(f)
        BY <2>1 DEF Finding, Halt
    <2> HIDE DEF f, id
    <2>4. Seen(w, f)
        BY <1>4, <2>2, <2>3 DEF Seen, ResultIds, FilterInvariants
    <2> QED
        BY <2>3, <2>4
<1> QED
    BY <1>0, <1>1, <1>2, <1>3, <1>4
       DEF WorkerStep, Check, Capacity, Pick, shared, ExecHandler, ExecFault, ExecInvariants, Keep,
           CheckFull

\* A finding is never dropped, and its sequence only gets shorter: a step of
\* any worker (ShortestKept, SharedBrokenInvariants::try_add).
THEOREM FindingsOnlyImprove ==
    ASSUME Harness PROVE Spec => ShortestKept
<1> DEFINE Kept == \A i \in DOMAIN findings :
                      /\ i \in DOMAIN findings'
                      /\ findings'[i].id = findings[i].id
                      /\ findings'[i] = findings[i] \/ Len(findings'[i].calls) < Len(findings[i].calls)
<1>1. Inv /\ [Next]_vars => [Kept]_vars
    <2> SUFFICES ASSUME Inv, [Next]_vars PROVE Kept
        OBVIOUS
    <2>1. CASE findings' = findings
        BY <2>1
    <2>2. CASE findings' # findings
        BY <2>2, FindingsStep, TryAddResult DEF Inv, FindingsTyped
    <2> QED
        BY <2>1, <2>2
<1> QED
    BY <1>1, CampaignInv, PTL DEF Spec, ShortestKept

-----------------------------------------------------------------------------
(* One finding per id.                                                     *)

Distinct ==
    /\ Len(findings) <= MaxFindings
    /\ \A i, j \in DOMAIN findings : findings[i].id = findings[j].id => i = j

\* Every step keeps the findings distinct.
LEMMA NextDistinct == ASSUME Inv, Distinct, [Next]_vars PROVE Distinct'
<1>0. IsList(findings) /\ Len(findings) \in Nat /\ DOMAIN findings = 1 .. Len(findings)
    BY ListLength DEF Inv, FindingsTyped
<1>1. CASE findings' = findings
    BY <1>1 DEF Distinct
<1>2. CASE findings' # findings
    <2>1. PICK f : TryAdd(f)
        BY <1>2, FindingsStep
    <2>2. /\ IsList(findings')
          /\ \A i \in DOMAIN findings : i \in DOMAIN findings' /\ findings'[i].id = findings[i].id
          /\ \/ Len(findings') = Len(findings)
             \/ /\ KnownAt(f.id) = {} /\ ~IsFull
                /\ Len(findings') = Len(findings) + 1
                /\ findings'[Len(findings) + 1].id = f.id
        BY <1>0, <2>1, TryAddResult
    <2>3. DOMAIN findings' = 1 .. Len(findings')
        BY <2>2, ListLength
    <2>4. CASE Len(findings') = Len(findings)
        BY <1>0, <2>2, <2>3, <2>4 DEF Distinct
    <2>5. CASE /\ KnownAt(f.id) = {} /\ ~IsFull
               /\ Len(findings') = Len(findings) + 1
               /\ findings'[Len(findings) + 1].id = f.id
        <3>1. \A i \in 1 .. Len(findings) : findings'[i].id # f.id
            BY <1>0, <2>2, <2>5 DEF KnownAt
        <3>2. Len(findings') <= MaxFindings
            BY <1>0, <2>5, CampaignAssumption DEF IsFull
        <3>3. ASSUME NEW i \in DOMAIN findings', NEW j \in DOMAIN findings',
                     findings'[i].id = findings'[j].id
              PROVE  i = j
            <4>1. i \in 1 .. Len(findings) + 1 /\ j \in 1 .. Len(findings) + 1
                BY <2>3, <2>5
            <4>2. CASE i \in 1 .. Len(findings) /\ j \in 1 .. Len(findings)
                BY <1>0, <2>2, <3>3, <4>2 DEF Distinct
            <4>3. CASE i = Len(findings) + 1 \/ j = Len(findings) + 1
                BY <1>0, <2>5, <3>1, <3>3, <4>1, <4>3
            <4> QED
                BY <1>0, <4>1, <4>2, <4>3
        <3> QED
            BY <3>2, <3>3 DEF Distinct
    <2> QED
        BY <2>2, <2>4, <2>5
<1> QED
    BY <1>1, <1>2

\* Distinct findings have distinct ids.
LEMMA DistinctCount == ASSUME Inv, Distinct PROVE FindingsDistinct
<1>0. Len(findings) \in Nat /\ DOMAIN findings = 1 .. Len(findings)
    BY ListLength DEF Inv, FindingsTyped
<1> DEFINE F == [i \in 1 .. Len(findings) |-> findings[i].id]
<1>1. F \in Bijection(1 .. Len(findings), Ids)
    BY <1>0 DEF Distinct, Bijection, Injection, IsInjective, Surjection, Ids
<1> HIDE DEF F
<1>2. Cardinality(Ids) = Len(findings)
    BY <1>0, <1>1, FS_CountingElements DEF ExistsBijection
<1> QED
    BY <1>2 DEF Distinct, FindingsDistinct

\* The collection is deduplicated by id and bounded, with any number of
\* workers adding to it (FindingsDistinct, try_add).
THEOREM FindingsAreDistinct ==
    ASSUME Harness PROVE Spec => []FindingsDistinct
<1>1. Init => Distinct
    BY CampaignAssumption DEF Init, Distinct
<1>2. Inv /\ Distinct /\ [Next]_vars => Distinct'
    BY NextDistinct
<1>3. Inv /\ Distinct => FindingsDistinct
    BY DistinctCount
<1> QED
    BY <1>1, <1>2, <1>3, CampaignInv, PTL DEF Spec

-----------------------------------------------------------------------------
(* No report is lost.                                                      *)

\* The reports worker v has seen and not yet handed to the collection, given
\* where it is and its results.
Unsaved(p, rs) == IF p \in {"report", "checked"} THEN {rs[i].report : i \in DOMAIN rs} ELSE {}

Saved ==
    /\ NoId \notin reported
    /\ \A id \in reported : id \in Ids \/ IsFull \/ \E w \in Workers : id \in Unsaved(pc[w], results[w])

\* What is in the collection stays there, and a full one stays full.
LEMMA CollectionGrows ==
    ASSUME Inv, [Next]_vars
    PROVE  Ids \subseteq Ids' /\ (IsFull => IsFull')
<1>0. IsList(findings) /\ Len(findings) \in Nat
    BY ListLength DEF Inv, FindingsTyped
<1>1. CASE findings' = findings
    BY <1>1 DEF Ids, IsFull
<1>2. CASE findings' # findings
    <2>1. PICK f : TryAdd(f)
        BY <1>2, FindingsStep
    <2>2. /\ IsList(findings') /\ Len(findings') >= Len(findings)
          /\ \A i \in DOMAIN findings : i \in DOMAIN findings' /\ findings'[i].id = findings[i].id
        BY <1>0, <2>1, TryAddResult
    <2>3. Len(findings') \in Nat
        BY <2>2, ListLength
    <2> QED
        BY <1>0, <2>2, <2>3, CampaignAssumption DEF Ids, IsFull
<1> QED
    BY <1>1, <1>2

\* A worker that moves from one place to the next without dropping an unsaved
\* report, or that saves it, keeps the promise.
LEMMA ReportsStay ==
    ASSUME Inv, Saved, [Next]_vars, NEW w \in Workers,
           \A v \in Workers \ {w} : pc'[v] = pc[v] /\ results'[v] = results[v],
           NoId \notin reported',
           \A id \in reported' :
              \/ id \in reported /\ id \notin Unsaved(pc[w], results[w])
              \/ id \in Ids' \/ IsFull' \/ id \in Unsaved(pc'[w], results'[w])
    PROVE  Saved'
<1>1. ASSUME NEW id \in reported' PROVE id \in Ids' \/ IsFull' \/ \E v \in Workers : id \in Unsaved(pc'[v], results'[v])
    <2>1. CASE id \in Ids' \/ IsFull' \/ id \in Unsaved(pc'[w], results'[w])
        BY <2>1
    <2>2. CASE id \in reported /\ id \notin Unsaved(pc[w], results[w])
        <3>1. CASE id \in Ids \/ IsFull
            BY <3>1, CollectionGrows
        <3>2. CASE \E v \in Workers : id \in Unsaved(pc[v], results[v])
            <4>1. PICK v \in Workers : id \in Unsaved(pc[v], results[v])
                BY <3>2
            <4>2. v # w
                BY <2>2, <4>1
            <4>3. pc'[v] = pc[v] /\ results'[v] = results[v]
                BY <4>2
            <4>4. id \in Unsaved(pc'[v], results'[v])
                BY <4>1, <4>3
            <4> QED
                BY <4>4
        <3> QED
            BY <2>2, <3>1, <3>2 DEF Saved
    <2> QED
        BY <2>1, <2>2
<1> QED
    BY <1>1 DEF Saved

\* A worker that neither saw nor had a report.
LEMMA NothingUnsaved ==
    ASSUME Inv, Saved, [Next]_vars, NEW w \in Workers, reported' = reported,
           \A v \in Workers \ {w} : pc'[v] = pc[v] /\ results'[v] = results[v],
           Unsaved(pc[w], results[w]) \subseteq {NoId}
    PROVE  Saved'
<1>1. NoId \notin reported
    BY DEF Saved
<1> QED
    BY <1>1, ReportsStay

\* The report in hand is in the collection after try_add, or there is no room.
LEMMA TryAddSaves ==
    ASSUME Inv, NEW id, NEW cs, TryAdd(Finding(id, cs))
    PROVE  id \in Ids' \/ IsFull'
<1> DEFINE f == Finding(id, cs)
<1>1. f.id = id
    BY DEF Finding
<1> HIDE DEF f
<1>2. IsFull' \/ \E i \in DOMAIN findings' : findings'[i].id = f.id
    BY TryAddResult DEF Inv, FindingsTyped, f
<1> QED
    BY <1>1, <1>2 DEF Ids

\* An execution: what it reports is unsaved.
LEMMA ExecReports ==
    ASSUME Inv, Saved, [Next]_vars, NEW w \in Workers, NEW rs,
           pc[w] \in {"call", "invariants"}, pc'[w] \in {"report", "checked"}, results'[w] = rs,
           \A v \in Workers \ {w} : pc'[v] = pc[v] /\ results'[v] = results[v],
           reported' = reported \cup ReportedIds(rs)
    PROVE  Saved'
<1>1. NoId \notin reported'
    BY DEF Saved, ReportedIds
<1>2. ASSUME NEW id \in reported'
      PROVE  \/ id \in reported /\ id \notin Unsaved(pc[w], results[w])
             \/ id \in Unsaved(pc'[w], results'[w])
    BY <1>2 DEF Unsaved, ReportedIds
<1> QED
    BY <1>1, <1>2, ReportsStay

\* Every step keeps a reported id in the collection or in a worker's results.
LEMMA NextSaved == ASSUME Inv, Saved, [Next]_vars PROVE Saved'
<1>1. ASSUME NEW w \in Workers, WorkerStep(w) PROVE Saved'
    <2> DEFINE Others == \A v \in Workers \ {w} : pc'[v] = pc[v] /\ results'[v] = results[v]
    <2>0. pc \in [Workers -> Labels] /\ results = [v \in Workers |-> results[v]]
        BY DEF Inv, Typed
    <2>1. CASE \/ Check(w) \/ Capacity(w) \/ Pick(w) \/ ExecFault(w) \/ FilterHandler(w) \/ Keep(w)
               \/ CheckFull(w)
        <3>1. reported' = reported /\ Unsaved(pc[w], results[w]) = {}
            BY <2>1 DEF Check, Capacity, Pick, ExecFault, FilterHandler, Keep, CheckFull, Unsaved
        <3>2. CASE Check(w) \/ Capacity(w) \/ Pick(w) \/ Keep(w)
            BY <2>0, <3>1, <3>2, NothingUnsaved DEF Check, Capacity, Pick, Keep, Goto
        <3>3. CASE ExecFault(w) \/ CheckFull(w)
            BY <2>0, <3>1, <3>3, NothingUnsaved DEF ExecFault, CheckFull, Leave, Goto
        <3>4. CASE FilterHandler(w)
            <4>1. Others
                BY <2>0, <3>4 DEF FilterHandler, Halt, Leave, NextCall, Goto
            <4> QED
                BY <3>1, <4>1, NothingUnsaved
        <3> QED
            BY <2>1, <3>2, <3>3, <3>4
    <2>2. CASE ExecHandler(w)
        <3> DEFINE rs == Exec(chain[w], <<calls[w][index[w]]>>).results
        <3>1. /\ pc[w] = "call" /\ pc'[w] = "report" /\ results'[w] = rs /\ Others
              /\ reported' = reported \cup ReportedIds(rs)
            BY <2>0, <2>2 DEF ExecHandler, Goto
        <3> HIDE DEF rs
        <3> QED
            BY <3>1, ExecReports
    <2>3. CASE ExecInvariants(w)
        <3> DEFINE rs == Exec(chain[w], Invariants).results
        <3>1. /\ pc[w] = "invariants" /\ pc'[w] = "checked" /\ results'[w] = rs /\ Others
              /\ reported' = reported \cup ReportedIds(rs)
            BY <2>0, <2>3 DEF ExecInvariants, Goto
        <3> HIDE DEF rs
        <3> QED
            BY <3>1, ExecReports
    <2>4. CASE ReportHandler(w)
        <3>1. Others /\ reported' = reported /\ NoId \notin reported
            BY <2>0, <2>4 DEF ReportHandler, Goto, Saved
        <3>2. Unsaved(pc[w], results[w]) = {results[w][1].report}
            <4>1. IsList(results[w]) /\ Len(results[w]) = 1 /\ pc[w] = "report"
                BY <2>4 DEF ReportHandler, Inv, WorkerOK, HandlerResult
            <4>2. DOMAIN results[w] = 1 .. 1
                BY <4>1, ListLength
            <4> QED
                BY <4>1, <4>2 DEF Unsaved
        <3>3. results[w][1].report = NoId \/ results[w][1].report \in Ids' \/ IsFull'
            BY <2>4, TryAddSaves DEF ReportHandler
        <3> QED
            BY <3>1, <3>2, <3>3, ReportsStay
    <2>5. CASE ReportInvariant(w)
        <3>1. PICK i \in DOMAIN results[w] :
                 /\ TryAdd(Finding(results[w][i].report, Append(Prefix(w), Invariants[i])))
                 /\ results' = [results EXCEPT ![w][i].report = NoId]
            BY <2>5 DEF ReportInvariant
        <3>2. /\ pc[w] = "checked" /\ pc' = pc /\ reported' = reported /\ NoId \notin reported
              /\ Others
            BY <2>0, <2>5, <3>1 DEF ReportInvariant, Saved
        <3>3. results[w][i].report \in Ids' \/ IsFull'
            BY <3>1, TryAddSaves
        <3>4. \A j \in DOMAIN results[w] : j # i => j \in DOMAIN results'[w] /\ results'[w][j] = results[w][j]
            <4>1. results'[w] = [results[w] EXCEPT ![i] = [results[w][i] EXCEPT !.report = NoId]]
                BY <2>0, <3>1
            <4> QED
                BY <4>1
        <3>5. ASSUME NEW id \in reported'
              PROVE  \/ id \in reported /\ id \notin Unsaved(pc[w], results[w])
                     \/ id \in Ids' \/ IsFull' \/ id \in Unsaved(pc'[w], results'[w])
            <4>1. CASE id = results[w][i].report
                BY <3>3, <4>1
            <4>2. CASE \E j \in DOMAIN results[w] : j # i /\ id = results[w][j].report
                <5>1. id \in {results'[w][j].report : j \in DOMAIN results'[w]}
                    BY <3>4, <4>2
                <5> QED
                    BY <3>2, <5>1 DEF Unsaved
            <4> QED
                BY <3>2, <3>5, <4>1, <4>2 DEF Unsaved
        <3> QED
            BY <3>2, <3>5, ReportsStay
    <2>6. CASE FilterInvariants(w)
        <3>1. reported' = reported /\ Unsaved(pc[w], results[w]) \subseteq {NoId}
            BY <2>6 DEF FilterInvariants, AllReported, Unsaved
        <3>2. Others
            BY <2>0, <2>6 DEF FilterInvariants, Halt, Leave, NextCall, Goto
        <3> QED
            BY <3>1, <3>2, NothingUnsaved
    <2> QED
        BY <1>1, <2>1, <2>2, <2>3, <2>4, <2>5, <2>6 DEF WorkerStep
<1>2. ASSUME UNCHANGED <<findings, pc, results, reported>> PROVE Saved'
    BY <1>2 DEF Saved, Ids, IsFull
<1> QED
    BY <1>1, <1>2 DEF Next, Timeout, Join, Finished, vars, shared, local

\* A reported id is in the collection once its worker is between sequences,
\* unless the collection is full (NoReportLost, the reports of the handler
\* and the invariants in execute_sequence).
THEOREM ReportsAreKept ==
    ASSUME Harness PROVE Spec => []NoReportLost
<1>1. Init => Saved
    BY DEF Init, Saved
<1>2. Inv /\ Saved /\ [Next]_vars => Saved'
    BY NextSaved
<1>3. Saved => NoReportLost
    BY DEF Saved, NoReportLost, Unsaved
<1> QED
    BY <1>1, <1>2, <1>3, CampaignInv, PTL DEF Spec

-----------------------------------------------------------------------------
(* The run budget.                                                         *)

Left == SumTo(budget, Cardinality(Workers))

Accounted ==
    /\ runs + Left = MaxRuns
    /\ IF Handlers = {}
       THEN runs = 0 /\ \A w \in Workers : pc[w] = "done"
       ELSE \A w \in Workers : pc[w] = "done" => budget[w] = 0 \/ stop \/ timed_out
    /\ stop => halted # {} \/ IsFull
    /\ outcome = "finished" => \A w \in Workers : pc[w] = "done"

\* The workers are numbered.
LEMMA WorkersAreNumbered ==
    /\ Cardinality(Workers) \in Nat \ {0}
    /\ Workers = 0 .. Cardinality(Workers) - 1
BY CampaignAssumption

\* split_runs hands out exactly the budget.
LEMMA SharesAddUp == Init => Left = MaxRuns
<1> SUFFICES ASSUME Init PROVE Left = MaxRuns
    OBVIOUS
<1> DEFINE n == Cardinality(Workers)
           q == MaxRuns \div n
           r == MaxRuns % n
<1>1. n \in Nat \ {0} /\ Workers = 0 .. n - 1 /\ MaxRuns \in Nat
    BY CampaignAssumption
<1>2. budget = [w \in 0 .. n - 1 |-> q + (IF w < r THEN 1 ELSE 0)]
    BY <1>1 DEF Init, SplitRuns
<1> HIDE DEF n
<1>3. q \in Nat /\ r \in 0 .. n - 1 /\ MaxRuns = n * q + r
    BY <1>1
<1> HIDE DEF q, r
<1>4. budget \in [0 .. n - 1 -> Nat] /\ r \in 0 .. n /\ n \in Nat
    BY <1>1, <1>2, <1>3
<1>5. \A w \in 0 .. n - 1 : budget[w] = q + (IF w < r THEN 1 ELSE 0)
    BY <1>2
<1>6. SumTo(budget, n) = n * q + r
    BY <1>3, <1>4, <1>5, SumOfShares
<1> QED
    BY <1>3, <1>6 DEF Left, n

\* A campaign starts with the whole budget.
LEMMA InitAccounted == Init => Accounted
<1> SUFFICES ASSUME Init PROVE Accounted
    OBVIOUS
<1>1. runs + Left = MaxRuns
    BY SharesAddUp, CampaignAssumption DEF Init
<1> QED
    BY <1>1 DEF Init, FirstPc, Accounted

\* A run is counted when it is taken from a worker's share.
LEMMA RunsAreCounted ==
    ASSUME Inv, [Next]_vars, runs + Left = MaxRuns
    PROVE  runs' + Left' = MaxRuns
<1>0. budget \in [Workers -> Nat] /\ runs \in Nat
    BY DEF Inv, Typed
<1>1. CASE UNCHANGED <<runs, budget>>
    BY <1>1 DEF Left
<1>2. ASSUME NEW w \in Workers, budget[w] > 0, runs' = runs + 1, budget' = [budget EXCEPT ![w] = @ - 1]
      PROVE  runs' + Left' = MaxRuns
    <2> DEFINE n == Cardinality(Workers)
    <2>1. n \in Nat /\ Workers = 0 .. n - 1
        BY WorkersAreNumbered
    <2> HIDE DEF n
    <2>2. SumTo(budget', n) = SumTo(budget, n) - 1
        BY <1>0, <1>2, <2>1, SumLowered
    <2>3. SumTo(budget, n) \in Nat
        BY <1>0, <2>1, SumSteps
    <2>4. runs + SumTo(budget, n) = MaxRuns
        BY DEF Left, n
    <2>5. runs' + SumTo(budget', n) = MaxRuns
        BY <1>0, <1>2, <2>2, <2>3, <2>4
    <2> QED
        BY <2>5 DEF Left, n
<1>3. \/ UNCHANGED <<runs, budget>>
      \/ \E w \in Workers : budget[w] > 0 /\ runs' = runs + 1 /\ budget' = [budget EXCEPT ![w] = @ - 1]
    <2>1. ASSUME NEW w \in Workers, Capacity(w)
          PROVE  \/ UNCHANGED <<runs, budget>>
                 \/ budget[w] > 0 /\ runs' = runs + 1 /\ budget' = [budget EXCEPT ![w] = @ - 1]
        BY <2>1 DEF Capacity
    <2>2. ASSUME NEW w \in Workers, WorkerStep(w), ~Capacity(w)
          PROVE  UNCHANGED <<runs, budget>>
        BY <2>2 DEF WorkerStep, Check, Pick, shared, ExecHandler, ExecFault, ReportHandler, FilterHandler,
                    ExecInvariants, ReportInvariant, FilterInvariants, Keep, CheckFull
    <2> QED
        BY <2>1, <2>2 DEF Next, Timeout, Join, Finished, vars, shared, local
<1> QED
    BY <1>1, <1>2, <1>3

\* A worker is done for a reason, and whoever asks to stop has one.
LEMMA StopsHaveReasons ==
    ASSUME Inv, Accounted, NEW w \in Workers, WorkerStep(w)
    PROVE  /\ stop => stop'
           /\ timed_out' = timed_out /\ outcome' = outcome
           /\ halted \subseteq halted'
           /\ stop' => stop \/ halted' # {} \/ IsFull
           /\ \A v \in Workers : pc'[v] = "done" =>
                 \/ pc[v] = "done" /\ budget'[v] = budget[v]
                 \/ budget'[v] = 0 \/ stop' \/ timed_out'
           /\ pc[w] # "done"
<1>0. pc \in [Workers -> Labels] /\ budget \in [Workers -> Nat]
    BY DEF Inv, Typed
<1>1. CASE Check(w) \/ Capacity(w)
    BY <1>0, <1>1 DEF Check, Capacity, shared, Goto
<1>2. CASE Pick(w) \/ ExecHandler(w) \/ ReportHandler(w) \/ ExecInvariants(w) \/ ReportInvariant(w) \/ Keep(w)
    BY <1>0, <1>2 DEF Pick, shared, ExecHandler, ReportHandler, ExecInvariants, ReportInvariant, Keep, Goto
<1>3. ASSUME NEW l, l # "done", Goto(w, l), budget' = budget
      PROVE  \A v \in Workers : pc'[v] = "done" => pc[v] = "done" /\ budget'[v] = budget[v]
    BY <1>0, <1>3 DEF Goto
<1>4. CASE ExecFault(w)
    <2>1. Goto(w, "failed") /\ UNCHANGED <<stop, timed_out, budget, halted, outcome>> /\ pc[w] # "done"
        BY <1>4 DEF ExecFault, shared, Leave
    <2> QED
        BY <1>3, <2>1
<1>5. CASE CheckFull(w)
    <2>1. /\ Goto(w, "check") /\ UNCHANGED <<timed_out, budget, halted, outcome>> /\ pc[w] # "done"
          /\ stop' = (stop \/ IsFull)
        BY <1>5 DEF CheckFull, Leave
    <2> QED
        BY <1>3, <2>1
<1>6. ASSUME NEW id, NEW cs, Halt(w, id, cs)
      PROVE  Goto(w, "check") /\ stop' = TRUE /\ halted \subseteq halted' /\ halted' # {}
    BY <1>6 DEF Halt, Leave
<1>7. ASSUME NextCall(w)
      PROVE  (\E l : l # "done" /\ Goto(w, l)) /\ UNCHANGED <<stop, halted>>
    BY <1>7 DEF NextCall
<1>8. CASE FilterHandler(w) \/ FilterInvariants(w)
    <2>1. UNCHANGED <<timed_out, budget, outcome>> /\ pc[w] # "done"
        BY <1>8 DEF FilterHandler, FilterInvariants
    <2>2. \/ \E id, cs : Halt(w, id, cs)
          \/ NextCall(w)
          \/ Goto(w, "invariants") /\ UNCHANGED <<stop, halted>>
        BY <1>8 DEF FilterHandler, FilterInvariants
    <2>3. /\ \E l : l # "done" /\ Goto(w, l)
          /\ halted \subseteq halted'
          /\ UNCHANGED stop \/ (stop' = TRUE /\ halted' # {})
        BY <1>6, <1>7, <2>2
    <2> QED
        BY <1>3, <2>1, <2>3
<1> QED
    BY <1>1, <1>2, <1>4, <1>5, <1>8 DEF WorkerStep

\* Every step keeps the account.
LEMMA NextAccounted == ASSUME Inv, Accounted, [Next]_vars PROVE Accounted'
<1>1. runs' + Left' = MaxRuns
    BY RunsAreCounted DEF Accounted
<1>2. IsFull => IsFull'
    BY CollectionGrows
<1>3. ASSUME NEW w \in Workers, WorkerStep(w) PROVE Accounted'
    <2>1. /\ stop => stop'
          /\ timed_out' = timed_out /\ outcome' = outcome
          /\ halted \subseteq halted'
          /\ stop' => stop \/ halted' # {} \/ IsFull
          /\ \A v \in Workers : pc'[v] = "done" =>
                \/ pc[v] = "done" /\ budget'[v] = budget[v]
                \/ budget'[v] = 0 \/ stop' \/ timed_out'
          /\ pc[w] # "done"
        BY <1>3, StopsHaveReasons
    <2>2. outcome' # "finished"
        BY <2>1 DEF Accounted
    <2>3. Handlers # {} /\ \A v \in Workers : pc'[v] = "done" => budget'[v] = 0 \/ stop' \/ timed_out'
        BY <2>1 DEF Accounted
    <2>4. stop' => halted' # {} \/ IsFull'
        BY <1>2, <2>1 DEF Accounted
    <2> QED
        BY <1>1, <2>2, <2>3, <2>4 DEF Accounted
<1>4. CASE Timeout
    BY <1>1, <1>4 DEF Timeout, local, Accounted, IsFull
<1>5. CASE Join
    BY <1>1, <1>5 DEF Join, shared, local, Accounted, IsFull
<1>6. CASE UNCHANGED vars
    BY <1>1, <1>6 DEF vars, shared, local, Accounted, IsFull
<1> QED
    BY <1>3, <1>4, <1>5, <1>6 DEF Next, Finished

\* A campaign that finishes without a reason to stop has spent its budget.
LEMMA AccountedIsSpent == ASSUME Inv, Accounted PROVE BudgetSpent
<1> DEFINE n == Cardinality(Workers)
<1>1. n \in Nat /\ Workers = 0 .. n - 1
    BY WorkersAreNumbered
<1> HIDE DEF n
<1>2. budget \in [0 .. n - 1 -> Nat] /\ runs \in Nat /\ MaxRuns \in Nat
    BY <1>1, CampaignAssumption DEF Inv, Typed
<1>3. SumTo(budget, n) \in Nat
    BY <1>1, <1>2, SumSteps
<1>4. runs + SumTo(budget, n) = MaxRuns
    BY DEF Accounted, Left, n
<1>5. ASSUME outcome = "finished", ~IsFull, halted = {}, ~timed_out
      PROVE  runs = IF Handlers = {} THEN 0 ELSE MaxRuns
    <2>1. CASE Handlers = {}
        BY <2>1 DEF Accounted
    <2>2. CASE Handlers # {}
        <3>1. \A w \in 0 .. n - 1 : budget[w] = 0
            BY <1>1, <1>5, <2>2 DEF Accounted
        <3>2. SumTo(budget, n) = 0
            BY <1>1, <1>2, <3>1, SumOfZeroes
        <3> QED
            BY <1>2, <1>4, <2>2, <3>2
    <2> QED
        BY <2>1, <2>2
<1> QED
    BY <1>2, <1>3, <1>4, <1>5 DEF BudgetSpent

\* The workers' shares add up to the run budget: a campaign that ends early
\* has a reason, and one without handlers has run nothing (BudgetSpent, the
\* early return of Fuzzer::run, split_runs and the head of the worker's loop).
THEOREM BudgetIsSpent ==
    ASSUME Harness PROVE Spec => []BudgetSpent
<1>1. Init => Accounted
    BY InitAccounted
<1>2. Inv /\ Accounted /\ [Next]_vars => Accounted'
    BY NextAccounted
<1>3. Inv /\ Accounted => BudgetSpent
    BY AccountedIsSpent
<1> QED
    BY <1>1, <1>2, <1>3, CampaignInv, PTL DEF Spec

-----------------------------------------------------------------------------
(* Stopping.                                                               *)

\* A worker that began a run too late is past the capacity check and finds the
\* reason at its next turn; the worker that raised the flag began none.
Timely ==
    /\ late \in [Workers -> {0, 1}]
    /\ \A w \in Workers : late[w] = 1 => pc[w] # "capacity" /\ (stop \/ timed_out)
    /\ stop /\ ~timed_out => \E w \in Workers : late[w] = 0 /\ pc[w] # "capacity"

\* What a step of a worker does to the flag, and to its own place and count.
LEMMA WorkerIsTimely ==
    ASSUME Inv, Timely, NEW w \in Workers, WorkerStep(w)
    PROVE  /\ timed_out' = timed_out /\ (stop => stop')
           /\ \A v \in Workers \ {w} : pc'[v] = pc[v] /\ late'[v] = late[v]
           /\ pc'[w] = "capacity" => ~stop /\ ~timed_out /\ late' = late /\ stop' = stop
           /\ \/ late' = late
              \/ /\ pc[w] = "capacity" /\ stop' = stop /\ (stop \/ timed_out)
                 /\ late' = [late EXCEPT ![w] = @ + 1]
<1>0. pc \in [Workers -> Labels] /\ late \in [Workers -> {0, 1}]
    BY DEF Inv, Typed, Timely
<1>1. CASE Check(w)
    BY <1>0, <1>1 DEF Check, shared, Goto
<1>2. CASE Capacity(w)
    <2>1. /\ timed_out' = timed_out /\ pc[w] = "capacity" /\ (stop => stop')
          /\ Goto(w, "done") \/ Goto(w, "pick")
        BY <1>2 DEF Capacity
    <2>2. CASE IsFull
        BY <1>0, <1>2, <2>1, <2>2 DEF Capacity, Goto
    <2>3. CASE ~IsFull /\ StopReason
        <3>1. late' = [late EXCEPT ![w] = @ + 1] /\ stop' = stop /\ (stop \/ timed_out)
            BY <1>2, <2>3 DEF Capacity, StopReason
        <3> QED
            BY <1>0, <2>1, <3>1 DEF Goto
    <2>4. CASE ~StopReason
        <3>1. late' = [late EXCEPT ![w] = @ + 0]
            BY <1>2, <2>4 DEF Capacity, StopReason
        <3>2. late' = late
            BY <1>0, <3>1
        <3> QED
            BY <1>0, <2>1, <3>2 DEF Goto
    <2> QED
        BY <2>2, <2>3, <2>4
<1>3. ASSUME NEW l, l # "capacity", Goto(w, l), late' = late, timed_out' = timed_out, stop => stop'
      PROVE  /\ \A v \in Workers \ {w} : pc'[v] = pc[v] /\ late'[v] = late[v]
             /\ pc'[w] # "capacity"
    BY <1>0, <1>3 DEF Goto
<1>4. CASE Pick(w) \/ ExecHandler(w) \/ ReportHandler(w) \/ ExecInvariants(w) \/ Keep(w)
    <2>1. late' = late /\ timed_out' = timed_out /\ stop' = stop
        BY <1>4 DEF Pick, shared, ExecHandler, ReportHandler, ExecInvariants, Keep
    <2>2. \E l : l # "capacity" /\ Goto(w, l)
        BY <1>4 DEF Pick, ExecHandler, ReportHandler, ExecInvariants, Keep
    <2> QED
        BY <1>3, <2>1, <2>2
<1>5. CASE ReportInvariant(w)
    BY <1>5 DEF ReportInvariant
<1>6. CASE ExecFault(w)
    <2>1. Goto(w, "failed") /\ UNCHANGED <<stop, timed_out, late>>
        BY <1>6 DEF ExecFault, shared, Leave
    <2> QED
        BY <1>3, <2>1
<1>7. CASE CheckFull(w)
    <2>1. Goto(w, "check") /\ UNCHANGED <<timed_out, late>> /\ (stop => stop')
        BY <1>7 DEF CheckFull, Leave
    <2> QED
        BY <1>3, <2>1
<1>8. CASE FilterHandler(w) \/ FilterInvariants(w)
    <2>1. UNCHANGED <<timed_out, late>>
        BY <1>8 DEF FilterHandler, FilterInvariants
    <2>2. \/ \E id, cs : Halt(w, id, cs)
          \/ NextCall(w)
          \/ Goto(w, "invariants") /\ UNCHANGED <<stop, halted>>
        BY <1>8 DEF FilterHandler, FilterInvariants
    <2>3. (\E l : l # "capacity" /\ Goto(w, l)) /\ (stop => stop')
        <3>1. ASSUME NEW id, NEW cs, Halt(w, id, cs)
              PROVE  Goto(w, "check") /\ stop' = TRUE
            BY <3>1 DEF Halt, Leave
        <3>2. ASSUME NextCall(w)
              PROVE  (\E l : l # "capacity" /\ Goto(w, l)) /\ stop' = stop
            BY <3>2 DEF NextCall
        <3>3. ASSUME NEW id, NEW cs, Halt(w, id, cs)
              PROVE  (\E l : l # "capacity" /\ Goto(w, l)) /\ (stop => stop')
            <4>1. "check" # "capacity" /\ Goto(w, "check") /\ stop' = TRUE
                BY <3>1, <3>3
            <4> QED
                BY <4>1
        <3>4. ASSUME Goto(w, "invariants") /\ UNCHANGED <<stop, halted>>
              PROVE  (\E l : l # "capacity" /\ Goto(w, l)) /\ (stop => stop')
            <4>1. "invariants" # "capacity"
                OBVIOUS
            <4> QED
                BY <3>4, <4>1
        <3> QED
            BY <2>2, <3>2, <3>3, <3>4
    <2> QED
        BY <1>3, <2>1, <2>3
<1> QED
    BY <1>1, <1>2, <1>4, <1>5, <1>6, <1>7, <1>8 DEF WorkerStep

\* Every step keeps the workers timely.
LEMMA NextTimely == ASSUME Inv, Timely, [Next]_vars PROVE Timely'
<1>1. ASSUME NEW w \in Workers, WorkerStep(w) PROVE Timely'
    <2>1. /\ timed_out' = timed_out /\ (stop => stop')
          /\ \A v \in Workers \ {w} : pc'[v] = pc[v] /\ late'[v] = late[v]
          /\ pc'[w] = "capacity" => ~stop /\ ~timed_out /\ late' = late /\ stop' = stop
          /\ \/ late' = late
             \/ /\ pc[w] = "capacity" /\ stop' = stop /\ (stop \/ timed_out)
                /\ late' = [late EXCEPT ![w] = @ + 1]
        BY <1>1, WorkerIsTimely
    <2>2. late \in [Workers -> {0, 1}]
        BY DEF Timely
    <2>3. late' \in [Workers -> {0, 1}]
        BY <2>1, <2>2 DEF Timely
    <2>4. \A v \in Workers : late'[v] = 1 => pc'[v] # "capacity" /\ (stop' \/ timed_out')
        BY <2>1, <2>2 DEF Timely
    <2>5. ASSUME stop', ~timed_out' PROVE \E v \in Workers : late'[v] = 0 /\ pc'[v] # "capacity"
        <3>1. CASE stop
            <4>1. PICK v \in Workers : late[v] = 0 /\ pc[v] # "capacity"
                BY <2>1, <2>5, <3>1 DEF Timely
            <4>2. late'[v] = 0 /\ pc'[v] # "capacity"
                BY <2>1, <2>2, <3>1, <4>1
            <4> QED
                BY <4>2
        <3>2. CASE ~stop
            BY <2>1, <2>2, <2>5, <3>2 DEF Timely
        <3> QED
            BY <3>1, <3>2
    <2> QED
        BY <2>3, <2>4, <2>5 DEF Timely
<1>2. CASE Timeout
    BY <1>2 DEF Timeout, local, Timely
<1>3. CASE Join \/ UNCHANGED vars
    BY <1>3 DEF Join, vars, shared, local, Timely
<1> QED
    BY <1>1, <1>2, <1>3 DEF Next, Finished

\* Once there is a reason to stop, each worker begins at most one more run, and
\* the worker that asked for the stop begins none, with any number of workers
\* (StopIsTimely, the head of the worker's loop and its request_stop).
THEOREM StopsAreTimely ==
    ASSUME Harness PROVE Spec => []StopIsTimely
<1>1. Init => Timely
    BY DEF Init, Timely
<1>2. Inv /\ Timely /\ [Next]_vars => Timely'
    BY NextTimely
<1>3. Timely => StopIsTimely
    <2>1. 0 \in Workers
        BY WorkersAreNumbered
    <2> QED
        BY <2>1 DEF Timely, StopIsTimely
<1> QED
    BY <1>1, <1>2, <1>3, CampaignInv, PTL DEF Spec

-----------------------------------------------------------------------------
(* Findings reproduce on a clean chain, if replaying all calls in one        *)
(* execution does to the harness what the campaign's separate executions     *)
(* did.                                                                      *)

\* The harness leaves no cheatcode state that changes what a later call does
\* (an open prank, say), and its invariant functions do not write.
PlainHarness ==
    /\ \A world, cheats : \A c \in HarnessCalls :
          LET r == Tx(c, world, cheats)
              s == Tx(c, world, Cheats)
          IN  r.world = s.world /\ ResultIds(r) = ResultIds(s)
    /\ \A world, cheats : \A i \in DOMAIN Invariants : Tx(Invariants[i], world, cheats).world = world

\* One execution of all calls goes through the worlds of the campaign.
LEMMA ReplayWorlds ==
    ASSUME PlainHarness, NEW cs, Len(cs) \in Nat, \A i \in 1 .. Len(cs) : cs[i] \in HarnessCalls
    PROVE  \A n \in 0 .. Len(cs) : ExecAfter(Genesis, cs)[n].world = WorldAfter(cs)[n]
<1> DEFINE after == ExecAfter(Genesis, cs)
           S == {n \in 0 .. Len(cs) : after[n].world = WorldAfter(cs)[n]}
<1>1. 0 \in S
    <2>1. after[0] = ExecStart(Genesis) /\ WorldAfter(cs)[0] = Genesis
        BY ExecSteps, WorldSteps
    <2> HIDE DEF after
    <2> QED
        BY <2>1 DEF ExecStart
<1>2. ASSUME NEW n \in 1 .. Len(cs), n - 1 \in S PROVE n \in S
    <2>1. after[n] = ExecFold(after[n - 1], cs[n])
        BY ExecSteps
    <2>2. WorldAfter(cs)[n] = Tx(cs[n], WorldAfter(cs)[n - 1], Cheats).world
        <3>1. WorldAfter(cs)[n] = CommitCall(WorldAfter(cs)[n - 1], cs[n])
            BY WorldSteps
        <3>2. CommitCall(WorldAfter(cs)[n - 1], cs[n]) = Tx(cs[n], WorldAfter(cs)[n - 1], Cheats).world
            BY ExecOne, Zenon
        <3> QED
            BY <3>1, <3>2
    <2>3. after[n - 1].world = WorldAfter(cs)[n - 1]
        BY <1>2
    <2> HIDE DEF after
    <2>4. after[n].world = Tx(cs[n], after[n - 1].world, after[n - 1].cheats).world
        BY <2>1 DEF ExecFold
    <2>5. after[n].world = WorldAfter(cs)[n]
        BY <2>2, <2>3, <2>4 DEF PlainHarness
    <2> QED
        BY <2>5
<1> HIDE DEF S
<1>3. \A n \in 0 .. Len(cs) : n \in S
    BY <1>1, <1>2, InductionUpTo
<1> QED
    BY <1>3 DEF S

\* So its last call reports what it reported in the campaign.
LEMMA ReplayIds ==
    ASSUME Harness, PlainHarness, NEW cs, Len(cs) \in Nat \ {0},
           \A i \in 1 .. Len(cs) : cs[i] \in HarnessCalls
    PROVE  LastIds(cs) = ResultIds(Tx(cs[Len(cs)], WorldAfter(cs)[Len(cs) - 1], Cheats))
<1> DEFINE L == Len(cs)
           rs == Exec(Genesis, cs).results
           before == ExecAfter(Genesis, cs)[L - 1]
<1>1. Len(rs) = L /\ rs[L] = Tx(cs[L], before.world, before.cheats)
    BY ExecIsList
<1>2. before.world = WorldAfter(cs)[L - 1]
    BY ReplayWorlds
<1>3. LastIds(cs) = ResultIds(rs[L])
    BY <1>1 DEF LastIds, Last, ResultIds
<1> HIDE DEF rs, before
<1> QED
    BY <1>1, <1>2, <1>3 DEF PlainHarness

\* The invariants all see the chain they were cloned from.
LEMMA InvariantsSeeTheChain ==
    ASSUME PlainHarness, NEW ch, NEW i \in 1 .. Len(Invariants)
    PROVE  ResultIds(InvariantTx(ch, i)) = ResultIds(Tx(Invariants[i], ch, Cheats))
<1> DEFINE after == ExecAfter(ch, Invariants)
           S == {n \in 0 .. Len(Invariants) : after[n].world = ch}
<1>0. /\ Len(Invariants) \in Nat /\ DOMAIN Invariants = 1 .. Len(Invariants)
      /\ \A n \in 1 .. Len(Invariants) : Invariants[n] \in HarnessCalls
    <2>1. IsList(Invariants)
        BY CampaignAssumption DEF IsList
    <2> QED
        BY <2>1, ListLength, InvariantsAreCalls
<1>1. 0 \in S
    <2>1. after[0] = ExecStart(ch)
        BY <1>0, ExecSteps
    <2> HIDE DEF after
    <2> QED
        BY <1>0, <2>1 DEF ExecStart
<1>2. ASSUME NEW n \in 1 .. Len(Invariants), n - 1 \in S PROVE n \in S
    <2>1. after[n] = ExecFold(after[n - 1], Invariants[n])
        BY <1>0, ExecSteps
    <2>2. after[n - 1].world = ch
        BY <1>2
    <2> HIDE DEF after
    <2>3. after[n].world = Tx(Invariants[n], ch, after[n - 1].cheats).world
        BY <2>1, <2>2 DEF ExecFold
    <2>4. after[n].world = ch
        BY <1>0, <2>3 DEF PlainHarness
    <2> QED
        BY <1>0, <2>4
<1> HIDE DEF S
<1>3. \A n \in 0 .. Len(Invariants) : n \in S
    BY <1>0, <1>1, <1>2, InductionUpTo
<1>4. after[i - 1].world = ch
    BY <1>0, <1>3 DEF S
<1>5. InvariantTx(ch, i) = Tx(Invariants[i], ch, after[i - 1].cheats)
    BY <1>4 DEF InvariantTx
<1> HIDE DEF after
<1> QED
    BY <1>0, <1>5 DEF PlainHarness

\* What a worker reports happens again when its calls are replayed.
LEMMA SeenReproduces ==
    ASSUME Harness, PlainHarness, Inv, NEW w \in Workers, NEW f, Seen(w, f)
    PROVE  f.id \in LastIds(f.calls)
<1> DEFINE cs == calls[w]
           ix == index[w]
           ps == Prefix(w)
<1>1. pc[w] \in {"report", "filter", "checked"}
    BY DEF Seen
<1>2. /\ ps \in Seq(Handlers) /\ Len(ps) = ix /\ ix \in 1 .. Len(cs)
      /\ \A i \in 1 .. ix : ps[i] = cs[i]
      /\ IsList(ps)
    BY <1>1, PrefixIsList
<1>3. cs \in Seq(Handlers) /\ Len(cs) \in Nat /\ ix \in Nat \ {0} /\ ix <= Len(cs)
    BY <1>2 DEF Inv, Typed
<1>4. WorkerOK(pc[w], cs, ix, chain[w], results[w])
    BY DEF Inv
<1> HIDE DEF cs, ix, ps
<1>5. \A i \in 1 .. Len(ps) : ps[i] \in HarnessCalls
    BY <1>2 DEF HarnessCalls
<1>6. CASE pc[w] \in {"report", "filter"}
    <2>1. f.id \in ResultIds(results[w][1]) /\ f.calls = ps
        BY <1>6 DEF Seen, ps
    <2>2. results[w][1] = Tx(cs[ix], WorldAfter(cs)[ix - 1], Cheats)
        BY <1>4, <1>6 DEF WorkerOK, HandlerResult
    <2>3. LastIds(ps) = ResultIds(Tx(ps[ix], WorldAfter(ps)[ix - 1], Cheats))
        BY <1>2, <1>3, <1>5, ReplayIds
    <2>4. ps[ix] = cs[ix]
        BY <1>2, <1>3
    <2>5. WorldAfter(ps)[ix - 1] = WorldAfter(cs)[ix - 1]
        <3>1. ix - 1 \in Nat /\ ix - 1 <= Len(ps) /\ ix - 1 <= Len(cs)
            BY <1>2, <1>3
        <3>2. \A i \in 1 .. ix - 1 : ps[i] = cs[i]
            BY <1>2, <1>3
        <3> QED
            BY <1>2, <1>3, <3>1, <3>2, WorldOfPrefix
    <2> QED
        BY <2>1, <2>2, <2>3, <2>4, <2>5
<1>7. CASE pc[w] = "checked"
    <2>1. PICK i \in DOMAIN results[w] :
             f.id \in ResultIds(results[w][i]) /\ f.calls = Append(ps, Invariants[i])
        BY <1>7 DEF Seen, ps
    <2>2. InvariantResults(chain[w], results[w]) /\ chain[w] = WorldAfter(cs)[ix]
        BY <1>4, <1>7 DEF WorkerOK
    <2>3. i \in 1 .. Len(Invariants)
        BY <2>2, ListLength DEF InvariantResults
    <2>4. f.id \in ResultIds(InvariantTx(chain[w], i))
        BY <2>1, <2>2, <2>3 DEF InvariantResults, ResultIds
    <2>5. f.id \in ResultIds(Tx(Invariants[i], chain[w], Cheats))
        BY <2>3, <2>4, InvariantsSeeTheChain
    <2> DEFINE ds == Append(ps, Invariants[i])
    <2>6. /\ Len(ds) = ix + 1 /\ ds[ix + 1] = Invariants[i]
          /\ \A j \in 1 .. ix : ds[j] = ps[j]
        BY <1>2, ListAppend
    <2> HIDE DEF ds
    <2>7. \A j \in 1 .. Len(ds) : ds[j] \in HarnessCalls
        BY <1>2, <1>3, <1>5, <2>3, <2>6, InvariantsAreCalls
    <2>8. Len(ds) \in Nat \ {0} /\ Len(ds) - 1 = ix
        BY <1>3, <2>6
    <2>9. LastIds(ds) = ResultIds(Tx(ds[Len(ds)], WorldAfter(ds)[Len(ds) - 1], Cheats))
        BY <2>7, <2>8, ReplayIds
    <2>10. WorldAfter(ds)[ix] = WorldAfter(cs)[ix]
        <3>1. ix \in Nat /\ ix <= Len(ds) /\ ix <= Len(cs) /\ Len(ds) \in Nat
            BY <1>3, <2>6
        <3>2. \A j \in 1 .. ix : ds[j] = cs[j]
            BY <1>2, <2>6
        <3> QED
            BY <1>3, <3>1, <3>2, WorldOfPrefix
    <2>11. LastIds(ds) = ResultIds(Tx(Invariants[i], chain[w], Cheats))
        BY <2>2, <2>6, <2>8, <2>9, <2>10
    <2> QED
        BY <2>1, <2>5, <2>11 DEF ds
<1> QED
    BY <1>1, <1>6, <1>7

\* Every step keeps the findings reproducible.
LEMMA NextReproduces ==
    ASSUME Harness, PlainHarness, Inv, FindingsReproduce, [Next]_vars
    PROVE  FindingsReproduce'
<1>1. ASSUME NEW i \in DOMAIN findings' PROVE findings'[i].id \in LastIds(findings'[i].calls)
    <2>1. CASE findings' = findings
        BY <2>1 DEF FindingsReproduce
    <2>2. CASE findings' # findings
        <3>0. PICK w \in Workers : \E f : TryAdd(f) /\ Seen(w, f)
            BY <2>2, FindingsStep
        <3>1. PICK f : TryAdd(f) /\ Seen(w, f)
            BY <3>0
        <3>2. findings'[i] = f \/ (i \in DOMAIN findings /\ findings'[i] = findings[i])
            BY <3>1, TryAddResult DEF Inv, FindingsTyped
        <3>3. f.id \in LastIds(f.calls)
            BY <3>1, SeenReproduces
        <3> QED
            BY <3>2, <3>3 DEF FindingsReproduce
    <2> QED
        BY <2>1, <2>2
<1> QED
    BY <1>1 DEF FindingsReproduce

\* With a harness that leaves no cheatcode state behind and whose invariants
\* do not write, a campaign keeps all its promises (CampaignSound): snapshots
\* extend their sequences, findings are distinct, reproduce on a clean chain
\* and are not lost, and the run budget is spent.
THEOREM CampaignIsSound ==
    ASSUME Harness, PlainHarness PROVE Spec => []CampaignSound
<1>1. Init => FindingsReproduce
    BY DEF Init, FindingsReproduce
<1>2. Inv /\ FindingsReproduce /\ [Next]_vars => FindingsReproduce'
    BY NextReproduces
<1>3. Spec => []FindingsReproduce
    BY <1>1, <1>2, CampaignInv, PTL DEF Spec
<1>4. TypeOK /\ SnapshotCoherent /\ FindingsReproduce /\ FindingsDistinct /\ NoReportLost /\ BudgetSpent
         => CampaignSound
    BY DEF CampaignSound
<1> QED
    BY <1>3, <1>4, SnapshotsAreCoherent, FindingsAreDistinct, ReportsAreKept, BudgetIsSpent, PTL
=============================================================================
