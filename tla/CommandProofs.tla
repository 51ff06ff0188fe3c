---------------------------- MODULE CommandProofs ---------------------------
(***************************************************************************)
(* Proofs about what surrounds a campaign: the shrinker that comes after   *)
(* it (TestShrinker), and what one command leaves on disk for the next,    *)
(* the corpus of TestCommand, the cache and the dependencies of Build.     *)
(***************************************************************************)
EXTENDS TestShrinker, TestCommand, Build, ProofBasics, TLAPS

(* Shrinking, for any harness, any number of shrinkers and any budget *)

\* Snapshots are of this finding, and what waits to be accepted reproduces it.
CandidatesReproduce ==
    \A w \in Workers :
        /\ snapshot[w].id = seed.id
        /\ pc[w] = "update" => Reproduces(candidate[w], seed.id)

\* The inductive invariant.
ShrinkInv ==
    /\ TypeOK
    /\ CandidatesReproduce
    /\ StillReproduces
    /\ ValidationsBounded

\* Deleting a chunk of a sequence of calls leaves a sequence of calls.
LEMMA WithoutType ==
    ASSUME NEW S, NEW s \in Seq(S), NEW from \in DOMAIN s, NEW to \in DOMAIN s
    PROVE  Without(s, from, to) \in Seq(S)
<1>1. /\ from \in 1 .. Len(s) /\ to \in 1 .. Len(s)
      /\ Len(s) \in Nat
    BY LenProperties
<1>2. SubSeq(s, 1, from - 1) \in Seq(S)
    BY <1>1, SubSeqProperties
<1>3. SubSeq(s, to + 1, Len(s)) \in Seq(S)
    BY <1>1, SubSeqProperties
<1> QED
    BY <1>2, <1>3, ConcatProperties DEF Without

\* The initial state satisfies the invariant.
LEMMA ShrinkStarts == Init => ShrinkInv
<1> SUFFICES ASSUME Init PROVE ShrinkInv
    OBVIOUS
<1> USE DEF Init
<1>0. seed \in Findings /\ current \in Findings
    BY SeedsAssumption
<1>1. TypeOK
    <2>1. <<>> \in Seq(Calls)
        BY EmptySeq
    <2>2. candidate \in [Workers -> Seq(Calls)]
        BY <2>1
    <2>3. snapshot \in [Workers -> Findings]
        BY <1>0
    <2>4. pc \in [Workers -> {"check", "cut", "attempt", "validate", "update", "done",
                              "failed"}]
        OBVIOUS
    <2> QED
        BY <1>0, <2>2, <2>3, <2>4 DEF TypeOK
<1>2. CandidatesReproduce /\ StillReproduces
    BY SeedsReproduce DEF CandidatesReproduce, StillReproduces
<1>3. ValidationsBounded
    BY MaxRunsAssumption DEF ValidationsBounded
<1> QED
    BY <1>1, <1>2, <1>3 DEF ShrinkInv

\* Every step preserves the invariant.
LEMMA ShrinkStep == ShrinkInv /\ [Next]_vars => ShrinkInv'
<1> SUFFICES ASSUME ShrinkInv, [Next]_vars PROVE ShrinkInv'
    OBVIOUS
<1> USE DEF ShrinkInv, Goto
<1>1. ASSUME NEW w \in Workers, Check(w) PROVE ShrinkInv'
    BY <1>1 DEF Check, TypeOK, CandidatesReproduce, StillReproduces, ValidationsBounded
<1>2. ASSUME NEW w \in Workers, Cut(w) PROVE ShrinkInv'
    <2> USE <1>2 DEF Cut
    <2>1. TypeOK'
        <3>1. candidate' \in [Workers -> Seq(Calls)]
            <4>1. CASE UNCHANGED candidate
                BY <4>1 DEF TypeOK
            <4>2. CASE \E from, to \in DOMAIN current.calls :
                          candidate' = [candidate EXCEPT ![w] =
                                           Without(current.calls, from, to)]
                <5> PICK from \in DOMAIN current.calls, to \in DOMAIN current.calls :
                        candidate' = [candidate EXCEPT ![w] =
                                         Without(current.calls, from, to)]
                    BY <4>2
                <5>1. current.calls \in Seq(Calls)
                    BY DEF TypeOK, Findings
                <5>2. Without(current.calls, from, to) \in Seq(Calls)
                    BY <5>1, WithoutType
                <5> QED
                    BY <5>2 DEF TypeOK
            <4> QED
                BY <4>1, <4>2
        <3> QED
            BY <3>1 DEF TypeOK
    <2>2. CandidatesReproduce'
        BY DEF TypeOK, CandidatesReproduce
    <2>3. StillReproduces' /\ ValidationsBounded'
        BY DEF StillReproduces, ValidationsBounded
    <2> QED
        BY <2>1, <2>2, <2>3
<1>3. ASSUME NEW w \in Workers, RecordAttempt(w) PROVE ShrinkInv'
    <2> USE <1>3 DEF RecordAttempt
    <2>1. TypeOK'
        <3>1. attempts' \in Nat /\ validated' \in Nat
            BY DEF TypeOK
        <3>2. pc' \in [Workers -> {"check", "cut", "attempt", "validate", "update",
                                  "done", "failed"}]
            BY DEF TypeOK
        <3> QED
            BY <3>1, <3>2 DEF TypeOK
    <2>2. CandidatesReproduce' /\ StillReproduces'
        BY DEF TypeOK, CandidatesReproduce, StillReproduces
    <2>3. ValidationsBounded'
        BY MaxRunsAssumption DEF TypeOK, ValidationsBounded
    <2> QED
        BY <2>1, <2>2, <2>3
<1>4. ASSUME NEW w \in Workers, Validate(w) PROVE ShrinkInv'
    <2> USE <1>4 DEF Validate
    <2>1. TypeOK'
        BY DEF TypeOK
    <2>2. CandidatesReproduce'
        BY DEF TypeOK, CandidatesReproduce
    <2>3. StillReproduces' /\ ValidationsBounded'
        BY DEF StillReproduces, ValidationsBounded
    <2> QED
        BY <2>1, <2>2, <2>3
<1>5. ASSUME NEW w \in Workers, Update(w) PROVE ShrinkInv'
    <2> USE <1>5 DEF Update
    <2>1. current' = current \/ current' = [snapshot[w] EXCEPT !.calls = candidate[w]]
        OBVIOUS
    <2>2. current' \in Findings /\ current'.id = seed.id
        BY <2>1 DEF TypeOK, CandidatesReproduce, Findings
    <2>3. TypeOK'
        BY <2>2 DEF TypeOK
    <2>4. CandidatesReproduce'
        BY DEF TypeOK, CandidatesReproduce
    <2>5. StillReproduces'
        <3>1. CASE current' = current
            BY <3>1 DEF StillReproduces
        <3>2. CASE current' = [snapshot[w] EXCEPT !.calls = candidate[w]]
            <4>1. current'.calls = candidate[w]
                BY <3>2 DEF TypeOK, Findings
            <4> QED
                BY <4>1 DEF CandidatesReproduce, StillReproduces
        <3> QED
            BY <2>1, <3>1, <3>2
    <2>6. ValidationsBounded'
        BY DEF ValidationsBounded
    <2> QED
        BY <2>3, <2>4, <2>5, <2>6
<1>6. ASSUME NEW w \in Workers, Fault(w) PROVE ShrinkInv'
    BY <1>6 DEF Fault, TypeOK, CandidatesReproduce, StillReproduces, ValidationsBounded
<1>7. CASE Timeout \/ UNCHANGED vars
    BY <1>7 DEF Timeout, vars, TypeOK, CandidatesReproduce, StillReproduces,
                ValidationsBounded
<1> QED
    BY <1>1, <1>2, <1>3, <1>4, <1>5, <1>6, <1>7 DEF Next, WorkerStep, Joined

\* The inductive invariant holds in every reachable state.
THEOREM ShrinkInvariance == Spec => []ShrinkInv
BY ShrinkStarts, ShrinkStep, PTL DEF Spec

\* Whatever the workers accept reproduces the finding, within the budget.
THEOREM ShrinkerIsSound == Spec => []ShrinkerSound
<1>1. ShrinkInv => ShrinkerSound
    BY DEF ShrinkInv, ShrinkerSound
<1> QED
    BY <1>1, ShrinkInvariance, PTL

\* Type correctness of the shrinker.
THEOREM ShrinkerTyped == Spec => []TypeOK
<1>1. ShrinkInv => TypeOK
    BY DEF ShrinkInv
<1> QED
    BY <1>1, ShrinkInvariance, PTL

\* What shrink_one returns reproduces the finding it was given.
THEOREM ShrunkReproduces == Spec => []StillReproduces
<1>1. ShrinkInv => StillReproduces
    BY DEF ShrinkInv
<1> QED
    BY <1>1, ShrinkInvariance, PTL

\* The budget bounds the replays of all workers together.
THEOREM BudgetHolds == Spec => []ValidationsBounded
<1>1. ShrinkInv => ValidationsBounded
    BY DEF ShrinkInv
<1> QED
    BY <1>1, ShrinkInvariance, PTL

\* The current sequence only changes to a strictly shorter one.
THEOREM OnlyShorter == Spec => LengthNeverIncreases
<1>1. ShrinkInv /\ [Next]_vars =>
          [current' # current => Len(current'.calls) < Len(current.calls)]_vars
    <2> SUFFICES ASSUME ShrinkInv, Next, current' # current
                 PROVE  Len(current'.calls) < Len(current.calls)
        OBVIOUS
    <2>1. PICK w \in Workers : Update(w)
        BY DEF Next, WorkerStep, Check, Cut, RecordAttempt, Validate, Fault, Timeout,
               Joined, vars
    <2>2. /\ current' = [snapshot[w] EXCEPT !.calls = candidate[w]]
          /\ Len(candidate[w]) < Len(current.calls)
        BY <2>1 DEF Update
    <2>3. current'.calls = candidate[w]
        BY <2>2 DEF ShrinkInv, TypeOK, Findings
    <2> QED
        BY <2>2, <2>3
<1> QED
    BY <1>1, ShrinkInvariance, PTL DEF Spec, LengthNeverIncreases
-----------------------------------------------------------------------------
(* Lists *)

\* Removing an element moves the later ones up.
LEMMA ListWithout ==
    ASSUME NEW s, IsList(s), NEW k \in DOMAIN s
    PROVE  /\ IsList(RemoveAt(s, k)) /\ Len(RemoveAt(s, k)) = Len(s) - 1
           /\ DOMAIN RemoveAt(s, k) = 1 .. Len(s) - 1
           /\ \A i \in 1 .. k - 1 : RemoveAt(s, k)[i] = s[i]
           /\ \A i \in k .. Len(s) - 1 : RemoveAt(s, k)[i] = s[i + 1]
<1>1. PICK T : s \in Seq(T)
    BY DEF IsList
<1>2. k \in 1 .. Len(s) /\ Len(s) \in Nat
    BY ListLength
<1> DEFINE a == SubSeq(s, 1, k - 1)
           b == SubSeq(s, k + 1, Len(s))
<1>3. /\ a \in Seq(T) /\ Len(a) = k - 1
      /\ \A i \in 1 .. k - 1 : a[i] = s[i]
    BY <1>1, <1>2
<1>4. /\ b \in Seq(T) /\ Len(b) = Len(s) - k
      /\ \A i \in 1 .. Len(s) - k : b[i] = s[k + i]
    BY <1>1, <1>2
<1>5. RemoveAt(s, k) = a \o b
    BY DEF RemoveAt
<1> HIDE DEF a, b
<1>6. /\ a \o b \in Seq(T) /\ Len(a \o b) = Len(s) - 1
      /\ \A i \in 1 .. k - 1 : (a \o b)[i] = a[i]
      /\ \A i \in k .. Len(s) - 1 : (a \o b)[i] = b[i - (k - 1)]
    BY <1>2, <1>3, <1>4
<1>7. ASSUME NEW i \in k .. Len(s) - 1 PROVE (a \o b)[i] = s[i + 1]
    <2>1. i - (k - 1) \in 1 .. Len(s) - k /\ k + (i - (k - 1)) = i + 1
        BY <1>2
    <2> QED
        BY <1>4, <1>6, <2>1
<1>8. DOMAIN (a \o b) = 1 .. Len(s) - 1
    BY <1>6
<1> QED
    BY <1>3, <1>5, <1>6, <1>7, <1>8 DEF IsList

\* Taking the elements at every position takes the whole list.
LEMMA ElementsAll ==
    ASSUME NEW s, IsList(s), NEW K, DOMAIN s \subseteq K
    PROVE  ElementsAt(s, K) = s
<1>1. PICK T : s \in Seq(T)
    BY DEF IsList
<1> DEFINE L == Len(s)
           U == ElementsUpto(s, K)
           S == {n \in 0 .. L : Len(U[n]) = n /\ \A i \in 1 .. n : U[n][i] = s[i]}
<1>2. /\ L \in Nat /\ DOMAIN s = 1 .. L /\ U[0] = <<>>
      /\ \A n \in 1 .. L : U[n] = TakeOrSkip(U[n - 1], n, s, K)
      /\ \A n \in 0 .. L : U[n] \in Seq(T)
      /\ ElementsAt(s, K) = U[L]
    BY <1>1, ElementsSteps, ElementsType
<1> HIDE DEF U
<1>3. 0 \in S
    BY <1>2
<1>4. ASSUME NEW n \in 1 .. L, n - 1 \in S PROVE n \in S
    <2> DEFINE u == U[n - 1]
    <2>1. u \in Seq(T) /\ Len(u) = n - 1 /\ \A i \in 1 .. n - 1 : u[i] = s[i]
        BY <1>2, <1>4
    <2>2. U[n] = Append(u, s[n])
        BY <1>2 DEF TakeOrSkip
    <2> HIDE DEF u
    <2>3. s[n] \in T
        BY <1>1, <1>2
    <2>4. Len(U[n]) = n /\ \A i \in 1 .. n - 1 : U[n][i] = u[i]
        BY <1>2, <2>1, <2>2, <2>3
    <2>5. U[n][n] = s[n]
        BY <1>2, <2>1, <2>2, <2>3
    <2> QED
        BY <2>1, <2>4, <2>5
<1> HIDE DEF S
<1>5. L \in S
    BY <1>2, <1>3, <1>4, InductionUpTo
<1>6. U[L] \in Seq(T) /\ Len(U[L]) = L /\ \A i \in 1 .. L : U[L][i] = s[i]
    BY <1>2, <1>5 DEF S
<1> DEFINE v == U[L]
<1>7. v \in Seq(T) /\ Len(v) = Len(s) /\ \A i \in 1 .. Len(s) : v[i] = s[i]
    BY <1>6
<1> HIDE DEF v
<1>8. v = s
    BY <1>1, <1>7
<1> QED
    BY <1>2, <1>8 DEF v
-----------------------------------------------------------------------------
(* The edges of a corpus *)

IsEntries(es) == IsList(es) /\ \A i \in DOMAIN es : es[i].edges \in Nat

EdgesOf(es) == [i \in 0 .. Len(es) - 1 |-> es[i + 1].edges]
EdgesUpto(es) == PartialSums(EdgesOf(es), Len(es))

\* The sum of the edges, entry by entry.
LEMMA SumByEntry ==
    ASSUME NEW es, IsEntries(es)
    PROVE  /\ Len(es) \in Nat /\ DOMAIN es = 1 .. Len(es)
           /\ EdgesUpto(es)[0] = 0
           /\ \A k \in 1 .. Len(es) : EdgesUpto(es)[k] = EdgesUpto(es)[k - 1] + es[k].edges
           /\ \A k \in 0 .. Len(es) : EdgesUpto(es)[k] \in Nat
           /\ Sum(es) = EdgesUpto(es)[Len(es)]
<1>1. Len(es) \in Nat /\ DOMAIN es = 1 .. Len(es)
    BY ListLength DEF IsEntries
<1>2. EdgesOf(es) \in [0 .. Len(es) - 1 -> Nat]
    BY <1>1 DEF EdgesOf, IsEntries
<1>3. \A k \in 1 .. Len(es) : EdgesOf(es)[k - 1] = es[k].edges
    BY <1>1 DEF EdgesOf
<1>4. Sum(es) = EdgesUpto(es)[Len(es)]
    BY DEF Sum, EdgesUpto, PartialSums, EdgesOf
<1>5. /\ EdgesUpto(es)[0] = 0
      /\ \A k \in 1 .. Len(es) : EdgesUpto(es)[k] = EdgesUpto(es)[k - 1] + EdgesOf(es)[k - 1]
      /\ \A k \in 0 .. Len(es) : EdgesUpto(es)[k] \in Nat
    BY <1>1, <1>2, SumSteps DEF EdgesUpto
<1> QED
    BY <1>1, <1>3, <1>4, <1>5

\* An empty corpus has none.
LEMMA SumOfEmpty == IsEntries(<<>>) /\ Sum(<<>>) = 0
<1>1. IsEntries(<<>>)
    BY EmptyList DEF IsEntries
<1> QED
    BY <1>1, SumByEntry

\* Appending an entry adds its edges.
LEMMA SumOfAppend ==
    ASSUME NEW es, IsEntries(es), NEW e, e.edges \in Nat
    PROVE  /\ IsEntries(Append(es, e))
           /\ Sum(Append(es, e)) = Sum(es) + e.edges
<1> DEFINE a == Append(es, e)
           L == Len(es)
           S == {k \in 0 .. L : EdgesUpto(a)[k] = EdgesUpto(es)[k]}
<1>1. L \in Nat /\ DOMAIN es = 1 .. L /\ IsList(es)
    BY SumByEntry DEF IsEntries
<1>0. L = Len(es)
    OBVIOUS
<1>2. IsList(a) /\ Len(a) = L + 1 /\ DOMAIN a = 1 .. L + 1 /\ a[L + 1] = e /\ \A i \in 1 .. L : a[i] = es[i]
    BY <1>1, ListAppend, ListLength
<1> HIDE DEF a, L
<1>3. IsEntries(a)
    BY <1>1, <1>2 DEF IsEntries
<1>4. 0 \in S
    BY <1>0, <1>1, <1>3, SumByEntry
<1>5. ASSUME NEW k \in 1 .. L, k - 1 \in S PROVE k \in S
    <2>0. k \in 1 .. Len(a)
        BY <1>1, <1>2
    <2>1. EdgesUpto(a)[k] = EdgesUpto(a)[k - 1] + a[k].edges
        BY <1>3, <2>0, SumByEntry
    <2>2. EdgesUpto(es)[k] = EdgesUpto(es)[k - 1] + es[k].edges
        BY <1>0, <1>1, SumByEntry
    <2> QED
        BY <1>2, <1>5, <2>1, <2>2
<1> HIDE DEF S
<1>6. L \in S
    <2>1. \A k \in 0 .. L : k \in S
        BY <1>1, <1>4, <1>5, InductionUpTo
    <2> QED
        BY <1>1, <2>1
<1>7. Sum(a) = EdgesUpto(a)[L] + e.edges
    <2>1. Sum(a) = EdgesUpto(a)[L + 1] /\ EdgesUpto(a)[L + 1] = EdgesUpto(a)[(L + 1) - 1] + a[L + 1].edges
        BY <1>1, <1>2, <1>3, SumByEntry
    <2> QED
        BY <1>1, <1>2, <2>1
<1>8. Sum(es) = EdgesUpto(es)[L]
    BY <1>0, SumByEntry
<1>9. Sum(a) = Sum(es) + e.edges
    BY <1>6, <1>7, <1>8 DEF S
<1> QED
    BY <1>3, <1>9 DEF a

\* Removing an entry removes its edges.
LEMMA SumOfRemove ==
    ASSUME NEW es, IsEntries(es), NEW w \in DOMAIN es
    PROVE  /\ IsEntries(RemoveAt(es, w))
           /\ Sum(RemoveAt(es, w)) = Sum(es) - es[w].edges
<1> DEFINE r == RemoveAt(es, w)
           L == Len(es)
           E == EdgesUpto(es)
           R == EdgesUpto(r)
           S == {k \in 0 .. L - 1 : R[k] = IF k < w THEN E[k] ELSE E[k + 1] - es[w].edges}
<1>1. /\ L \in Nat /\ DOMAIN es = 1 .. L /\ IsList(es) /\ w \in 1 .. L
      /\ \A i \in 1 .. L : es[i].edges \in Nat
    BY SumByEntry DEF IsEntries
<1>0. L = Len(es)
    OBVIOUS
<1>2. /\ IsList(r) /\ Len(r) = L - 1 /\ DOMAIN r = 1 .. L - 1
      /\ \A i \in 1 .. w - 1 : r[i] = es[i]
      /\ \A i \in w .. L - 1 : r[i] = es[i + 1]
    BY <1>1, ListWithout
<1> HIDE DEF r, L
<1>3. IsEntries(r)
    <2> SUFFICES ASSUME NEW i \in 1 .. L - 1 PROVE r[i].edges \in Nat
        BY <1>2 DEF IsEntries
    <2>1. \/ i \in 1 .. w - 1 /\ i \in 1 .. L
          \/ i \in w .. L - 1 /\ i + 1 \in 1 .. L
        BY <1>1
    <2> QED
        BY <1>1, <1>2, <2>1
<1>4. /\ E[0] = 0 /\ \A k \in 1 .. L : E[k] = E[k - 1] + es[k].edges
      /\ \A k \in 0 .. L : E[k] \in Nat
      /\ Sum(es) = E[L]
    BY <1>0, SumByEntry
<1>5. /\ R[0] = 0 /\ \A k \in 1 .. L - 1 : R[k] = R[k - 1] + r[k].edges
      /\ Sum(r) = R[L - 1]
    BY <1>2, <1>3, SumByEntry
<1> HIDE DEF E, R
<1>6. 0 \in S
    BY <1>1, <1>4, <1>5
<1>7. ASSUME NEW k \in 1 .. L - 1, k - 1 \in S PROVE k \in S
    <2>0. /\ k \in 1 .. L /\ k + 1 \in 1 .. L /\ (k + 1) - 1 = k /\ (k - 1) + 1 = k
          /\ k - 1 \in 0 .. L /\ k \in 0 .. L /\ k \in 0 .. L - 1
        BY <1>1
    <2>1. /\ E[k] = E[k - 1] + es[k].edges /\ E[k + 1] = E[(k + 1) - 1] + es[k + 1].edges
          /\ E[k - 1] \in Nat /\ E[k] \in Nat /\ es[k].edges \in Nat /\ es[k + 1].edges \in Nat
          /\ es[w].edges \in Nat
        BY <1>1, <1>4, <2>0
    <2>2. E[k + 1] = E[k] + es[k + 1].edges
        BY <2>0, <2>1
    <2>3. R[k] = R[k - 1] + r[k].edges
        BY <1>5
    <2>4. R[k - 1] = IF k - 1 < w THEN E[k - 1] ELSE E[k] - es[w].edges
        BY <1>7, <2>0
    <2>5. k < w => r[k] = es[k]
        <3>1. k < w => k \in 1 .. w - 1
            BY <1>1, <2>0
        <3> QED
            BY <1>2, <3>1
    <2>6. ~(k < w) => r[k] = es[k + 1]
        BY <1>1, <1>2, <2>0
    <2>7. R[k] = IF k < w THEN E[k] ELSE E[k + 1] - es[w].edges
        <3>1. CASE k < w
            BY <1>1, <2>0, <2>1, <2>3, <2>4, <2>5, <3>1
        <3>2. CASE k = w
            <4>1. R[k - 1] = E[k - 1] /\ R[k] = R[k - 1] + es[k + 1].edges
                BY <1>1, <2>0, <2>3, <2>4, <2>6, <3>2
            <4>2. es[k].edges = es[w].edges
                BY <3>2
            <4>3. R[k] = E[k + 1] - es[w].edges
                BY <2>1, <2>2, <4>1, <4>2
            <4> QED
                BY <1>1, <3>2, <4>3
        <3>3. CASE k > w
            <4>1. R[k - 1] = E[k] - es[w].edges /\ R[k] = R[k - 1] + es[k + 1].edges
                BY <1>1, <2>0, <2>3, <2>4, <2>6, <3>3
            <4>2. R[k] = E[k + 1] - es[w].edges
                BY <2>1, <2>2, <4>1
            <4> QED
                BY <1>1, <3>3, <4>2
        <3> QED
            BY <1>1, <2>0, <3>1, <3>2, <3>3
    <2> QED
        BY <2>0, <2>7
<1> HIDE DEF S
<1>8. L - 1 \in S
    <2>1. L - 1 \in Nat /\ L - 1 \in 0 .. L - 1
        BY <1>1
    <2>2. \A k \in 0 .. L - 1 : k \in S
        BY <1>6, <1>7, <2>1, InductionUpTo
    <2> QED
        BY <2>1, <2>2
<1>9. Sum(r) = Sum(es) - es[w].edges
    <2>1. R[L - 1] = IF L - 1 < w THEN E[L - 1] ELSE E[L] - es[w].edges
        BY <1>1, <1>8 DEF S
    <2>2. E[L] = E[L - 1] + es[L].edges /\ E[L - 1] \in Nat /\ es[L].edges \in Nat
        BY <1>1, <1>4
    <2> QED
        BY <1>1, <1>4, <1>5, <2>1, <2>2
<1> QED
    BY <1>3, <1>9 DEF r
-----------------------------------------------------------------------------
(* The corpus of a command *)

\* A corpus that is not empty has a first weakest entry.
LEMMA WeakestExists ==
    ASSUME NEW es, IsEntries(es), Len(es) > 0
    PROVE  Weakest(es) \in DOMAIN es
<1>0. Len(es) \in Nat /\ DOMAIN es = 1 .. Len(es) /\ \A i \in DOMAIN es : es[i].edges \in Nat
    BY SumByEntry DEF IsEntries
<1> DEFINE T == {es[i].edges : i \in DOMAIN es}
<1>1. PICK m \in T : \A n \in T : m <= n
    <2>1. T \in SUBSET Nat /\ T # {}
        BY <1>0
    <2> HIDE DEF T
    <2> QED
        BY <2>1, LeastNatural
<1> DEFINE I == {i \in DOMAIN es : es[i].edges = m}
<1>2. PICK k \in I : \A n \in I : k <= n
    <2>1. I \in SUBSET Nat /\ I # {}
        BY <1>0
    <2> HIDE DEF I
    <2> QED
        BY <2>1, LeastNatural
<1>3. ASSUME NEW j \in DOMAIN es
      PROVE  es[k].edges < es[j].edges \/ (es[k].edges = es[j].edges /\ k <= j)
    <2>1. es[k].edges \in Nat /\ es[j].edges \in Nat /\ es[k].edges = m /\ m <= es[j].edges
        BY <1>0, <1>1, <1>2
    <2>2. es[j].edges = m => k <= j
        BY <1>2
    <2> QED
        BY <2>1, <2>2
<1>4. k \in DOMAIN es
    BY <1>2
<1> HIDE DEF I, T
<1> QED
    BY <1>3, <1>4, Zenon DEF Weakest

\* What adding an entry to a corpus makes of it.
LEMMA AddedIs ==
    ASSUME NEW es, IsEntries(es), Len(es) <= MaxEntries, NEW e, e.edges \in Nat
    PROVE  /\ IsEntries(Added(es, e)) /\ Len(Added(es, e)) <= MaxEntries
           /\ Sum(Added(es, e)) <= Sum(es) + e.edges
           /\ \A i \in DOMAIN Added(es, e) :
                 Added(es, e)[i] = e \/ \E j \in DOMAIN es : Added(es, e)[i] = es[j]
<1> DEFINE a == Added(es, e)
<1>0. /\ Len(es) \in Nat /\ DOMAIN es = 1 .. Len(es) /\ IsList(es)
      /\ Sum(es) \in Nat /\ MaxEntries \in Nat \ {0}
    BY SumByEntry, CommandAssumption DEF IsEntries
<1>1. ASSUME NEW s, IsEntries(s), Len(s) < MaxEntries, a = Append(s, e), Sum(s) <= Sum(es),
             \A i \in DOMAIN s : \E j \in DOMAIN es : s[i] = es[j]
      PROVE  /\ IsEntries(a) /\ Len(a) <= MaxEntries
             /\ Sum(a) <= Sum(es) + e.edges
             /\ \A i \in DOMAIN a : a[i] = e \/ \E j \in DOMAIN es : a[i] = es[j]
    <2> HIDE DEF a
    <2>1. IsList(s) /\ Len(s) \in Nat /\ DOMAIN s = 1 .. Len(s) /\ Sum(s) \in Nat
        BY <1>1, SumByEntry DEF IsEntries
    <2>2. IsEntries(a) /\ Sum(a) = Sum(s) + e.edges
        BY <1>1, SumOfAppend
    <2>3. Len(a) = Len(s) + 1 /\ a[Len(s) + 1] = e /\ \A i \in 1 .. Len(s) : a[i] = s[i]
        BY <1>1, <2>1, ListAppend
    <2>4. DOMAIN a = 1 .. Len(s) + 1
        BY <2>2, <2>3, SumByEntry
    <2>5. ASSUME NEW i \in DOMAIN a PROVE a[i] = e \/ \E j \in DOMAIN es : a[i] = es[j]
        <3>1. i = Len(s) + 1 \/ i \in 1 .. Len(s)
            BY <2>1, <2>4
        <3> QED
            BY <1>1, <2>1, <2>3, <3>1
    <2> QED
        BY <1>0, <1>1, <2>1, <2>2, <2>3, <2>5
<1>2. CASE Len(es) < MaxEntries
    <2>1. a = Append(es, e)
        BY <1>2 DEF Added
    <2> HIDE DEF a
    <2> QED
        BY <1>0, <1>1, <1>2, <2>1 DEF a
<1>3. CASE ~(Len(es) < MaxEntries) /\ e.edges >= es[Weakest(es)].edges
    <2> DEFINE w == Weakest(es)
               s == RemoveAt(es, w)
    <2>1. w \in DOMAIN es
        BY <1>0, <1>3, WeakestExists
    <2>2. a = Append(s, e)
        BY <1>3 DEF Added
    <2> HIDE DEF w
    <2>3. IsEntries(s) /\ Sum(s) = Sum(es) - es[w].edges /\ es[w].edges \in Nat
        BY <2>1, SumOfRemove DEF IsEntries
    <2>4. Len(s) = Len(es) - 1 /\ \A i \in DOMAIN s : \E j \in DOMAIN es : s[i] = es[j]
        BY <1>0, <2>1, ListRemove
    <2> HIDE DEF a, s
    <2>5. Sum(s) <= Sum(es) /\ Len(s) < MaxEntries
        BY <1>0, <2>3, <2>4
    <2> QED
        BY <1>1, <2>2, <2>3, <2>4, <2>5 DEF a
<1>4. CASE ~(Len(es) < MaxEntries) /\ ~(e.edges >= es[Weakest(es)].edges)
    <2>1. a = es
        BY <1>4 DEF Added
    <2> QED
        BY <1>0, <2>1
<1> QED
    BY <1>2, <1>3, <1>4

\* Loading a file of entries that all decode loads it whole.
LEMMA LoadsAll ==
    ASSUME NEW h, NEW v, NEW es, IsList(es), \A i \in DOMAIN es : es[i].seq \in Decodes(h, v)
    PROVE  ResolvedCalls(h, v, es) = es
<1>1. DOMAIN es \subseteq {i \in DOMAIN es : es[i].seq \in Decodes(h, v)}
    OBVIOUS
<1> QED
    BY <1>1, ElementsAll DEF ResolvedCalls

\* What is loaded decodes.
LEMMA LoadedDecode ==
    ASSUME NEW h, NEW v, NEW es, IsList(es)
    PROVE  /\ IsList(ResolvedCalls(h, v, es))
           /\ \A i \in DOMAIN ResolvedCalls(h, v, es) :
                 /\ ResolvedCalls(h, v, es)[i].seq \in Decodes(h, v)
                 /\ \E j \in DOMAIN es : ResolvedCalls(h, v, es)[i] = es[j]
<1>1. PICK T : es \in Seq(T)
    BY DEF IsList
<1> DEFINE K == {i \in DOMAIN es : es[i].seq \in Decodes(h, v)}
<1>0. K \in SUBSET DOMAIN es /\ \A k \in K : es[k].seq \in Decodes(h, v)
    OBVIOUS
<1>3. ResolvedCalls(h, v, es) = ElementsAt(es, K)
    BY DEF ResolvedCalls
<1> HIDE DEF K
<1>2. /\ ElementsAt(es, K) \in Seq(T)
      /\ \A i \in DOMAIN ElementsAt(es, K) : \E k \in K : ElementsAt(es, K)[i] = es[k]
    BY <1>0, <1>1, ElementsAre
<1> QED
    BY <1>0, <1>2, <1>3 DEF IsList
-----------------------------------------------------------------------------
(* The state of a command *)

Phases == {"idle", "deploy", "setup", "load", "replay", "fuzz", "rescue", "shrink", "save",
           "write", "rescue write", "report", "coverage", "stats"}

\* A list of entries of sequences the harness h can run at v
Runs(h, v, es) == IsList(es) /\ \A i \in DOMAIN es : es[i].seq \in Seqs /\ es[i].seq \in Decodes(h, v)

FileOK(f) ==
    \/ f = Absent \/ f = Torn
    \/ /\ f = Document(f.version, f.entries)
       /\ IsList(f.entries)
       /\ \A i \in DOMAIN f.entries : f.entries[i].seq \in Seqs

CommandTypes ==
    /\ version \in [Harnesses -> Versions]
    /\ \A k \in Keys : FileOK(files[k])
    /\ DOMAIN files = Keys /\ DOMAIN saved = Harnesses
    /\ harness \in Harnesses /\ phase \in Phases
    /\ runs \in Nat

\* The corpus and what is left to replay hold sequences the harness can run.
CorpusRuns ==
    /\ Runs(harness, version[harness], corpus) /\ Len(corpus) <= MaxEntries
    /\ \A i \in DOMAIN corpus : corpus[i].edges \in Nat
    /\ Runs(harness, version[harness], todo)
    /\ phase # "replay" => todo = <<>>
    /\ phase \in {"idle", "deploy", "setup", "load"} => corpus = <<>>

\* The map holds the coverage of the deployment from its execution on.
CoverageGrows ==
    phase \notin {"idle", "deploy", "setup"} =>
        Baseline(harness, version[harness]) \subseteq coverage /\ IsFiniteSet(coverage)

CommandInv == CommandTypes /\ CorpusRuns /\ CoverageGrows /\ EdgesCreditedOnce

\* What a harness saved last is in its file.
SavedIsThere ==
    \A h \in Harnesses : saved[h].complete =>
        /\ files[FileKey(h)] = Document(CorpusVersion, files[FileKey(h)].entries)
        /\ Runs(h, saved[h].v, files[FileKey(h)].entries)
        /\ Len(files[FileKey(h)].entries) <= MaxEntries
        /\ saved[h].seqs = SeqsOf(files[FileKey(h)].entries)

Resumes == saved[harness].complete /\ saved[harness].v = version[harness]

\* The replayed part of the saved sequences, and the part that is left.
ReplayResumes ==
    phase = "replay" /\ Resumes =>
        /\ Len(corpus) + Len(todo) <= MaxEntries
        /\ saved[harness].seqs = [i \in 1 .. Len(corpus) + Len(todo) |-> saved[harness].seqs[i]]
        /\ \A i \in 1 .. Len(corpus) :
              /\ corpus[i].seq = saved[harness].seqs[i] /\ corpus[i].chain
              /\ Covers(harness, version[harness], corpus[i].seq) \subseteq coverage
        /\ \A i \in 1 .. Len(todo) : todo[i].seq = saved[harness].seqs[Len(corpus) + i]

ResumeInv == SavedIsThere /\ ReplayResumes /\ NextRunResumes

\* What a command that ends leaves is the state between commands.
LEMMA EndIsFresh ==
    ASSUME CommandInv, End, UNCHANGED <<version, harness>>,
           DOMAIN files' = Keys, \A k \in Keys : FileOK(files'[k]), DOMAIN saved' = Harnesses
    PROVE  CommandInv'
<1>1. /\ phase' = "idle" /\ corpus' = <<>> /\ todo' = <<>> /\ runs' = 0
      /\ version' = version /\ harness' = harness
    BY DEF End
<1>2. CommandTypes'
    BY <1>1 DEF CommandInv, CommandTypes, Phases
<1>3. CorpusRuns'
    <2>1. Runs(harness', version'[harness'], corpus') /\ Len(corpus') <= MaxEntries
        BY <1>1, EmptyList, CommandAssumption DEF Runs
    <2> QED
        BY <1>1, <2>1 DEF CorpusRuns, Runs
<1>4. CoverageGrows' /\ EdgesCreditedOnce'
    BY <1>1 DEF CoverageGrows, EdgesCreditedOnce
<1> QED
    BY <1>2, <1>3, <1>4 DEF CommandInv

\* Adding the entry of an executed sequence, with the edges it added to the
\* map or fewer, leaves a corpus whose edges the map has.
LEMMA AddingKeeps ==
    ASSUME CommandInv, phase \notin {"idle", "deploy", "setup"},
           NEW e, e.seq \in Seqs, e.seq \in Decodes(harness, version[harness]),
           NEW gained, IsFiniteSet(gained), gained \cap coverage = {},
           e.edges = Cardinality(gained),
           version' = version, harness' = harness,
           coverage' = coverage \union gained,
           corpus' = Added(corpus, e) \/ corpus' = corpus
    PROVE  /\ Runs(harness', version'[harness'], corpus') /\ Len(corpus') <= MaxEntries
           /\ \A i \in DOMAIN corpus' : corpus'[i].edges \in Nat
           /\ CoverageGrows' /\ EdgesCreditedOnce'
<1> DEFINE B == Baseline(harness, version[harness])
<1>1. /\ Runs(harness, version[harness], corpus) /\ Len(corpus) <= MaxEntries
      /\ \A i \in DOMAIN corpus : corpus[i].edges \in Nat
      /\ B \subseteq coverage /\ IsFiniteSet(coverage)
      /\ Sum(corpus) <= Cardinality(coverage \ B)
    BY DEF CommandInv, CorpusRuns, CoverageGrows, EdgesCreditedOnce
<1>2. e.edges \in Nat /\ IsEntries(corpus)
    BY <1>1, FS_CardinalityType DEF IsEntries, Runs
<1>3. Sum(corpus) \in Nat
    BY <1>2, SumByEntry
<1>4. /\ coverage' \ B = (coverage \ B) \union gained /\ (coverage \ B) \cap gained = {}
      /\ B \subseteq coverage'
    BY <1>1
<1>5. IsFiniteSet(coverage') /\ IsFiniteSet(coverage \ B)
    BY <1>1, FS_Union, FS_Subset
<1>6. Cardinality(coverage' \ B) = Cardinality(coverage \ B) + e.edges /\ Cardinality(coverage \ B) \in Nat
    <2> DEFINE C == coverage \ B
    <2>1. IsFiniteSet(C) /\ coverage' \ B = C \union gained /\ C \cap gained = {}
        BY <1>4, <1>5
    <2> HIDE DEF C
    <2>2. Cardinality(C \union gained) = Cardinality(C) + Cardinality(gained) - Cardinality(C \cap gained)
        BY <2>1, FS_Union
    <2>3. Cardinality(C) \in Nat /\ Cardinality(gained) \in Nat /\ Cardinality(C \cap gained) = 0
        BY <2>1, FS_CardinalityType, FS_EmptySet
    <2>5. Cardinality(C \union gained) = Cardinality(C) + Cardinality(gained)
        BY <2>2, <2>3
    <2>4. Cardinality(coverage' \ B) = Cardinality(C) + e.edges /\ Cardinality(C) \in Nat
        BY <2>1, <2>3, <2>5, Zenon
    <2> QED
        BY <2>4 DEF C
<1>7. CoverageGrows'
    BY <1>4, <1>5 DEF CoverageGrows
<1>8. /\ IsEntries(corpus') /\ Len(corpus') <= MaxEntries /\ Sum(corpus') <= Sum(corpus) + e.edges
      /\ \A i \in DOMAIN corpus' : corpus'[i] = e \/ \E j \in DOMAIN corpus : corpus'[i] = corpus[j]
    <2>1. CASE corpus' = corpus
        BY <1>1, <1>2, <1>3, <2>1
    <2>2. CASE corpus' = Added(corpus, e)
        BY <1>1, <1>2, <2>2, AddedIs
    <2> QED
        BY <2>1, <2>2
<1>9. Sum(corpus') \in Nat
    BY <1>8, SumByEntry
<1>10. EdgesCreditedOnce'
    BY <1>1, <1>2, <1>3, <1>6, <1>8, <1>9 DEF EdgesCreditedOnce
<1>11. Runs(harness', version'[harness'], corpus')
    BY <1>1, <1>8 DEF Runs, IsEntries
<1>12. \A i \in DOMAIN corpus' : corpus'[i].edges \in Nat
    BY <1>8 DEF IsEntries
<1> QED
    BY <1>7, <1>8, <1>10, <1>11, <1>12

\* Between its steps a command leaves the harness, the files and the corpus
\* alone except where it says so.
Quiet == UNCHANGED <<version, files, harness, corpus, todo, coverage, saved>>

\* A step that only moves on keeps the invariant.
LEMMA MovingOnKeeps ==
    ASSUME CommandInv, Quiet, phase' \in Phases, runs' \in Nat,
           phase \notin {"idle", "deploy", "setup"}, phase' \notin {"idle", "deploy", "setup", "load", "replay"},
           todo = <<>>
    PROVE  CommandInv'
<1> USE DEF Quiet, CommandInv
<1>1. CommandTypes'
    BY DEF CommandTypes
<1>2. CorpusRuns'
    BY DEF CorpusRuns, Runs
<1>3. CoverageGrows' /\ EdgesCreditedOnce'
    BY DEF CoverageGrows, EdgesCreditedOnce
<1> QED
    BY <1>1, <1>2, <1>3

\* What is written is a file.
LEMMA WrittenIsFile ==
    ASSUME NEW h, NEW v, NEW es, Runs(h, v, es)
    PROVE  /\ FileOK(Written(es)) /\ Written(es) = Document(CorpusVersion, Written(es).entries)
           /\ Runs(h, v, Written(es).entries) /\ Len(Written(es).entries) = Len(es)
           /\ SeqsOf(Written(es).entries) = SeqsOf(es)
<1> DEFINE w == Saved(es)
<1>1. IsList(es) /\ Len(es) \in Nat /\ DOMAIN es = 1 .. Len(es)
    BY ListLength DEF Runs
<1>2. w = [i \in DOMAIN es |-> w[i]] /\ \A i \in DOMAIN es : w[i].seq = es[i].seq
    BY DEF Saved
<1>3. DOMAIN w = DOMAIN es
    BY DEF Saved
<1>4. Written(es).entries = w /\ Written(es) = Document(CorpusVersion, w) /\ Written(es).version = CorpusVersion
    BY DEF Written, Document
<1> HIDE DEF w
<1>5. IsList(w) /\ Len(w) = Len(es)
    BY <1>1, <1>2, ListReplace
<1>6. Runs(h, v, w)
    BY <1>2, <1>3, <1>5 DEF Runs
<1>7. FileOK(Written(es))
    BY <1>4, <1>6 DEF FileOK, Runs
<1>8. SeqsOf(w) = SeqsOf(es)
    BY <1>2, <1>3 DEF SeqsOf
<1> QED
    BY <1>4, <1>5, <1>6, <1>7, <1>8

\* Every step of a command keeps the invariant.
LEMMA CommandStep ==
    ASSUME CommandInv, [CommandNext]_commandVars
    PROVE  CommandInv'
<1>0. CommandTypes /\ CorpusRuns /\ CoverageGrows /\ EdgesCreditedOnce
    BY DEF CommandInv
<1>1. ASSUME phase = "idle", phase' \in {"idle", "deploy"}, version' \in [Harnesses -> Versions], harness' \in Harnesses,
             \A k \in Keys : FileOK(files'[k]), DOMAIN files' = Keys, DOMAIN saved' = Harnesses,
             UNCHANGED <<corpus, todo, coverage, runs>>
      PROVE  CommandInv'
    <2>1. CommandTypes'
        BY <1>0, <1>1 DEF CommandTypes, Phases
    <2>2. CorpusRuns'
        <3>1. corpus' = <<>> /\ todo' = <<>>
            BY <1>0, <1>1 DEF CorpusRuns
        <3>2. Runs(harness', version'[harness'], <<>>) /\ Len(corpus') <= MaxEntries
            BY <3>1, EmptyList, CommandAssumption DEF Runs
        <3> QED
            BY <3>1, <3>2 DEF CorpusRuns, Runs
    <2>3. CoverageGrows' /\ EdgesCreditedOnce'
        BY <1>1 DEF CoverageGrows, EdgesCreditedOnce
    <2> QED
        BY <2>1, <2>2, <2>3 DEF CommandInv
<1>2. ASSUME NEW h \in Harnesses, EditHarness(h) PROVE CommandInv'
    <2>1. version' \in [Harnesses -> Versions]
        BY <1>0, <1>2 DEF EditHarness, CommandTypes
    <2> QED
        BY <1>0, <1>1, <1>2, <2>1 DEF EditHarness, CommandTypes, campaign
<1>3. ASSUME NEW h \in Harnesses, Start(h) PROVE CommandInv'
    BY <1>0, <1>1, <1>3 DEF Start, CommandTypes, campaign
<1>4. ASSUME NEW k \in Keys, Delete(k) PROVE CommandInv'
    <2>1. \A j \in Keys : FileOK(files'[j])
        BY <1>0, <1>4 DEF Delete, CommandTypes, FileOK
    <2>2. DOMAIN files' = Keys /\ DOMAIN saved' = Harnesses
        BY <1>0, <1>4 DEF Delete, CommandTypes
    <2> QED
        BY <1>0, <1>1, <1>4, <2>1, <2>2 DEF Delete, CommandTypes, campaign
<1>5. ASSUME phase \in {"deploy", "setup"}, UNCHANGED <<kept, harness, corpus, todo, runs>>,
             \/ phase' = "setup"
             \/ phase' = "load" /\ coverage' = Baseline(harness, version[harness])
      PROVE  CommandInv'
    <2>1. /\ UNCHANGED <<version, files, saved, harness, corpus, todo, runs>>
          /\ corpus' = <<>> /\ todo' = <<>>
        BY <1>0, <1>5 DEF kept, CorpusRuns
    <2>2. CommandTypes'
        BY <1>0, <1>5, <2>1 DEF CommandTypes, Phases
    <2>3. CorpusRuns'
        BY <1>0, <1>5, <2>1 DEF CorpusRuns, Runs
    <2>4. phase' = "load" => /\ coverage' = Baseline(harness', version'[harness'])
                             /\ IsFiniteSet(coverage')
        BY <1>0, <1>5, <2>1, FiniteCoverage DEF CommandTypes
    <2>5. CoverageGrows'
        BY <1>5, <2>4 DEF CoverageGrows
    <2>6. EdgesCreditedOnce'
        <3> SUFFICES ASSUME phase' = "load"
                     PROVE  Sum(corpus') <= Cardinality(coverage' \ Baseline(harness', version'[harness']))
            BY <1>5 DEF EdgesCreditedOnce
        <3>1. coverage' \ Baseline(harness', version'[harness']) = {}
            BY <2>4
        <3> QED
            BY <2>1, <3>1, SumOfEmpty, FS_EmptySet
    <2> QED
        BY <2>2, <2>3, <2>5, <2>6 DEF CommandInv
<1>6. CASE Deploy
    BY <1>5, <1>6 DEF Deploy
<1>7. CASE Setup
    BY <1>5, <1>7 DEF Setup
<1>8. CASE Load
    <2> DEFINE f == files[CorpusKey]
    <2>0. CorpusKey \in Keys
        BY <1>0 DEF CommandTypes, CorpusKey, Keys
    <2>1. /\ phase = "load" /\ phase' = "replay" /\ UNCHANGED <<version, files, saved, harness, corpus, coverage, runs>>
        BY <1>8 DEF Load, kept
    <2>2. Runs(harness, version[harness], todo')
        <3>1. CASE f # Absent /\ f.version = CorpusVersion
            <4>1. todo' = ResolvedCalls(harness, version[harness], f.entries)
                BY <1>8, <3>1 DEF Load
            <4>2. f # Torn
                BY <1>8 DEF Load
            <4>3. FileOK(f)
                BY <1>0, <2>0 DEF CommandTypes
            <4>4. IsList(f.entries) /\ \A i \in DOMAIN f.entries : f.entries[i].seq \in Seqs
                BY <3>1, <4>2, <4>3 DEF FileOK
            <4> HIDE DEF f
            <4>5. IsList(todo') /\ \A i \in DOMAIN todo' :
                     /\ todo'[i].seq \in Decodes(harness, version[harness])
                     /\ \E j \in DOMAIN f.entries : todo'[i] = f.entries[j]
                BY <4>1, <4>4, LoadedDecode
            <4> QED
                BY <4>4, <4>5 DEF Runs
        <3>2. CASE ~(f # Absent /\ f.version = CorpusVersion)
            <4>1. todo' = <<>>
                BY <1>8, <3>2 DEF Load
            <4> QED
                BY <4>1, EmptyList DEF Runs
        <3> QED
            BY <3>1, <3>2
    <2>3. CommandTypes'
        BY <1>0, <2>1 DEF CommandTypes, Phases
    <2>4. CorpusRuns'
        BY <1>0, <2>1, <2>2 DEF CorpusRuns, Runs
    <2>5. CoverageGrows' /\ EdgesCreditedOnce'
        BY <1>0, <2>1 DEF CoverageGrows, EdgesCreditedOnce
    <2> QED
        BY <2>3, <2>4, <2>5 DEF CommandInv
<1>9. CASE Replay
    <2> DEFINE e == Head(todo)
               all == Covers(harness, version[harness], e.seq)
               new == [seq |-> e.seq, chain |-> TRUE, edges |-> ReplayedEdges(e, all \ coverage)]
    <2>1. /\ phase = "replay" /\ phase' = phase /\ UNCHANGED <<version, files, saved, harness, runs>>
          /\ corpus' = Added(corpus, new) /\ coverage' = coverage \union all /\ todo' = Tail(todo)
          /\ todo # <<>>
        BY <1>9 DEF Replay, kept
    <2>2. IsList(todo) /\ \A i \in DOMAIN todo : todo[i].seq \in Seqs /\ todo[i].seq \in Decodes(harness, version[harness])
        BY <1>0 DEF CorpusRuns, Runs
    <2>3. /\ Len(todo) \in Nat \ {0} /\ DOMAIN todo = 1 .. Len(todo) /\ e = todo[1]
          /\ IsList(Tail(todo)) /\ DOMAIN Tail(todo) = 1 .. Len(todo) - 1
          /\ \A i \in 1 .. Len(todo) - 1 : Tail(todo)[i] = todo[i + 1]
        BY <2>1, <2>2, ListEnds
    <2>4. e.seq \in Seqs /\ e.seq \in Decodes(harness, version[harness])
        BY <2>2, <2>3
    <2>5. Runs(harness, version[harness], todo')
        <3>1. \A i \in 1 .. Len(todo) - 1 : i + 1 \in DOMAIN todo
            BY <2>3
        <3> QED
            BY <2>1, <2>2, <2>3, <3>1 DEF Runs
    <2> HIDE DEF e
    <2>6. IsFiniteSet(all \ coverage) /\ (all \ coverage) \cap coverage = {}
        BY <1>0, <2>4, FiniteCoverage, FS_Subset DEF CommandTypes
    <2>7. new.seq = e.seq /\ new.edges = Cardinality(all \ coverage)
        BY DEF ReplayedEdges
    <2>8. coverage' = coverage \union (all \ coverage)
        BY <2>1
    <2> HIDE DEF all, new
    <2>9. /\ Runs(harness', version'[harness'], corpus') /\ Len(corpus') <= MaxEntries
          /\ \A i \in DOMAIN corpus' : corpus'[i].edges \in Nat
          /\ CoverageGrows' /\ EdgesCreditedOnce'
        BY <2>1, <2>4, <2>6, <2>7, <2>8, AddingKeeps
    <2>10. CommandTypes'
        BY <1>0, <2>1 DEF CommandTypes
    <2>11. CorpusRuns'
        BY <2>1, <2>5, <2>9 DEF CorpusRuns
    <2> QED
        BY <2>9, <2>10, <2>11 DEF CommandInv
<1>10. ASSUME NEW s \in Seqs, phase = "fuzz", phase' \in {"fuzz", "shrink"}, s \in Decodes(harness, version[harness]),
              UNCHANGED <<kept, harness, todo>>, coverage' = coverage \union Gained(s), runs' = runs + 1,
              corpus' = corpus \/ corpus' = Added(corpus, [seq |-> s, chain |-> TRUE, edges |-> Cardinality(Gained(s))])
       PROVE  CommandInv'
    <2> DEFINE new == [seq |-> s, chain |-> TRUE, edges |-> Cardinality(Gained(s))]
    <2>1. IsFiniteSet(Gained(s)) /\ Gained(s) \cap coverage = {}
        <3>1. IsFiniteSet(Covers(harness, version[harness], s)) /\ IsFiniteSet(Checks(harness, version[harness], s))
            BY <1>0, FiniteCoverage DEF CommandTypes
        <3>2. IsFiniteSet(Covers(harness, version[harness], s) \union Checks(harness, version[harness], s))
            BY <3>1, FS_Union
        <3> QED
            BY <3>2, FS_Subset DEF Gained
    <2>2. new.seq = s /\ new.edges = Cardinality(Gained(s)) /\ (corpus' = corpus \/ corpus' = Added(corpus, new))
        BY <1>10
    <2>3. UNCHANGED <<version, files, saved, harness, todo>>
        BY <1>10 DEF kept
    <2> HIDE DEF new
    <2>4. /\ Runs(harness', version'[harness'], corpus') /\ Len(corpus') <= MaxEntries
          /\ \A i \in DOMAIN corpus' : corpus'[i].edges \in Nat
          /\ CoverageGrows' /\ EdgesCreditedOnce'
        BY <1>10, <2>1, <2>2, <2>3, AddingKeeps
    <2>5. CommandTypes'
        <3>1. runs' \in Nat
            BY <1>0, <1>10 DEF CommandTypes
        <3>2. phase' \in Phases
            BY <1>10 DEF Phases
        <3> QED
            BY <1>0, <2>3, <3>1, <3>2 DEF CommandTypes
    <2>6. CorpusRuns'
        BY <1>0, <1>10, <2>3, <2>4 DEF CorpusRuns, Runs
    <2> QED
        BY <2>4, <2>5, <2>6 DEF CommandInv
<1>11. ASSUME NEW s \in Seqs, FuzzStop(s) PROVE CommandInv'
    BY <1>10, <1>11 DEF FuzzStop
<1>12. ASSUME NEW s \in Seqs, NEW finds \in 0 .. 1, Fuzz(s, finds) PROVE CommandInv'
    BY <1>10, <1>12 DEF Fuzz
<1>13. CASE Replayed \/ FuzzEnds \/ FuzzFails \/ Shrink \/ Report \/ Summary \/ CoverageReport
    <2>1. /\ Quiet /\ runs' = runs /\ phase \notin {"idle", "deploy", "setup"} /\ phase' \in Phases
          /\ phase' \notin {"idle", "deploy", "setup", "load", "replay"}
          /\ phase # "replay" \/ todo = <<>>
        BY <1>13 DEF Replayed, FuzzEnds, FuzzFails, Shrink, Report, Summary, CoverageReport,
                     Quiet, kept, campaign, Phases
    <2>2. todo = <<>> /\ runs \in Nat
        BY <1>0, <2>1 DEF CorpusRuns, CommandTypes
    <2> QED
        BY <2>1, <2>2, MovingOnKeeps
<1>14. ASSUME UNCHANGED <<version, harness>>, NEW f, FileOK(f), files' = [files EXCEPT ![CorpusKey] = f],
              NEW r, saved' = [saved EXCEPT ![harness] = r]
       PROVE  DOMAIN files' = Keys /\ (\A k \in Keys : FileOK(files'[k])) /\ DOMAIN saved' = Harnesses
    BY <1>0, <1>14 DEF CommandTypes
<1>15. CASE Truncate \/ Save
    <2>1. /\ UNCHANGED <<version, harness, corpus, todo, coverage, runs>>
          /\ phase \notin {"idle", "deploy", "setup", "load", "replay"} /\ phase' \in Phases
          /\ phase' \notin {"idle", "deploy", "setup", "load", "replay"}
        BY <1>15 DEF Truncate, Save, WriteFile, campaign, Phases
    <2>2. DOMAIN files' = Keys /\ (\A k \in Keys : FileOK(files'[k])) /\ DOMAIN saved' = Harnesses
        <3>1. CASE Truncate
            BY <1>14, <3>1 DEF Truncate, FileOK
        <3>2. CASE Save
            <4>1. FileOK(Written(corpus))
                BY <1>0, WrittenIsFile DEF CorpusRuns
            <4> QED
                BY <1>14, <3>2, <4>1 DEF Save, WriteFile
        <3> QED
            BY <1>15, <3>1, <3>2
    <2>3. CommandTypes'
        BY <1>0, <2>1, <2>2 DEF CommandTypes
    <2>4. CorpusRuns'
        BY <1>0, <2>1 DEF CorpusRuns, Runs
    <2>5. CoverageGrows' /\ EdgesCreditedOnce'
        BY <1>0, <2>1 DEF CoverageGrows, EdgesCreditedOnce
    <2> QED
        BY <2>3, <2>4, <2>5 DEF CommandInv
<1>16. CASE PrepareReverts \/ LoadFails \/ StatsReport \/ Fails
    <2>1. End /\ UNCHANGED <<version, files, saved, harness>>
        BY <1>16 DEF PrepareReverts, LoadFails, StatsReport, Fails, kept
    <2> QED
        BY <1>0, <2>1, EndIsFresh DEF CommandTypes
<1>17. CASE Rescue
    <2>1. End /\ UNCHANGED <<version, harness>>
        BY <1>17 DEF Rescue, WriteFile
    <2>2. FileOK(Written(corpus))
        BY <1>0, WrittenIsFile DEF CorpusRuns
    <2>3. DOMAIN files' = Keys /\ (\A k \in Keys : FileOK(files'[k])) /\ DOMAIN saved' = Harnesses
        BY <1>14, <1>17, <2>1, <2>2 DEF Rescue, WriteFile
    <2> QED
        BY <2>1, <2>3, EndIsFresh
<1>18. CASE UNCHANGED commandVars
    <2>1. CommandTypes' /\ CorpusRuns'
        BY <1>0, <1>18 DEF commandVars, CommandTypes, CorpusRuns, Runs
    <2>2. CoverageGrows' /\ EdgesCreditedOnce'
        BY <1>0, <1>18 DEF commandVars, CoverageGrows, EdgesCreditedOnce
    <2> QED
        BY <2>1, <2>2 DEF CommandInv
<1> QED
    BY <1>2, <1>3, <1>4, <1>6, <1>7, <1>8, <1>9, <1>11, <1>12, <1>13, <1>15, <1>16, <1>17, <1>18
    DEF CommandNext

\* A command starts with nothing in memory.
LEMMA CommandStarts == CommandInit => CommandInv /\ ResumeInv
<1> SUFFICES ASSUME CommandInit PROVE CommandInv /\ ResumeInv
    OBVIOUS
<1>1. CommandTypes
    <2>1. ASSUME NEW k \in Keys PROVE FileOK(files[k])
        <3>1. files[k] = Absent \/ files[k] = Document(CorpusVersion + 1, <<>>)
            BY DEF CommandInit
        <3> QED
            BY <3>1, EmptyList DEF FileOK, Document
    <2> QED
        BY <2>1, CommandAssumption DEF CommandInit, CommandTypes, Fresh, Phases
<1>2. CorpusRuns
    BY EmptyList, CommandAssumption DEF CommandInit, CorpusRuns, Fresh, Runs
<1>3. CoverageGrows /\ EdgesCreditedOnce
    BY DEF CommandInit, CoverageGrows, EdgesCreditedOnce
<1>4. ResumeInv
    BY DEF CommandInit, ResumeInv, SavedIsThere, ReplayResumes, NextRunResumes, NotSaved
<1> QED
    BY <1>1, <1>2, <1>3, <1>4 DEF CommandInv

\* What is kept of a run is credited with its edges once (Corpus::add_with_chain,
\* Replayer::replay): entries of earlier commands count what they add now.
THEOREM CreditedOnce == CommandSpec => []EdgesCreditedOnce
<1>1. CommandInit => CommandInv
    BY CommandStarts
<1>2. CommandInv /\ [CommandNext]_commandVars => CommandInv'
    BY CommandStep
<1>3. CommandInv => EdgesCreditedOnce
    BY DEF CommandInv
<1> QED
    BY <1>1, <1>2, <1>3, PTL DEF CommandSpec
-----------------------------------------------------------------------------
(* What one command saves and the next one starts from *)

\* A step that leaves the files, and what was saved, alone keeps them together.
LEMMA SavedStays ==
    ASSUME SavedIsThere, UNCHANGED <<files, saved>>
    PROVE  SavedIsThere'
BY DEF SavedIsThere, Runs

\* A harness has its file to itself: writing it changes no other one's.
LEMMA OthersStay ==
    ASSUME KeysDistinct, CommandInv, SavedIsThere,
           NEW f, files' = [files EXCEPT ![CorpusKey] = f],
           NEW r, saved' = [saved EXCEPT ![harness] = r],
           r.complete => /\ f = Document(CorpusVersion, f.entries)
                         /\ Runs(harness, r.v, f.entries) /\ Len(f.entries) <= MaxEntries
                         /\ r.seqs = SeqsOf(f.entries)
    PROVE  SavedIsThere'
<1> SUFFICES ASSUME NEW h \in Harnesses, saved'[h].complete
             PROVE  /\ files'[FileKey(h)] = Document(CorpusVersion, files'[FileKey(h)].entries)
                    /\ Runs(h, saved'[h].v, files'[FileKey(h)].entries)
                    /\ Len(files'[FileKey(h)].entries) <= MaxEntries
                    /\ saved'[h].seqs = SeqsOf(files'[FileKey(h)].entries)
    BY DEF SavedIsThere, Runs
<1>1. /\ harness \in Harnesses /\ DOMAIN files = Keys /\ DOMAIN saved = Harnesses
      /\ FileKey(h) \in Keys /\ CorpusKey = FileKey(harness) /\ CorpusKey \in Keys
    BY DEF CommandInv, CommandTypes, Keys, CorpusKey
<1>2. CASE h = harness
    <2>1. files'[FileKey(h)] = f /\ saved'[h] = r
        BY <1>1, <1>2
    <2> QED
        BY <1>2, <2>1
<1>3. CASE h # harness
    <2>1. FileKey(h) # CorpusKey
        BY <1>1, <1>3 DEF KeysDistinct
    <2>2. files'[FileKey(h)] = files[FileKey(h)] /\ saved'[h] = saved[h]
        BY <1>1, <1>3, <2>1
    <2> QED
        BY <2>2 DEF SavedIsThere
<1> QED
    BY <1>2, <1>3

\* Every step keeps what was saved in its file, and a replay on the way to
\* what was saved.
LEMMA ResumeStep ==
    ASSUME KeysDistinct, CommandInv, ResumeInv, [CommandNext]_commandVars
    PROVE  ResumeInv'
<1>0. /\ CommandTypes /\ CorpusRuns /\ CoverageGrows
      /\ SavedIsThere /\ ReplayResumes /\ NextRunResumes
    BY DEF CommandInv, ResumeInv
<1>1. ASSUME SavedIsThere', phase' \notin {"replay", "fuzz"} PROVE ResumeInv'
    BY <1>1 DEF ResumeInv, ReplayResumes, NextRunResumes
<1>2. ASSUME NEW h \in Harnesses, EditHarness(h) PROVE ResumeInv'
    BY <1>0, <1>1, <1>2, SavedStays DEF EditHarness
<1>3. ASSUME NEW h \in Harnesses, Start(h) PROVE ResumeInv'
    BY <1>0, <1>1, <1>3, SavedStays DEF Start
<1>4. ASSUME NEW k \in Keys, Delete(k) PROVE ResumeInv'
    <2>1. ASSUME NEW h \in Harnesses, saved'[h].complete
          PROVE  FileKey(h) \in Keys /\ files'[FileKey(h)] = files[FileKey(h)] /\ saved'[h] = saved[h]
        <3>1. FileKey(h) # k
            BY <1>4, <2>1 DEF Delete, NotSaved
        <3>2. FileKey(h) \in Keys
            BY DEF Keys
        <3> QED
            BY <1>0, <1>4, <3>1, <3>2 DEF Delete, CommandTypes
    <2>2. SavedIsThere'
        BY <1>0, <2>1 DEF SavedIsThere, Runs
    <2> QED
        BY <1>1, <1>4, <2>2 DEF Delete
<1>5. CASE Deploy \/ Setup \/ PrepareReverts \/ LoadFails \/ StatsReport \/ Fails \/ FuzzEnds \/ FuzzFails \/ Shrink
           \/ Report \/ Summary \/ CoverageReport
    <2>1. UNCHANGED <<files, saved>> /\ phase' \notin {"replay", "fuzz"}
        BY <1>5 DEF Deploy, Setup, PrepareReverts, LoadFails, StatsReport, Fails, FuzzEnds, FuzzFails, Shrink,
                    Report, Summary, CoverageReport, End, kept
    <2> QED
        BY <1>0, <1>1, <2>1, SavedStays
<1>6. ASSUME NEW s \in Seqs, FuzzStop(s) PROVE ResumeInv'
    BY <1>0, <1>1, <1>6, SavedStays DEF FuzzStop, kept
<1>7. ASSUME NEW s \in Seqs, NEW finds \in 0 .. 1, Fuzz(s, finds) PROVE ResumeInv'
    <2>1. runs' # 0 /\ phase' = "fuzz" /\ UNCHANGED <<files, saved>>
        BY <1>0, <1>7 DEF Fuzz, CommandTypes, kept
    <2> QED
        BY <1>0, <2>1, SavedStays DEF ResumeInv, ReplayResumes, NextRunResumes
<1>8. CASE Load
    <2> DEFINE f == files[CorpusKey]
    <2>1. /\ phase' = "replay" /\ UNCHANGED <<version, files, saved, harness, corpus, coverage, runs>>
          /\ corpus = <<>> /\ corpus' = <<>>
        BY <1>0, <1>8 DEF Load, kept, CorpusRuns
    <2>2. SavedIsThere'
        BY <1>0, <2>1, SavedStays
    <2>3. ASSUME Resumes'
          PROVE  /\ Len(todo') <= MaxEntries /\ Len(todo') \in Nat
                 /\ saved[harness].seqs = [i \in 1 .. Len(todo') |-> saved[harness].seqs[i]]
                 /\ \A i \in 1 .. Len(todo') : todo'[i].seq = saved[harness].seqs[i]
        <3>1. saved[harness].complete /\ saved[harness].v = version[harness] /\ harness \in Harnesses
            BY <1>0, <2>1, <2>3 DEF Resumes, CommandTypes
        <3>2. /\ f = Document(CorpusVersion, f.entries)
              /\ Runs(harness, version[harness], f.entries) /\ Len(f.entries) <= MaxEntries
              /\ saved[harness].seqs = SeqsOf(f.entries)
            BY <1>0, <3>1 DEF SavedIsThere, CorpusKey
        <3>3. f # Absent /\ f.version = CorpusVersion
            BY <3>2 DEF Absent, Document
        <3>4. todo' = ResolvedCalls(harness, version[harness], f.entries)
            BY <1>8, <3>3 DEF Load
        <3> HIDE DEF f
        <3>5. todo' = f.entries
            BY <3>2, <3>4, LoadsAll DEF Runs
        <3>6. Len(todo') \in Nat /\ DOMAIN todo' = 1 .. Len(todo')
            BY <3>2, <3>5, ListLength DEF Runs
        <3>7. saved[harness].seqs = [i \in 1 .. Len(todo') |-> todo'[i].seq]
            BY <3>2, <3>5, <3>6 DEF SeqsOf
        <3> QED
            BY <3>2, <3>5, <3>6, <3>7
    <2>4. Len(corpus') = 0
        BY <2>1
    <2>5. ReplayResumes'
        <3> SUFFICES ASSUME Resumes'
                     PROVE  /\ 0 + Len(todo') <= MaxEntries
                            /\ saved'[harness'].seqs = [i \in 1 .. 0 + Len(todo') |-> saved'[harness'].seqs[i]]
                            /\ \A i \in 1 .. Len(todo') : todo'[i].seq = saved'[harness'].seqs[0 + i]
            BY <2>4 DEF ReplayResumes
        <3>1. 0 + Len(todo') = Len(todo') /\ \A i \in 1 .. Len(todo') : 0 + i = i
            BY <2>3
        <3> QED
            BY <2>1, <2>3, <3>1
    <2> QED
        BY <2>1, <2>2, <2>5 DEF ResumeInv, NextRunResumes
<1>9. CASE Replay
    <2> DEFINE e == Head(todo)
               all == Covers(harness, version[harness], e.seq)
               new == [seq |-> e.seq, chain |-> TRUE, edges |-> ReplayedEdges(e, all \ coverage)]
               n == Len(corpus)
               t == Len(todo)
               q == saved[harness].seqs
    <2>1. /\ phase = "replay" /\ phase' = phase /\ UNCHANGED <<version, files, saved, harness, runs>>
          /\ corpus' = Added(corpus, new) /\ coverage' = coverage \union all /\ todo' = Tail(todo)
          /\ todo # <<>>
        BY <1>9 DEF Replay, kept
    <2>2. SavedIsThere'
        BY <1>0, <2>1, SavedStays
    <2>3. IsList(todo) /\ IsList(corpus)
        BY <1>0 DEF CorpusRuns, Runs
    <2>4. /\ t \in Nat \ {0} /\ DOMAIN todo = 1 .. t /\ e = todo[1]
          /\ IsList(Tail(todo)) /\ DOMAIN Tail(todo) = 1 .. t - 1
          /\ \A i \in 1 .. t - 1 : Tail(todo)[i] = todo[i + 1]
        BY <2>1, <2>3, ListEnds
    <2>5. Len(todo') = t - 1 /\ n \in Nat /\ DOMAIN corpus = 1 .. n
        BY <2>1, <2>3, <2>4, ListLength
    <2>6. new.seq = e.seq /\ new.chain
        OBVIOUS
    <2>7. ASSUME Resumes'
          PROVE  /\ Len(corpus') + Len(todo') <= MaxEntries
                 /\ q = [i \in 1 .. Len(corpus') + Len(todo') |-> q[i]]
                 /\ \A i \in 1 .. Len(corpus') :
                       /\ corpus'[i].seq = q[i] /\ corpus'[i].chain
                       /\ Covers(harness, version[harness], corpus'[i].seq) \subseteq coverage'
                 /\ \A i \in 1 .. Len(todo') : todo'[i].seq = q[Len(corpus') + i]
        <3>1. Resumes
            BY <2>1, <2>7 DEF Resumes
        <3>2. /\ n + t <= MaxEntries
              /\ q = [i \in 1 .. n + t |-> q[i]]
              /\ \A i \in 1 .. n :
                    /\ corpus[i].seq = q[i] /\ corpus[i].chain
                    /\ Covers(harness, version[harness], corpus[i].seq) \subseteq coverage
              /\ \A i \in 1 .. t : todo[i].seq = q[n + i]
            BY <1>0, <2>1, <3>1 DEF ReplayResumes
        <3>3. Len(corpus) < MaxEntries
            BY <2>4, <2>5, <3>2, CommandAssumption
        <3>4. corpus' = Append(corpus, new)
            BY <2>1, <3>3 DEF Added
        <3>5. e.seq = q[n + 1]
            <4>1. 1 \in 1 .. t
                BY <2>4
            <4>2. todo[1].seq = q[n + 1]
                BY <3>2, <4>1
            <4> QED
                BY <2>4, <4>2
        <3> HIDE DEF new, q, n, t, e
        <3>6. Len(corpus') = n + 1 /\ corpus'[n + 1] = new /\ \A i \in 1 .. n : corpus'[i] = corpus[i]
            BY <2>3, <3>4, ListAppend DEF n
        <3>7. Len(corpus') + Len(todo') = n + t
            BY <2>4, <2>5, <3>6
        <3>8. ASSUME NEW i \in 1 .. Len(corpus')
              PROVE  /\ corpus'[i].seq = q[i] /\ corpus'[i].chain
                     /\ Covers(harness, version[harness], corpus'[i].seq) \subseteq coverage'
            <4>1. CASE i = n + 1
                BY <2>1, <2>6, <3>5, <3>6, <4>1
            <4>2. CASE i # n + 1
                <5>1. i \in 1 .. n
                    BY <2>5, <3>6, <4>2
                <5> QED
                    BY <2>1, <3>2, <3>6, <5>1
            <4> QED
                BY <4>1, <4>2
        <3>9. ASSUME NEW i \in 1 .. Len(todo') PROVE todo'[i].seq = q[Len(corpus') + i]
            <4>1. i \in 1 .. t - 1 /\ i + 1 \in 1 .. t /\ n + (i + 1) = Len(corpus') + i
                BY <2>4, <2>5, <3>6
            <4>2. todo'[i] = todo[i + 1] /\ todo[i + 1].seq = q[n + (i + 1)]
                BY <2>1, <2>4, <3>2, <4>1
            <4> QED
                BY <4>1, <4>2
        <3> QED
            BY <3>2, <3>7, <3>8, <3>9
    <2>8. ReplayResumes'
        BY <2>1, <2>7 DEF ReplayResumes
    <2> QED
        BY <2>1, <2>2, <2>8 DEF ResumeInv, NextRunResumes
<1>10. CASE Replayed
    <2>1. /\ phase = "replay" /\ phase' = "fuzz" /\ todo = <<>>
          /\ UNCHANGED <<version, files, saved, harness, corpus, coverage>>
        BY <1>10 DEF Replayed, kept, campaign
    <2>2. SavedIsThere'
        BY <1>0, <2>1, SavedStays
    <2>3. NextRunResumes'
        <3> SUFFICES ASSUME Resumes
                     PROVE  /\ SeqsOf(corpus) = saved[harness].seqs
                            /\ \A e \in Range(corpus) :
                                  e.chain /\ Covers(harness, version[harness], e.seq) \subseteq coverage
            BY <2>1 DEF NextRunResumes, Resumes, SeqsOf
        <3>1. Len(corpus) \in Nat /\ DOMAIN corpus = 1 .. Len(corpus) /\ Len(corpus) + Len(todo) = Len(corpus)
            BY <1>0, <2>1, ListLength DEF CorpusRuns, Runs
        <3>2. /\ saved[harness].seqs = [i \in 1 .. Len(corpus) |-> saved[harness].seqs[i]]
              /\ \A i \in 1 .. Len(corpus) :
                    /\ corpus[i].seq = saved[harness].seqs[i] /\ corpus[i].chain
                    /\ Covers(harness, version[harness], corpus[i].seq) \subseteq coverage
            BY <1>0, <2>1, <3>1 DEF ReplayResumes
        <3>3. SeqsOf(corpus) = saved[harness].seqs
            BY <3>1, <3>2 DEF SeqsOf
        <3>4. \A e \in Range(corpus) : \E i \in 1 .. Len(corpus) : e = corpus[i]
            BY <3>1 DEF Range
        <3> QED
            BY <3>2, <3>3, <3>4
    <2> QED
        BY <2>1, <2>2, <2>3 DEF ResumeInv, ReplayResumes
<1>11. CASE Truncate
    <2>1. ~NotSaved.complete
        BY DEF NotSaved
    <2>2. SavedIsThere'
        BY <1>0, <1>11, <2>1, OthersStay DEF Truncate
    <2> QED
        BY <1>1, <1>11, <2>2 DEF Truncate
<1>12. CASE Save \/ Rescue
    <2> DEFINE r == [complete |-> TRUE, v |-> version[harness], seqs |-> SeqsOf(corpus)]
    <2>1. /\ files' = [files EXCEPT ![CorpusKey] = Written(corpus)] /\ saved' = [saved EXCEPT ![harness] = r]
          /\ phase' \notin {"replay", "fuzz"}
        BY <1>12 DEF Save, Rescue, WriteFile, End
    <2>2. Runs(harness, version[harness], corpus) /\ Len(corpus) <= MaxEntries
        BY <1>0 DEF CorpusRuns
    <2>3. /\ Written(corpus) = Document(CorpusVersion, Written(corpus).entries)
          /\ Runs(harness, version[harness], Written(corpus).entries)
          /\ Len(Written(corpus).entries) <= MaxEntries
          /\ SeqsOf(Written(corpus).entries) = SeqsOf(corpus)
        BY <2>2, WrittenIsFile
    <2>4. r.v = version[harness] /\ r.seqs = SeqsOf(corpus)
        OBVIOUS
    <2> HIDE DEF r
    <2>5. SavedIsThere'
        BY <1>0, <2>1, <2>3, <2>4, OthersStay
    <2> QED
        BY <1>1, <2>1, <2>5
<1>13. CASE UNCHANGED commandVars
    <2>1. SavedIsThere'
        BY <1>0, <1>13, SavedStays DEF commandVars
    <2>2. ReplayResumes'
        BY <1>0, <1>13 DEF commandVars, ReplayResumes, Resumes
    <2>3. NextRunResumes'
        BY <1>0, <1>13 DEF commandVars, NextRunResumes, SeqsOf
    <2> QED
        BY <2>1, <2>2, <2>3 DEF ResumeInv
<1> QED
    BY <1>2, <1>3, <1>4, <1>5, <1>6, <1>7, <1>8, <1>9, <1>10, <1>11, <1>12, <1>13 DEF CommandNext

\* What a command saved is what the next command of the harness starts from
\* (Corpus::save, Corpus::load, Replayer::replay), when no other harness has
\* the same file.
THEOREM Resumed == ASSUME KeysDistinct PROVE CommandSpec => []NextRunResumes
<1>1. CommandInit => CommandInv /\ ResumeInv
    BY CommandStarts
<1>2. (CommandInv /\ ResumeInv) /\ [CommandNext]_commandVars => (CommandInv /\ ResumeInv)'
    BY CommandStep, ResumeStep
<1>3. CommandInv /\ ResumeInv => NextRunResumes
    BY DEF ResumeInv
<1> QED
    BY <1>1, <1>2, <1>3, PTL DEF CommandSpec
-----------------------------------------------------------------------------
(* What a build sees *)

\* Lists in a row are a list.
LEMMA ListConcat ==
    ASSUME NEW s, IsList(s), NEW t, IsList(t)
    PROVE  IsList(s \o t)
<1>1. PICK S : s \in Seq(S)
    BY DEF IsList
<1>2. PICK T : t \in Seq(T)
    BY DEF IsList
<1>3. s \in Seq(S \union T) /\ t \in Seq(S \union T)
    BY <1>1, <1>2
<1>4. s \o t \in Seq(S \union T)
    BY <1>3, ConcatProperties
<1> QED
    BY <1>4 DEF IsList

\* One element is a list.
LEMMA SingletonList == ASSUME NEW x PROVE IsList(<<x>>) /\ Len(<<x>>) = 1 /\ <<x>>[1] = x
<1>1. <<x>> \in Seq({x})
    OBVIOUS
<1> QED
    BY <1>1 DEF IsList

\* The candidates of an import are a list.
LEMMA CandidatesList ==
    ASSUME NEW maps, NEW p, NEW import
    PROVE  IsList(Candidates(maps, p, import))
<1>1. IsList(Remapped(maps, import))
    BY EmptyList, SingletonList DEF Remapped
<1>2. IsList(<<Normalize(Front(p) \o import)>> \o Remapped(maps, import))
    BY <1>1, SingletonList, ListConcat
<1> QED
    BY <1>2, SingletonList, ListConcat DEF Candidates

\* The first candidate that exists does exist.
LEMMA FirstExists ==
    ASSUME NEW cs, IsList(cs), Existing(cs) # {}
    PROVE  FirstExisting(cs) \in DOMAIN disk
<1>1. Existing(cs) \in SUBSET Nat
    BY ListLength DEF Existing
<1>2. PICK m \in Existing(cs) : \A n \in Existing(cs) : m <= n
    BY <1>1, LeastNatural
<1>3. Min(Existing(cs)) \in Existing(cs)
    BY <1>2, Zenon DEF Min
<1> QED
    BY <1>3 DEF FirstExisting, Existing

\* Imports lead to files that exist.
LEMMA ImportedExist ==
    ASSUME NEW maps, NEW p
    PROVE  Imported(maps, p) \subseteq DOMAIN disk
BY FirstExists, CandidatesList DEF Imported

\* The resolver pushes what the imports it scans lead to.
LEMMA ResolvedAre ==
    ASSUME NEW maps, NEW p, IsList(Scanned(disk[p]))
    PROVE  /\ IsList(Resolved(maps, p, Scanned(disk[p])))
           /\ Range(Resolved(maps, p, Scanned(disk[p]))) = Imported(maps, p)
<1> DEFINE is == Scanned(disk[p])
           C(i) == Candidates(maps, p, is[i])
           at == [i \in DOMAIN is |-> C(i)]
           K == {i \in DOMAIN is : Existing(at[i]) # {}}
           found == [i \in DOMAIN is |-> IF Existing(at[i]) = {} THEN <<>> ELSE FirstExisting(at[i])]
           R == ElementsAt(found, K)
<1>1. Resolved(maps, p, is) = R
    BY DEF Resolved
<1>2. /\ found = [i \in DOMAIN is |-> found[i]] /\ DOMAIN found = DOMAIN is
      /\ K = {i \in DOMAIN is : Existing(C(i)) # {}}
      /\ \A i \in K : found[i] = FirstExisting(C(i))
    OBVIOUS
<1>3. Imported(maps, p) = {FirstExisting(C(i)) : i \in K}
    <2>1. ASSUME NEW x \in Imported(maps, p) PROVE \E i \in K : x = FirstExisting(C(i))
        <3>1. PICK j \in Range(is) : Existing(Candidates(maps, p, j)) # {} /\ x = FirstExisting(Candidates(maps, p, j))
            BY <2>1 DEF Imported
        <3>2. PICK i \in DOMAIN is : j = is[i]
            BY DEF Range
        <3> QED
            BY <1>2, <3>1, <3>2
    <2>2. ASSUME NEW i \in K PROVE FirstExisting(C(i)) \in Imported(maps, p)
        <3>1. is[i] \in Range(is) /\ Existing(Candidates(maps, p, is[i])) # {}
            BY <1>2 DEF Range
        <3> QED
            BY <3>1 DEF Imported
    <2> HIDE DEF C, K
    <2> QED
        BY <2>1, <2>2
<1> HIDE DEF K, found, at
<1>4. IsList(found)
    BY <1>2, ListReplace
<1>5. PICK T : found \in Seq(T)
    BY <1>4 DEF IsList
<1>6. K \in SUBSET DOMAIN found
    BY <1>2
<1>7. /\ R \in Seq(T)
      /\ \A i \in DOMAIN R : \E k \in K : R[i] = found[k]
      /\ \A k \in K : \E i \in DOMAIN R : R[i] = found[k]
    BY <1>5, <1>6, ElementsAre
<1> HIDE DEF R, C
<1>8. Range(R) = {FirstExisting(C(i)) : i \in K}
    BY <1>2, <1>7 DEF Range
<1> QED
    BY <1>1, <1>3, <1>7, <1>8 DEF IsList

\* The closure holds the target, is closed under imports, and is the least
\* set of that kind.
LEMMA ClosureIs ==
    ASSUME NEW maps
    PROVE  /\ Closure(maps) \subseteq DOMAIN disk
           /\ Target \in DOMAIN disk => Target \in Closure(maps)
           /\ \A f \in Closure(maps) : Imported(maps, f) \subseteq Closure(maps)
           /\ \A S \in SUBSET DOMAIN disk :
                 Target \in S /\ (\A f \in S : Imported(maps, f) \subseteq S) => Closure(maps) \subseteq S
<1> DEFINE to == [f \in DOMAIN disk |-> Imported(maps, f)]
           closed == {s \in SUBSET DOMAIN disk : Target \in s /\ \A f \in s : to[f] \subseteq s}
           C == {f \in DOMAIN disk : \A s \in closed : f \in s}
<1>1. Closure(maps) = C
    BY DEF Closure
<1>2. closed = {s \in SUBSET DOMAIN disk : Target \in s /\ \A f \in s : Imported(maps, f) \subseteq s}
    OBVIOUS
<1>3. \A f : Imported(maps, f) \subseteq DOMAIN disk
    BY ImportedExist
<1> HIDE DEF closed
<1>4. \A f \in C : Imported(maps, f) \subseteq C
    BY <1>2, <1>3
<1>5. \A S \in SUBSET DOMAIN disk :
         Target \in S /\ (\A f \in S : Imported(maps, f) \subseteq S) => C \subseteq S
    BY <1>2
<1>6. Target \in DOMAIN disk => Target \in C
    BY <1>2
<1> QED
    BY <1>1, <1>4, <1>5, <1>6
\* solc loads what it is given and, with a file, what the file needs, and no
\* more.
LEMMA UnitsAre ==
    ASSUME NEW maps, NEW tree, NEW given, given \subseteq DOMAIN tree
    PROVE  /\ Units(maps, tree, given) \subseteq DOMAIN tree
           /\ given \subseteq Units(maps, tree, given)
           /\ \A f \in Units(maps, tree, given) :
                 Needs(maps, f, tree[f]) \intersect DOMAIN tree \subseteq Units(maps, tree, given)
           /\ \A S \in SUBSET DOMAIN tree :
                 given \subseteq S /\ (\A f \in S : Needs(maps, f, tree[f]) \intersect DOMAIN tree \subseteq S)
                    => Units(maps, tree, given) \subseteq S
<1> DEFINE to == [f \in DOMAIN tree |-> Needs(maps, f, tree[f]) \intersect DOMAIN tree]
           closed == {s \in SUBSET DOMAIN tree : given \subseteq s /\ \A f \in s : to[f] \subseteq s}
           U == {f \in DOMAIN tree : \A s \in closed : f \in s}
<1>1. Units(maps, tree, given) = U
    BY DEF Units
<1>2. closed = {s \in SUBSET DOMAIN tree :
                   given \subseteq s /\ \A f \in s : Needs(maps, f, tree[f]) \intersect DOMAIN tree \subseteq s}
    OBVIOUS
<1> HIDE DEF closed
<1>3. given \subseteq U
    BY <1>2
<1>4. \A f \in U : Needs(maps, f, tree[f]) \intersect DOMAIN tree \subseteq U
    BY <1>2
<1>5. \A S \in SUBSET DOMAIN tree :
         given \subseteq S /\ (\A f \in S : Needs(maps, f, tree[f]) \intersect DOMAIN tree \subseteq S)
            => U \subseteq S
    BY <1>2
<1> QED
    BY <1>1, <1>3, <1>4, <1>5

\* Where the scan and the resolver agree with solc, the walk finds all that
\* the target is made of.
LEMMA TracedIsWalked ==
    ASSUME NEW maps, Target \in DOMAIN disk, Traced(maps)
    PROVE  Uses(maps) \subseteq Closure(maps)
<1> DEFINE U == Uses(maps)
           S == Closure(maps) \intersect U
<1>1. {Target} \subseteq DOMAIN disk
    OBVIOUS
<1>2. U = Units(maps, disk, {Target})
    BY DEF Uses
<1>3. /\ U \subseteq DOMAIN disk /\ {Target} \subseteq U
      /\ \A f \in U : Needs(maps, f, disk[f]) \intersect DOMAIN disk \subseteq U
      /\ \A s \in SUBSET DOMAIN disk :
            {Target} \subseteq s /\ (\A f \in s : Needs(maps, f, disk[f]) \intersect DOMAIN disk \subseteq s)
               => U \subseteq s
    BY <1>1, <1>2, UnitsAre
<1>4. ASSUME NEW f \in S, NEW n \in Needs(maps, f, disk[f]) \intersect DOMAIN disk
      PROVE  n \in S
    <2>1. PICK import \in Range(Imports(disk[f])) : n = SolcUnit(maps, f, import)
        BY <1>4 DEF Needs
    <2>2. /\ import \in Range(Scanned(disk[f])) /\ Existing(Candidates(maps, f, import)) # {}
          /\ FirstExisting(Candidates(maps, f, import)) = n
        BY <1>4, <2>1 DEF Traced
    <2>3. n \in Imported(maps, f)
        BY <2>2 DEF Imported
    <2>4. n \in Closure(maps)
        BY <1>4, <2>3, ClosureIs
    <2> QED
        BY <1>3, <1>4, <2>4
<1>5. Target \in S
    BY <1>3, ClosureIs
<1> HIDE DEF U
<1>6. S \in SUBSET DOMAIN disk
    BY <1>3
<1>7. \A f \in S : Needs(maps, f, disk[f]) \intersect DOMAIN disk \subseteq S
    BY <1>4
<1> HIDE DEF S
<1>8. U \subseteq S
    BY <1>3, <1>5, <1>6, <1>7
<1> QED
    BY <1>8 DEF U, S

\* Given the closure as it is on disk, solc loads all the target is made of.
LEMMA LoadsAllUsed ==
    ASSUME NEW maps, Target \in DOMAIN disk,
           NEW sources, sources = [f \in Closure(maps) |-> disk[f]]
    PROVE  /\ Uses(maps) \subseteq Loaded(maps, sources)
           /\ \A f \in Uses(maps) : \/ f \in DOMAIN sources
                                    \/ /\ f \in DOMAIN ReadBySolc(maps, sources)
                                       /\ ReadBySolc(maps, sources)[f] = disk[f]
<1>1. DOMAIN sources = Closure(maps) /\ \A f \in Closure(maps) : sources[f] = disk[f]
    OBVIOUS
<1>2. Closure(maps) \subseteq DOMAIN disk /\ Target \in Closure(maps)
    BY ClosureIs
<1>3. PICK tree : tree = Tree(sources)
    OBVIOUS
<1>4. DOMAIN tree = DOMAIN disk /\ \A f \in DOMAIN disk : tree[f] = disk[f]
    BY <1>1, <1>2, <1>3 DEF Tree
<1>5. PICK L : L = Loaded(maps, sources)
    OBVIOUS
<1>6. L = Units(maps, tree, DOMAIN sources) /\ DOMAIN sources \subseteq DOMAIN tree
    BY <1>1, <1>2, <1>3, <1>4, <1>5 DEF Loaded
<1>7. /\ L \subseteq DOMAIN tree /\ DOMAIN sources \subseteq L
      /\ \A f \in L : Needs(maps, f, tree[f]) \intersect DOMAIN tree \subseteq L
    BY <1>6, UnitsAre
<1>8. /\ L \in SUBSET DOMAIN disk /\ {Target} \subseteq L
      /\ \A f \in L : Needs(maps, f, disk[f]) \intersect DOMAIN disk \subseteq L
    BY <1>1, <1>2, <1>4, <1>7
<1>9. {Target} \subseteq DOMAIN disk
    OBVIOUS
<1>10. Units(maps, disk, {Target}) \subseteq L
    BY <1>8, <1>9, UnitsAre
<1>11. Uses(maps) \subseteq L
    BY <1>10 DEF Uses
<1>12. ReadBySolc(maps, sources) = [f \in L \ DOMAIN sources |-> disk[f]]
    BY <1>5 DEF ReadBySolc
<1> QED
    BY <1>5, <1>11, <1>12
-----------------------------------------------------------------------------
(* The state of a build *)

CompilePcs == {"walk", "install", "download", "fill", "chmod", "run", "publish"}
FetchPcs == {"stage", "extract", "move", "record"}

Compiles(r) ==
    /\ r.pc \in CompilePcs
    /\ r = [pc |-> r.pc, job |-> r.job, cfg |-> r.cfg, maps |-> r.maps, stack |-> r.stack,
            sources |-> r.sources, settled |-> r.settled, read |-> r.read]
    /\ IsList(r.stack)
    /\ r.sources = [f \in DOMAIN r.sources |-> r.sources[f]]
    /\ r.settled \in BOOLEAN
    /\ r.pc # "walk" => r.stack = <<>>

Compiled(r) ==
    /\ r.pc = "done"
    /\ r = [pc |-> "done", job |-> r.job, cfg |-> r.cfg, settled |-> r.settled,
            output |-> r.output, ran |-> r.ran]
    /\ r.settled \in BOOLEAN

Fetches(r) ==
    /\ r.pc \in FetchPcs
    /\ r = [pc |-> r.pc, name |-> r.name, archive |-> r.archive, left |-> r.left]
    /\ r.name \in Names /\ r.archive \in Archives
    /\ IsList(r.left) /\ \A i \in DOMAIN r.left : r.left[i] \in Range(r.archive.entries)

\* The segments of a path (the two the code writes are strings themselves).
Segments == STRING \union {"dependencies", "staging"}
Paths == Seq(Segments)

DiskOK == \A f \in DOMAIN disk : f \in Paths /\ disk[f] \in Contents

\* An entry of the cache is the output of its key.
CacheSound ==
    \A k \in DOMAIN cache : \E version_, settings, sources, read :
        /\ k = CompileHash(version_, settings, sources)
        /\ cache[k] = Output(version_, settings, sources, read)

\* What a walk has seen: the files it has read and those it will look at.
Seen(r) == DOMAIN r.sources \union Range(r.stack)

\* What solc read itself completes the input to what the target is made of.
HasRead(r, read) ==
    \A f \in Uses(r.maps) :
        f \in DOMAIN r.sources \/ (f \in DOMAIN read /\ read[f] = disk[f])

\* What an undisturbed walk has read is what is on disk, within the closure
\* of the target, and with a file it has seen all the file leads to; once
\* solc has run, nothing the target is made of is left out.
Tracks(r) ==
    /\ r.cfg = config /\ r.maps = Remappings(config)
    /\ Target \in Seen(r) /\ Seen(r) \subseteq Closure(r.maps)
    /\ \A f \in DOMAIN r.sources : r.sources[f] = disk[f] /\ Imported(r.maps, f) \subseteq Seen(r)
    /\ r.pc = "publish" => HasRead(r, r.read)

\* The output of a compilation of the project as it is, or of an entry that
\* is behind only in files the walk misses.
Current(r) ==
    LET maps == Remappings(config)
    IN  /\ r.output.version = config.version
        /\ r.output.settings = InputSettings(r.job, config, maps)
        /\ \A f \in Uses(maps) : MadeWith(r.output, f) \/ (~r.ran /\ f \in Missed(maps))

\* What a process may be in the middle of.
Sound(r) ==
    \/ r = Idle
    \/ Compiles(r) /\ (r.settled => Tracks(r))
    \/ Compiled(r) /\ (r.settled => Current(r))
    \/ Fetches(r)

CompileInv ==
    /\ DiskOK /\ DOMAIN proc = Procs /\ crashes \in Nat
    /\ CacheSound
    /\ \A p \in Procs : Sound(proc[p])

\* Two fetches never write the same directories.
FetchesApart ==
    \A p, q \in Procs :
        proc[p].pc \in FetchPcs /\ proc[q].pc \in FetchPcs /\ proc[p].name = proc[q].name => p = q

\* How many entries of the archive a fetch has extracted.
Extracted(r) == Len(r.archive.entries) - Len(r.left)

\* A fetch that extracts has as many entries left as it has not extracted,
\* and the staging directory holds the files of the others.
Stages(r) ==
    /\ Extracted(r) \in Nat
    /\ \A j \in DOMAIN r.left : r.left[j] = r.archive.entries[Extracted(r) + j]
    /\ \A f \in Under(Staging(r.name)) : \E i \in 1 .. Extracted(r) :
          /\ r.archive.entries[i].kind = "file"
          /\ f = Staging(r.name) \o r.archive.entries[i].path
          /\ disk[f] = [hash |-> r.archive.hash, file |-> r.archive.entries[i].path]
    /\ \A i \in 1 .. Extracted(r) :
          r.archive.entries[i].kind = "file" =>
             Staging(r.name) \o r.archive.entries[i].path \in Under(Staging(r.name))

\* What a fetch has done so far.
StageOK(r) ==
    /\ r.pc = "stage" => r.left = r.archive.entries
    /\ r.pc \in {"extract", "move"} => Stages(r)
    /\ r.pc = "move" => Under(Dir(r.name)) = {} /\ r.left = <<>>

\* The files of a dependency come from one archive.
OneArchive(name) ==
    Under(Dir(name)) # {} =>
        \E a \in Archives :
            /\ \A f \in Under(Dir(name)) : disk[f].hash = a.hash
            /\ crashes = 0 => {disk[f].file : f \in Under(Dir(name))} = Files(a)

FetchInv ==
    /\ FetchesApart
    /\ \A p \in Procs : StageOK(proc[p])
    /\ \A name \in Names : OneArchive(name)

\* A process is in one stage at a time.
LEMMA OneStage ==
    ASSUME NEW r, Sound(r)
    PROVE  /\ r.pc \in CompilePcs => Compiles(r) /\ (r.settled => Tracks(r))
           /\ r.pc = "done" => Compiled(r) /\ (r.settled => Current(r))
           /\ r.pc \in FetchPcs => Fetches(r)
BY DEF Sound, Idle, Compiles, Compiled, Fetches, CompilePcs, FetchPcs

\* While the disk and the config stay, so does what a build sees.
LEMMA ViewStays ==
    ASSUME UNCHANGED <<disk, config>>, NEW r
    PROVE  /\ Sound(r)' <=> Sound(r)
           /\ DiskOK' <=> DiskOK
<1>1. \A cs : Existing(cs)' = Existing(cs)
    BY DEF Existing
<1>2. \A cs : FirstExisting(cs)' = FirstExisting(cs)
    BY <1>1 DEF FirstExisting
<1>3. \A maps, p, i : Candidates(maps, p, i)' = Candidates(maps, p, i)
    BY DEF Candidates
<1>4. \A maps, p : Imported(maps, p)' = Imported(maps, p)
    BY <1>1, <1>2, <1>3 DEF Imported
<1>5. \A maps : Closure(maps)' = Closure(maps)
    BY <1>4 DEF Closure
<1>6. Remappings(config)' = Remappings(config)
    BY DEF Remappings, DependencyRemapping, Under
<1>7. \A maps : Uses(maps)' = Uses(maps)
    BY DEF Uses, Units, Needs, SolcUnit
<1>8. Tracks(r)' <=> Tracks(r)
    BY <1>4, <1>5, <1>6, <1>7 DEF Tracks, Seen, HasRead
<1>9. \A maps : Traced(maps)' <=> Traced(maps)
    <2>1. \A maps, p, i : SolcUnit(maps, p, i)' = SolcUnit(maps, p, i)
        BY DEF SolcUnit
    <2> DEFINE ok(maps, f, import) ==
                  /\ import \in Range(Scanned(disk[f]))
                  /\ Existing(Candidates(maps, f, import)) # {}
                  /\ FirstExisting(Candidates(maps, f, import)) = SolcUnit(maps, f, import)
    <2>2. \A maps, f, import : ok(maps, f, import)' <=> ok(maps, f, import)
        BY <1>1, <1>2, <1>3, <2>1
    <2>3. \A maps : Traced(maps) <=> \A f \in Uses(maps) : \A import \in Range(Imports(disk[f])) : ok(maps, f, import)
        BY DEF Traced
    <2>4. \A maps : Traced(maps)' <=>
                       \A f \in Uses(maps)' : \A import \in Range(Imports(disk'[f])) : ok(maps, f, import)'
        BY DEF Traced
    <2> HIDE DEF ok
    <2> QED
        BY <1>7, <2>2, <2>3, <2>4
<1>10. \A maps : Missed(maps)' = Missed(maps)
    BY <1>5, <1>7, <1>9 DEF Missed
<1>11. \A out, f : MadeWith(out, f)' <=> MadeWith(out, f)
    BY DEF MadeWith
<1>12. Current(r)' <=> Current(r)
    BY <1>6, <1>7, <1>10, <1>11 DEF Current, InputSettings
<1>13. Sound(r)' <=> Sound(r)
    BY <1>8, <1>12 DEF Sound, Compiles, Compiled, Fetches, Idle
<1> QED
    BY <1>13 DEF DiskOK

\* A process moves on and leaves the disk alone.
LEMMA ProcessMoves ==
    ASSUME CompileInv, NEW p \in Procs, NEW r, Sound(r), proc' = [proc EXCEPT ![p] = r],
           UNCHANGED <<disk, config, crashes>>, CacheSound'
    PROVE  CompileInv'
<1>1. DiskOK /\ DOMAIN proc = Procs /\ crashes \in Nat /\ \A q \in Procs : Sound(proc[q])
    BY DEF CompileInv
<1>2. DOMAIN proc' = Procs /\ \A q \in Procs : proc'[q] = IF q = p THEN r ELSE proc[q]
    BY <1>1
<1>3. ASSUME NEW q \in Procs PROVE Sound(proc[q])'
    <2>1. PICK x : x = IF q = p THEN r ELSE proc[q]
        OBVIOUS
    <2>2. Sound(x)
        BY <1>1, <2>1
    <2>3. Sound(x)'
        BY <2>2, ViewStays
    <2>4. proc'[q] = x
        BY <1>2, <2>1
    <2> QED
        BY <2>3, <2>4
<1>4. DiskOK'
    BY <1>1, ViewStays
<1> QED
    BY <1>1, <1>2, <1>3, <1>4 DEF CompileInv

\* Every other step unsettles whoever reads the disk.
LEMMA DiskMoves ==
    ASSUME CompileInv, NEW g, DOMAIN g = Procs,
           \A q \in Procs : g[q] = proc[q] \/ g[q] = Idle \/ Fetches(g[q]),
           proc' = Unsettled(g), DiskOK', crashes' \in Nat, cache' = cache
    PROVE  CompileInv'
<1>1. DOMAIN proc = Procs /\ \A q \in Procs : Sound(proc[q])
    BY DEF CompileInv
<1>2. DOMAIN proc' = Procs
    BY DEF Unsettled
<1>3. ASSUME NEW q \in Procs PROVE Sound(proc[q])'
    <2> DEFINE disturbed == {"walk", "install", "download", "fill", "chmod", "run", "publish", "done"}
    <2>1. proc'[q] = IF g[q].pc \in disturbed THEN [g[q] EXCEPT !.settled = FALSE] ELSE g[q]
        BY DEF Unsettled
    <2>2. Sound(g[q])
        BY <1>1 DEF Sound
    <2>3. PICK x : x = g[q]
        OBVIOUS
    <2>4. CASE x.pc \in CompilePcs
        <3>1. Compiles(x) /\ proc'[q] = [x EXCEPT !.settled = FALSE]
            BY <2>1, <2>2, <2>3, <2>4, OneStage DEF CompilePcs
        <3>2. PICK y : y = [x EXCEPT !.settled = FALSE]
            OBVIOUS
        <3>3. Compiles(y) /\ ~y.settled
            BY <3>1, <3>2 DEF Compiles
        <3>4. Sound(y)'
            BY <3>3 DEF Sound, Compiles
        <3> QED
            BY <3>1, <3>2, <3>4
    <2>5. CASE x.pc = "done"
        <3>1. Compiled(x) /\ proc'[q] = [x EXCEPT !.settled = FALSE]
            BY <2>1, <2>2, <2>3, <2>5, OneStage
        <3>2. PICK y : y = [x EXCEPT !.settled = FALSE]
            OBVIOUS
        <3>3. Compiled(y) /\ ~y.settled
            BY <3>1, <3>2 DEF Compiled
        <3>4. Sound(y)'
            BY <3>3 DEF Sound, Compiled
        <3> QED
            BY <3>1, <3>2, <3>4
    <2>6. CASE x.pc \notin CompilePcs /\ x.pc # "done"
        <3>1. proc'[q] = x
            BY <2>1, <2>3, <2>6 DEF CompilePcs
        <3>2. x = Idle \/ Fetches(x)
            BY <2>2, <2>3, <2>6 DEF Sound, Compiles, Compiled
        <3>3. Sound(x)'
            BY <3>2 DEF Sound, Idle, Fetches
        <3> QED
            BY <3>1, <3>3
    <2> QED
        BY <2>4, <2>5, <2>6
<1>4. CacheSound'
    BY DEF CompileInv, CacheSound, CompileHash, Output
<1> QED
    BY <1>2, <1>3, <1>4 DEF CompileInv

\* An undisturbed walk that is over has read the closure as it is on disk.
LEMMA WalkIsOver ==
    ASSUME NEW r, Compiles(r), r.stack = <<>>, Tracks(r)
    PROVE  /\ r.cfg = config /\ r.maps = Remappings(config)
           /\ r.sources = [f \in Closure(Remappings(config)) |-> disk[f]]
<1>1. Range(r.stack) = {}
    BY DEF Range
<1>2. Seen(r) = DOMAIN r.sources
    BY <1>1 DEF Seen
<1>3. /\ Target \in DOMAIN r.sources /\ DOMAIN r.sources \subseteq Closure(r.maps)
      /\ \A f \in DOMAIN r.sources : r.sources[f] = disk[f] /\ Imported(r.maps, f) \subseteq DOMAIN r.sources
    BY <1>2 DEF Tracks
<1>4. DOMAIN r.sources = Closure(r.maps)
    BY <1>3, ClosureIs
<1>5. r.maps = Remappings(config) /\ r.cfg = config
    BY DEF Tracks
<1>6. r.sources = [f \in DOMAIN r.sources |-> r.sources[f]]
    BY DEF Compiles
<1> QED
    BY <1>3, <1>4, <1>5, <1>6

\* What a finished walk is compiled to is current, and so is an entry of the
\* cache that was compiled from the same input.
LEMMA OutputIsCurrent ==
    ASSUME NEW r, Compiles(r), r.stack = <<>>, r.settled => Tracks(r),
           NEW ran, NEW read, ran /\ r.settled => HasRead(r, read),
           NEW d, d = [pc |-> "done", job |-> r.job, cfg |-> r.cfg, settled |-> r.settled,
                       output |-> Output(r.cfg.version, InputSettings(r.job, r.cfg, r.maps), r.sources, read),
                       ran |-> ran]
    PROVE  Sound(d)
<1>1. Compiled(d)
    BY DEF Compiles, Compiled
<1>2. ASSUME d.settled PROVE Current(d)
    <2> DEFINE maps == Remappings(config)
    <2>1. Tracks(r) /\ d.job = r.job /\ d.ran = ran
        BY <1>2
    <2>2. /\ r.cfg = config /\ r.maps = maps
          /\ r.sources = [f \in Closure(maps) |-> disk[f]]
        BY <2>1, WalkIsOver
    <2>3. /\ d.output.version = config.version /\ d.output.settings = InputSettings(d.job, config, maps)
          /\ d.output.sources = r.sources /\ d.output.read = read
        BY <2>1, <2>2 DEF Output
    <2>4. Target \in DOMAIN disk
        BY <2>1, ClosureIs DEF Tracks
    <2>5. ASSUME NEW f \in Uses(maps) PROVE MadeWith(d.output, f) \/ (~d.ran /\ f \in Missed(maps))
        <3>1. CASE f \in Closure(maps)
            BY <2>2, <2>3, <3>1 DEF MadeWith
        <3>2. CASE f \notin Closure(maps) /\ ~ran
            BY <2>1, <2>4, <2>5, <3>2, TracedIsWalked DEF Missed
        <3>3. CASE f \notin Closure(maps) /\ ran
            <4>1. HasRead(r, read)
                BY <1>2, <3>3
            <4>2. f \in DOMAIN read /\ read[f] = disk[f]
                BY <2>2, <2>5, <3>3, <4>1 DEF HasRead
            <4> QED
                BY <2>3, <4>2 DEF MadeWith
        <3> QED
            BY <3>1, <3>2, <3>3
    <2> QED
        BY <2>3, <2>5 DEF Current
<1> QED
    BY <1>1, <1>2 DEF Sound

\* One file of the walk.
LEMMA WalkOne ==
    ASSUME CompileInv, NEW r, Compiles(r), r.settled => Tracks(r), r.pc = "walk", r.stack # <<>>,
           NEW path, path = Last(r.stack), NEW below, below = Front(r.stack)
    PROVE  /\ path \in DOMAIN r.sources => Sound([r EXCEPT !.stack = below])
           /\ path \notin DOMAIN r.sources /\ path \in DOMAIN disk =>
                 Sound([r EXCEPT !.stack = below \o Resolved(r.maps, path, Scanned(disk[path])),
                                 !.sources = With(@, path, disk[path])])
<1>1. IsList(r.stack)
    BY DEF Compiles
<1>2. IsList(below) /\ Range(r.stack) = Range(below) \union {path}
    <2>1. /\ Len(r.stack) \in Nat \ {0} /\ DOMAIN r.stack = 1 .. Len(r.stack)
          /\ IsList(below) /\ Len(below) = Len(r.stack) - 1
          /\ \A i \in 1 .. Len(r.stack) - 1 : below[i] = r.stack[i]
          /\ path = r.stack[Len(r.stack)]
        BY <1>1, ListEnds
    <2>2. DOMAIN below = 1 .. Len(r.stack) - 1
        BY <2>1, ListLength
    <2>3. \A i : i \in 1 .. Len(r.stack) <=> i \in 1 .. Len(r.stack) - 1 \/ i = Len(r.stack)
        BY <2>1
    <2> QED
        BY <2>1, <2>2, <2>3 DEF Range
<1>3. ASSUME path \in DOMAIN r.sources PROVE Sound([r EXCEPT !.stack = below])
    <2>1. PICK y : y = [r EXCEPT !.stack = below]
        OBVIOUS
    <2>2. /\ Compiles(y) /\ y.settled = r.settled /\ y.cfg = r.cfg /\ y.maps = r.maps
          /\ y.sources = r.sources /\ y.stack = below /\ y.pc = "walk"
        BY <1>2, <2>1 DEF Compiles
    <2>3. Seen(y) = Seen(r)
        BY <1>2, <1>3, <2>2 DEF Seen
    <2>4. y.settled => Tracks(y)
        BY <2>2, <2>3 DEF Tracks
    <2> QED
        BY <2>1, <2>2, <2>4 DEF Sound
<1>4. ASSUME path \notin DOMAIN r.sources, path \in DOMAIN disk
      PROVE  Sound([r EXCEPT !.stack = below \o Resolved(r.maps, path, Scanned(disk[path])),
                             !.sources = With(@, path, disk[path])])
    <2> DEFINE found == Resolved(r.maps, path, Scanned(disk[path]))
    <2>1. IsList(found) /\ Range(found) = Imported(r.maps, path)
        <3>1. IsList(Scanned(disk[path]))
            BY <1>4, BuildAssumption DEF CompileInv, DiskOK, IsList
        <3> QED
            BY <3>1, ResolvedAre
    <2> HIDE DEF found
    <2>2. IsList(below \o found)
        BY <1>2, <2>1, ListConcat
    <2>3. Range(below \o found) = Range(below) \union Range(found)
        <3>1. /\ Len(below) \in Nat /\ DOMAIN below = 1 .. Len(below)
              /\ Len(found) \in Nat /\ DOMAIN found = 1 .. Len(found)
            BY <1>2, <2>1, ListLength
        <3>2. PICK S : below \in Seq(S)
            BY <1>2 DEF IsList
        <3>3. PICK T : found \in Seq(T)
            BY <2>1 DEF IsList
        <3>4. below \in Seq(S \union T) /\ found \in Seq(S \union T)
            BY <3>2, <3>3
        <3> DEFINE b == below \o found
        <3>5. /\ b \in Seq(S \union T) /\ Len(b) = Len(below) + Len(found)
              /\ \A i \in 1 .. Len(below) : b[i] = below[i]
              /\ \A i \in Len(below) + 1 .. Len(below) + Len(found) : b[i] = found[i - Len(below)]
            BY <3>4, ConcatProperties
        <3> HIDE DEF b
        <3>6. DOMAIN b = 1 .. Len(below) + Len(found)
            BY <3>1, <3>5
        <3>7. ASSUME NEW i \in DOMAIN b PROVE b[i] \in Range(below) \union Range(found)
            <4>1. i \in 1 .. Len(below) \/ (i \in Len(below) + 1 .. Len(below) + Len(found) /\ i - Len(below) \in 1 .. Len(found))
                BY <3>1, <3>6
            <4> QED
                BY <3>1, <3>5, <4>1 DEF Range
        <3>8. ASSUME NEW i \in DOMAIN below PROVE below[i] \in Range(b)
            <4>1. i \in DOMAIN b /\ b[i] = below[i]
                BY <3>1, <3>5, <3>6
            <4> QED
                BY <4>1 DEF Range
        <3>9. ASSUME NEW i \in DOMAIN found PROVE found[i] \in Range(b)
            <4>1. /\ Len(below) + i \in DOMAIN b /\ Len(below) + i \in Len(below) + 1 .. Len(below) + Len(found)
                  /\ (Len(below) + i) - Len(below) = i
                BY <3>1, <3>6
            <4>2. b[Len(below) + i] = found[i]
                BY <3>5, <4>1
            <4> QED
                BY <4>1, <4>2 DEF Range
        <3>10. Range(b) = Range(below) \union Range(found)
            BY <3>7, <3>8, <3>9 DEF Range
        <3> QED
            BY <3>10 DEF b
    <2>4. PICK w : w = With(r.sources, path, disk[path])
        OBVIOUS
    <2>5. /\ w = [f \in DOMAIN w |-> w[f]] /\ DOMAIN w = DOMAIN r.sources \union {path}
          /\ w[path] = disk[path] /\ \A f \in DOMAIN r.sources : w[f] = r.sources[f]
        BY <1>4, <2>4 DEF With
    <2>6. PICK y : y = [r EXCEPT !.stack = below \o found, !.sources = With(@, path, disk[path])]
        OBVIOUS
    <2>7. /\ Compiles(y) /\ y.settled = r.settled /\ y.cfg = r.cfg /\ y.maps = r.maps
          /\ y.sources = w /\ y.stack = below \o found /\ y.pc = "walk"
        <3>1. y = [pc |-> r.pc, job |-> r.job, cfg |-> r.cfg, maps |-> r.maps, stack |-> below \o found,
                   sources |-> w, settled |-> r.settled, read |-> r.read]
            BY <2>4, <2>6 DEF Compiles
        <3> QED
            BY <2>2, <2>5, <3>1 DEF Compiles
    <2>8. Seen(y) = Seen(r) \union Imported(r.maps, path)
        BY <1>2, <2>1, <2>3, <2>5, <2>7 DEF Seen
    <2>9. ASSUME y.settled PROVE Tracks(y)
        <3>1. Tracks(r)
            BY <2>7, <2>9
        <3>2. path \in Seen(r)
            BY <1>2 DEF Seen
        <3>3. Imported(r.maps, path) \subseteq Closure(r.maps)
            BY <3>1, <3>2, ClosureIs DEF Tracks
        <3>4. \A f \in DOMAIN w : w[f] = disk[f] /\ Imported(r.maps, f) \subseteq Seen(y)
            BY <2>5, <2>8, <3>1 DEF Tracks
        <3> QED
            BY <2>7, <2>8, <3>1, <3>3, <3>4 DEF Tracks
    <2> QED
        BY <2>6, <2>7, <2>9 DEF Sound, found
<1> QED
    BY <1>3, <1>4
-----------------------------------------------------------------------------
(* Paths *)

\* A sequence over a set is one over any wider set.
LEMMA WiderSeq == ASSUME NEW S, NEW T, S \subseteq T, NEW f \in Seq(S) PROVE f \in Seq(T)
OBVIOUS

\* A segment after a path.
LEMMA Appended ==
    ASSUME NEW S, NEW d \in Seq(S), NEW t \in S
    PROVE  /\ Append(d, t) \in Seq(S) /\ Len(Append(d, t)) = Len(d) + 1
           /\ \A i \in 1 .. Len(d) : Append(d, t)[i] = d[i]
           /\ Append(d, t)[Len(d) + 1] = t
<1>1. Append(d, t) \in Seq(S)
    OBVIOUS
<1>2. Len(Append(d, t)) = Len(d) + 1
    OBVIOUS
<1>3. \A i \in 1 .. Len(d) : Append(d, t)[i] = d[i]
    OBVIOUS
<1>4. Append(d, t)[Len(d) + 1] = t
    OBVIOUS
<1> QED
    BY <1>1, <1>2, <1>3, <1>4

\* A third segment after two.
LEMMA OneFurther ==
    ASSUME NEW S, NEW d \in Seq(S), Len(d) = 2, NEW t \in S
    PROVE  /\ Append(d, t) \in Seq(S) /\ Len(Append(d, t)) = 3
           /\ Append(d, t)[1] = d[1] /\ Append(d, t)[2] = d[2] /\ Append(d, t)[3] = t
<1> DEFINE c == Append(d, t)
<1>1. /\ c \in Seq(S) /\ Len(c) = Len(d) + 1
      /\ \A i \in 1 .. Len(d) : c[i] = d[i]
      /\ c[Len(d) + 1] = t
    BY Appended
<1>2. 1 \in 1 .. Len(d) /\ 2 \in 1 .. Len(d) /\ Len(d) + 1 = 3
    OBVIOUS
<1> HIDE DEF c
<1>3. c \in Seq(S) /\ Len(c) = 3 /\ c[1] = d[1] /\ c[2] = d[2] /\ c[3] = t
    BY <1>1, <1>2
<1> QED
    BY <1>3 DEF c

\* A prefix agrees with the path where it is defined.
LEMMA PrefixIs ==
    ASSUME NEW s \in Paths, NEW t \in Paths
    PROVE  IsPrefix(s, t) <=> Len(s) <= Len(t) /\ \A i \in 1 .. Len(s) : s[i] = t[i]
<1>0. Len(s) \in Nat /\ Len(t) \in Nat
    BY DEF Paths
<1>1. CASE Len(s) <= Len(t)
    <2> DEFINE a == SubSeq(s, 1, Len(s))
               b == SubSeq(t, 1, Len(s))
    <2>1. /\ a \in Seq(Segments) /\ Len(a) = Len(s) /\ \A i \in 1 .. Len(s) : a[i] = s[i]
          /\ b \in Seq(Segments) /\ Len(b) = Len(s) /\ \A i \in 1 .. Len(s) : b[i] = t[i]
        BY <1>0, <1>1, SubSeqProperties DEF Paths
    <2> HIDE DEF a, b
    <2>2. a = b <=> \A i \in 1 .. Len(s) : s[i] = t[i]
        BY <1>0, <2>1
    <2> QED
        BY <1>1, <2>2 DEF IsPrefix, a, b
<1>2. CASE ~(Len(s) <= Len(t))
    BY <1>2 DEF IsPrefix
<1> QED
    BY <1>1, <1>2

\* What follows a prefix completes it.
LEMMA RestIs ==
    ASSUME NEW s \in Paths, NEW t \in Paths, IsPrefix(s, t)
    PROVE  Rest(s, t) \in Paths /\ s \o Rest(s, t) = t
<1>0. /\ Len(s) \in Nat /\ Len(t) \in Nat /\ Len(s) <= Len(t)
      /\ \A i \in 1 .. Len(s) : s[i] = t[i]
    BY PrefixIs DEF Paths
<1> DEFINE r == SubSeq(t, Len(s) + 1, Len(t))
           c == s \o r
<1>1. /\ r \in Seq(Segments) /\ Len(r) = Len(t) - Len(s)
      /\ \A i \in 1 .. Len(t) - Len(s) : r[i] = t[Len(s) + i]
    BY <1>0 DEF Paths
<1> HIDE DEF r
<1>2. /\ c \in Seq(Segments) /\ Len(c) = Len(t)
      /\ \A i \in 1 .. Len(s) : c[i] = s[i]
      /\ \A i \in Len(s) + 1 .. Len(t) : c[i] = r[i - Len(s)]
    BY <1>0, <1>1 DEF Paths
<1> HIDE DEF c
<1>3. ASSUME NEW i \in 1 .. Len(t) PROVE c[i] = t[i]
    <2>1. CASE i <= Len(s)
        BY <1>0, <1>2, <2>1
    <2>2. CASE i > Len(s)
        <3>1. /\ i \in Len(s) + 1 .. Len(t) /\ i - Len(s) \in 1 .. Len(t) - Len(s)
              /\ Len(s) + (i - Len(s)) = i
            BY <1>0, <2>2
        <3>2. r[i - Len(s)] = t[Len(s) + (i - Len(s))]
            BY <1>1, <3>1
        <3> QED
            BY <1>2, <3>1, <3>2
    <2> QED
        BY <1>0, <2>1, <2>2
<1>4. t \in Seq(Segments)
    BY DEF Paths
<1>5. c = t
    <2>1. DOMAIN c = 1 .. Len(t) /\ DOMAIN t = 1 .. Len(t)
        BY <1>0, <1>2, <1>4
    <2>2. c = [i \in DOMAIN c |-> c[i]] /\ t = [i \in DOMAIN t |-> t[i]]
        BY <1>2, <1>4
    <2> QED
        BY <1>3, <2>1, <2>2
<1> QED
    BY <1>1, <1>5 DEF Rest, Paths, r, c

\* A path with something before it has that as a prefix, and itself as the rest.
LEMMA JoinIs ==
    ASSUME NEW s \in Paths, NEW r \in Paths
    PROVE  s \o r \in Paths /\ IsPrefix(s, s \o r) /\ Rest(s, s \o r) = r
           /\ Len(s \o r) = Len(s) + Len(r)
           /\ \A i \in 1 .. Len(s) : (s \o r)[i] = s[i]
<1> DEFINE c == s \o r
           x == SubSeq(c, Len(s) + 1, Len(c))
<1>0. Len(s) \in Nat /\ Len(r) \in Nat
    BY DEF Paths
<1>1. /\ c \in Seq(Segments) /\ Len(c) = Len(s) + Len(r)
      /\ \A i \in 1 .. Len(s) : c[i] = s[i]
      /\ \A i \in Len(s) + 1 .. Len(s) + Len(r) : c[i] = r[i - Len(s)]
    BY DEF Paths
<1> HIDE DEF c
<1>2. IsPrefix(s, c)
    <2>1. c \in Paths /\ Len(s) <= Len(c)
        BY <1>0, <1>1 DEF Paths
    <2> QED
        BY <1>1, <2>1, PrefixIs
<1>3. /\ x \in Seq(Segments) /\ Len(x) = Len(r)
      /\ \A i \in 1 .. Len(r) : x[i] = c[Len(s) + i]
    BY <1>0, <1>1
<1> HIDE DEF x
<1>4. ASSUME NEW i \in 1 .. Len(r) PROVE x[i] = r[i]
    <2>1. Len(s) + i \in Len(s) + 1 .. Len(s) + Len(r) /\ (Len(s) + i) - Len(s) = i
        BY <1>0
    <2> QED
        BY <1>1, <1>3, <2>1
<1>5. r \in Seq(Segments)
    BY DEF Paths
<1>6. x = r
    BY <1>3, <1>4, <1>5
<1> QED
    BY <1>1, <1>2, <1>6 DEF Rest, Paths, c, x

\* The directories of a dependency, and the paths below them.
LEMMA DirIs ==
    ASSUME NEW name \in Segments
    PROVE  /\ Dir(name) \in Paths /\ Staging(name) \in Paths
           /\ Len(Dir(name)) = 2 /\ Len(Staging(name)) = 2
           /\ \A f \in Paths : IsPrefix(Dir(name), f) <=> Len(f) >= 2 /\ f[1] = "dependencies" /\ f[2] = name
           /\ \A f \in Paths : IsPrefix(Staging(name), f) <=> Len(f) >= 2 /\ f[1] = "staging" /\ f[2] = name
<1>1. ASSUME NEW top \in Segments
      PROVE  /\ <<top, name>> \in Paths /\ Len(<<top, name>>) = 2
             /\ \A f \in Paths : IsPrefix(<<top, name>>, f) <=> Len(f) >= 2 /\ f[1] = top /\ f[2] = name
    <2> DEFINE d == <<top, name>>
    <2>1. d \in Paths /\ Len(d) = 2 /\ d[1] = top /\ d[2] = name
        BY DEF Paths
    <2> HIDE DEF d
    <2>2. ASSUME NEW f \in Paths PROVE IsPrefix(d, f) <=> Len(f) >= 2 /\ f[1] = top /\ f[2] = name
        <3>1. Len(f) \in Nat
            BY DEF Paths
        <3>2. 1 .. Len(d) = {1, 2}
            BY <2>1
        <3> QED
            BY <2>1, <3>1, <3>2, PrefixIs
    <2> QED
        BY <2>1, <2>2 DEF d
<1>2. "dependencies" \in Segments /\ "staging" \in Segments
    BY DEF Segments
<1> QED
    BY <1>1, <1>2 DEF Dir, Staging

\* What renaming a directory makes of a tree: what is not below it stays, what
\* is below it moves, unless something that stays is in the way.
Renames(m, t, from, to) ==
    /\ m = [f \in DOMAIN m |-> m[f]]
    /\ \A q \in DOMAIN m : \/ q \in DOMAIN t /\ ~IsPrefix(from, q)
                           \/ \E f \in DOMAIN t : IsPrefix(from, f) /\ q = to \o Rest(from, f)
    /\ \A f \in DOMAIN t : ~IsPrefix(from, f) => f \in DOMAIN m /\ m[f] = t[f]
    /\ \A f \in DOMAIN t : IsPrefix(from, f) =>
          /\ to \o Rest(from, f) \in Paths /\ IsPrefix(to, to \o Rest(from, f))
          /\ to \o Rest(from, f) \in DOMAIN m
          /\ \/ m[to \o Rest(from, f)] = t[f]
             \/ to \o Rest(from, f) \in DOMAIN t /\ ~IsPrefix(from, to \o Rest(from, f))

\* Moved renames.
LEMMA MovedIs ==
    ASSUME NEW t, \A f \in DOMAIN t : f \in Paths, NEW from \in Paths, NEW to \in Paths
    PROVE  Renames(Moved(t, from, to), t, from, to)
<1> DEFINE ps == {f \in DOMAIN t : IsPrefix(from, f)}
           k == Removed(t, ps)
           D == DOMAIN k \union {to \o Rest(from, f) : f \in ps}
           m == [q \in D |-> IF q \in DOMAIN k THEN k[q] ELSE t[from \o Rest(to, q)]]
<1>1. Moved(t, from, to) = m
    BY DEF Moved
<1>2. DOMAIN k = {f \in DOMAIN t : ~IsPrefix(from, f)} /\ \A f \in DOMAIN k : k[f] = t[f]
    BY DEF Removed
<1> HIDE DEF k
<1>3. ASSUME NEW f \in DOMAIN t, IsPrefix(from, f)
      PROVE  /\ to \o Rest(from, f) \in Paths /\ IsPrefix(to, to \o Rest(from, f))
             /\ \/ m[to \o Rest(from, f)] = t[f]
                \/ to \o Rest(from, f) \in DOMAIN t /\ ~IsPrefix(from, to \o Rest(from, f))
    <2> DEFINE q == to \o Rest(from, f)
    <2>1. Rest(from, f) \in Paths /\ from \o Rest(from, f) = f
        BY <1>3, RestIs
    <2>2. q \in Paths /\ IsPrefix(to, q) /\ Rest(to, q) = Rest(from, f)
        BY <2>1, JoinIs
    <2>3. q \in D
        BY <1>3
    <2> HIDE DEF q, D
    <2>5. q \notin DOMAIN k => m[q] = t[from \o Rest(to, q)]
        BY <2>3
    <2>6. q \notin DOMAIN k => m[q] = t[f]
        BY <2>1, <2>2, <2>5
    <2>7. q \in DOMAIN k => q \in DOMAIN t /\ ~IsPrefix(from, q)
        BY <1>2
    <2> HIDE DEF m
    <2> QED
        BY <2>2, <2>6, <2>7 DEF q
<1>4. \A f \in DOMAIN t : ~IsPrefix(from, f) => m[f] = t[f]
    BY <1>2
<1>5. DOMAIN m = {f \in DOMAIN t : ~IsPrefix(from, f)} \union {to \o Rest(from, f) : f \in ps}
    BY <1>2
<1>6. m = [f \in DOMAIN m |-> m[f]]
    OBVIOUS
<1> HIDE DEF m
<1>7. Renames(m, t, from, to)
    BY <1>3, <1>4, <1>5, <1>6 DEF Renames
<1> QED
    BY <1>1, <1>7

\* The entries of an archive are a list of files with a path each.
LEMMA EntriesAre ==
    ASSUME NEW a \in Archives
    PROVE  /\ IsList(a.entries)
           /\ \A i \in DOMAIN a.entries : /\ a.entries[i].path \in Paths
                                          /\ [hash |-> a.hash, file |-> a.entries[i].path] \in Contents
<1>1. a.entries \in Seq(Range(a.entries)) /\ \A e \in Range(a.entries) : e.path \in Seq(STRING) \ {<<>>}
    BY BuildAssumption
<1>2. ASSUME NEW i \in DOMAIN a.entries
      PROVE  /\ a.entries[i].path \in Paths
             /\ [hash |-> a.hash, file |-> a.entries[i].path] \in Contents
    <2>1. a.entries[i] \in Range(a.entries)
        BY DEF Range
    <2>2. a.entries[i].path \in Seq(STRING)
        BY <1>1, <2>1
    <2>3. STRING \subseteq Segments
        BY DEF Segments
    <2>4. a.entries[i].path \in Paths
        BY <2>2, <2>3, WiderSeq DEF Paths
    <2> QED
        BY <2>1, <2>4 DEF Contents
<1> QED
    BY <1>1, <1>2 DEF IsList

\* The names of dependencies are segments, and what the user writes are files.
LEMMA GivenPaths ==
    /\ Names \subseteq Segments
    /\ \A e \in Edits : e.path \in Paths /\ e.content \in Contents
    /\ \A f \in DOMAIN Disk0 : f \in Paths /\ Disk0[f] \in Contents
<1>1. STRING \subseteq Segments
    BY DEF Segments
<1>2. DOMAIN Disk0 \union {e.path : e \in Edits} \subseteq Seq(STRING) /\ Names \subseteq STRING
    BY BuildAssumption
<1>3. \A f \in Seq(STRING) : f \in Paths
    BY <1>1, WiderSeq DEF Paths
<1>4. \A f \in DOMAIN Disk0 : Disk0[f] \in Contents
    BY DEF Contents, Range
<1>5. \A e \in Edits : e.content \in Contents
    BY DEF Contents
<1> QED
    BY <1>1, <1>2, <1>3, <1>4, <1>5

\* Removing files, writing one and renaming a directory leave a tree of files.
LEMMA TreeStays ==
    ASSUME DiskOK
    PROVE  /\ \A gone : disk' = Removed(disk, gone) => DiskOK'
           /\ \A f \in Paths, c \in Contents : disk' = With(disk, f, c) => DiskOK'
           /\ \A from \in Paths, to \in Paths : \A gone :
                 disk' = Removed(Moved(disk, from, to), gone) => DiskOK'
<1>0. \A f \in DOMAIN disk : f \in Paths /\ disk[f] \in Contents
    BY DEF DiskOK
<1>1. ASSUME NEW gone, disk' = Removed(disk, gone) PROVE DiskOK'
    BY <1>0, <1>1 DEF DiskOK, Removed, Paths, Segments, Contents
<1>2. ASSUME NEW f \in Paths, NEW c \in Contents, disk' = With(disk, f, c) PROVE DiskOK'
    BY <1>0, <1>2 DEF DiskOK, With, Paths, Segments
<1>3. ASSUME NEW from \in Paths, NEW to \in Paths, NEW gone, disk' = Removed(Moved(disk, from, to), gone)
      PROVE  DiskOK'
    <2> DEFINE m == Moved(disk, from, to)
    <2>0. PICK t : t = disk
        OBVIOUS
    <2>1. Renames(m, t, from, to)
        BY <1>0, <2>0, MovedIs
    <2> HIDE DEF m
    <2>2. \A q \in DOMAIN m : q \in Paths /\ m[q] \in Contents
        BY <1>0, <2>0, <2>1 DEF Renames
    <2>3. disk' = Removed(m, gone)
        BY <1>3 DEF m
    <2> QED
        BY <2>2, <2>3 DEF DiskOK, Removed
<1> QED
    BY <1>1, <1>2, <1>3

\* The root of what is staged is a directory, and everything staged is below it.
LEMMA CollapsedIs ==
    ASSUME DiskOK, NEW name \in Names
    PROVE  /\ Collapsed(Staging(name)) \in Paths
           /\ \A f \in Under(Staging(name)) : IsPrefix(Collapsed(Staging(name)), f)
           /\ \A f \in Paths : IsPrefix(Collapsed(Staging(name)), f) => IsPrefix(Staging(name), f)
<1> DEFINE dir == Staging(name)
           only(t) == \A p \in Under(dir) : Len(p) > Len(dir) + 1 /\ p[Len(dir) + 1] = t
           tops == {p[Len(dir) + 1] : p \in Under(dir)}
<1>1. /\ dir \in Paths /\ Len(dir) = 2
      /\ \A f \in Paths : IsPrefix(dir, f) <=> Len(f) >= 2 /\ f[1] = "staging" /\ f[2] = name
    BY GivenPaths, DirIs
<1>2. \A f \in Under(dir) : f \in Paths /\ IsPrefix(dir, f)
    BY DEF DiskOK, Under
<1>3. CASE \E t \in tops : only(t)
    <2>1. PICK t : t = CHOOSE u \in tops : only(u)
        OBVIOUS
    <2>2. t \in tops /\ only(t) /\ Collapsed(dir) = Append(dir, t)
        BY <1>3, <2>1 DEF Collapsed
    <2>3. /\ t \in Segments
          /\ \A f \in Under(dir) : Len(f) > 3 /\ f[3] = t
        <3>0. \A f \in Under(dir) : Len(f) > 3 /\ f[3] = t
            BY <1>1, <2>2
        <3>1. PICK f \in Under(dir) : t = f[Len(dir) + 1]
            BY <2>2
        <3>2. f \in Seq(Segments) /\ Len(f) > 3 /\ t = f[3] /\ Len(f) \in Nat
            BY <1>1, <1>2, <3>0, <3>1 DEF Paths
        <3>3. 3 \in 1 .. Len(f)
            BY <3>2
        <3>4. t \in Segments
            BY <3>2, <3>3
        <3> QED
            BY <3>0, <3>4
    <2> DEFINE c == Append(dir, t)
    <2>4. c \in Paths /\ Len(c) = 3 /\ c[1] = dir[1] /\ c[2] = dir[2] /\ c[3] = t
        <3>1. PICK d : d = dir
            OBVIOUS
        <3>2. d \in Seq(Segments) /\ Len(d) = 2
            BY <1>1, <3>1 DEF Paths
        <3>3. /\ Append(d, t) \in Seq(Segments) /\ Len(Append(d, t)) = 3
              /\ Append(d, t)[1] = d[1] /\ Append(d, t)[2] = d[2] /\ Append(d, t)[3] = t
            BY <2>3, <3>2, OneFurther
        <3> QED
            BY <3>1, <3>3 DEF Paths
    <2> HIDE DEF c
    <2>5. dir[1] = "staging" /\ dir[2] = name
        <3>1. IsPrefix(dir, dir)
            BY <1>1, PrefixIs DEF Paths
        <3> QED
            BY <1>1, <3>1
    <2>6. \A f \in Paths : IsPrefix(c, f) <=> Len(f) >= 3 /\ f[1] = "staging" /\ f[2] = name /\ f[3] = t
        <3>1. 1 .. 3 = {1, 2, 3}
            OBVIOUS
        <3> TAKE f \in Paths
        <3>2. IsPrefix(c, f) <=> 3 <= Len(f) /\ \A i \in {1, 2, 3} : c[i] = f[i]
            BY <2>4, <3>1, PrefixIs
        <3>3. Len(f) \in Nat
            BY DEF Paths
        <3> QED
            BY <2>4, <2>5, <3>2, <3>3
    <2>7. \A f \in Paths : Len(f) \in Nat
        BY DEF Paths
    <2>8. \A f \in Under(dir) : IsPrefix(c, f)
        BY <1>1, <1>2, <2>3, <2>6, <2>7
    <2>9. \A f \in Paths : IsPrefix(c, f) => IsPrefix(dir, f)
        BY <1>1, <2>6, <2>7
    <2> QED
        BY <2>2, <2>4, <2>8, <2>9 DEF c
<1>4. CASE ~\E t \in tops : only(t)
    <2>1. Collapsed(dir) = dir
        BY <1>4 DEF Collapsed
    <2> QED
        BY <1>1, <1>2, <2>1
<1> QED
    BY <1>3, <1>4

-----------------------------------------------------------------------------
(* Every step of a build *)

\* The cache is what it was while nothing is published.
LEMMA CacheStays == ASSUME CacheSound, cache' = cache PROVE CacheSound'
BY DEF CacheSound, CompileHash, Output

\* A step of the walk, and the end of it.
LEMMA WalkStep ==
    ASSUME CompileInv, NEW p \in Procs, Walk(p)
    PROVE  CompileInv'
<1> DEFINE r == proc[p]
           path == Last(r.stack)
           below == Front(r.stack)
           next == CASE path \in DOMAIN r.sources -> [r EXCEPT !.stack = below]
                     [] path \notin DOMAIN r.sources \union DOMAIN disk -> Idle
                     [] OTHER ->
                          [r EXCEPT !.stack = below \o Resolved(r.maps, path, Scanned(disk[path])),
                                    !.sources = With(@, path, disk[path])]
<1>1. r.pc = "walk" /\ r.stack # <<>> /\ proc' = [proc EXCEPT ![p] = next]
      /\ UNCHANGED <<disk, config, crashes, cache>>
    BY DEF Walk, Set
<1>2. Compiles(r) /\ (r.settled => Tracks(r))
    BY <1>1, OneStage DEF CompileInv, CompilePcs
<1>3. Sound(Idle)
    BY DEF Sound
<1>4. Sound(next)
    <2>2. path \in DOMAIN r.sources => Sound([r EXCEPT !.stack = below])
        BY <1>1, <1>2, WalkOne
    <2>3. path \notin DOMAIN r.sources /\ path \in DOMAIN disk =>
             Sound([r EXCEPT !.stack = below \o Resolved(r.maps, path, Scanned(disk[path])),
                             !.sources = With(@, path, disk[path])])
        BY <1>1, <1>2, WalkOne
    <2>4. CASE path \in DOMAIN r.sources
        <3>1. next = [r EXCEPT !.stack = below]
            BY <2>4
        <3> QED
            BY <2>2, <2>4, <3>1
    <2>5. CASE path \notin DOMAIN r.sources /\ path \notin DOMAIN disk
        <3>1. next = Idle
            BY <2>5
        <3> QED
            BY <1>3, <3>1
    <2>6. CASE path \notin DOMAIN r.sources /\ path \in DOMAIN disk
        <3>1. next = [r EXCEPT !.stack = below \o Resolved(r.maps, path, Scanned(disk[path])),
                               !.sources = With(@, path, disk[path])]
            BY <2>6
        <3> QED
            BY <2>3, <2>6, <3>1
    <2> QED
        BY <2>4, <2>5, <2>6
<1>5. CacheSound'
    BY <1>1, CacheStays DEF CompileInv
<1> HIDE DEF next
<1> QED
    BY <1>1, <1>4, <1>5, ProcessMoves

\* A hit of the cache is the output of what was walked, and so is what is
\* published.
LEMMA AnswerStep ==
    ASSUME CompileInv, NEW p \in Procs, Lookup(p) \/ Publish(p)
    PROVE  CompileInv'
<1> DEFINE r == proc[p]
           settings == InputSettings(r.job, r.cfg, r.maps)
           out(read) == Output(r.cfg.version, settings, r.sources, read)
           done(read, ran) == [pc |-> "done", job |-> r.job, cfg |-> r.cfg, settled |-> r.settled,
                               output |-> out(read), ran |-> ran]
<1>1. CacheSound
    BY DEF CompileInv
<1>2. Key(p) = CompileHash(r.cfg.version, settings, r.sources)
    BY DEF Key
<1>3. ASSUME Key(p) \in DOMAIN cache PROVE \E read : cache[Key(p)] = out(read)
    <2>1. PICK version_, given, sources, read :
              /\ Key(p) = CompileHash(version_, given, sources)
              /\ cache[Key(p)] = Output(version_, given, sources, read)
        BY <1>1, <1>3 DEF CacheSound
    <2>2. version_ = r.cfg.version /\ given = settings /\ sources = r.sources
        BY <1>2, <2>1 DEF CompileHash
    <2> QED
        BY <2>1, <2>2
<1>4. r.pc \in {"walk", "publish"} /\ UNCHANGED <<disk, config, crashes>>
    BY DEF Lookup, Publish
<1>5. Compiles(r) /\ (r.settled => Tracks(r)) /\ r.stack = <<>>
    <2>1. Compiles(r) /\ (r.settled => Tracks(r))
        BY <1>4, OneStage DEF CompileInv, CompilePcs
    <2> QED
        BY <2>1 DEF Lookup, Publish, Compiles
<1>6. ASSUME NEW read, NEW ran, ran /\ r.settled => HasRead(r, read)
      PROVE  Sound(done(read, ran))
    <2>1. PICK x : x = r
        OBVIOUS
    <2>2. Compiles(x) /\ (x.settled => Tracks(x)) /\ x.stack = <<>> /\ (ran /\ x.settled => HasRead(x, read))
        BY <1>5, <1>6, <2>1
    <2>3. PICK d : d = done(read, ran)
        OBVIOUS
    <2>4. d = [pc |-> "done", job |-> x.job, cfg |-> x.cfg, settled |-> x.settled,
               output |-> Output(x.cfg.version, InputSettings(x.job, x.cfg, x.maps), x.sources, read),
               ran |-> ran]
        BY <2>1, <2>3
    <2>5. Sound(d)
        BY <2>2, <2>4, OutputIsCurrent
    <2> QED
        BY <2>3, <2>5
<1>7. CASE Lookup(p)
    <2>1. Sound([r EXCEPT !.pc = "install"])
        <3>1. PICK x : x = r
            OBVIOUS
        <3>2. PICK y : y = [x EXCEPT !.pc = "install"]
            OBVIOUS
        <3>3. Compiles(x) /\ (x.settled => Tracks(x)) /\ x.stack = <<>>
            BY <1>5, <3>1
        <3>4. /\ Compiles(y) /\ y.settled = x.settled /\ y.cfg = x.cfg /\ y.maps = x.maps
              /\ y.sources = x.sources /\ y.stack = x.stack /\ y.pc = "install"
            BY <3>2, <3>3 DEF Compiles, CompilePcs
        <3>5. y.settled => Tracks(y)
            BY <3>3, <3>4 DEF Tracks, Seen
        <3> QED
            BY <3>1, <3>2, <3>4, <3>5 DEF Sound
    <2>2. cache' = cache
        BY <1>7 DEF Lookup
    <2>3. CacheSound'
        BY <1>1, <2>2, CacheStays
    <2>4. CASE Key(p) \in DOMAIN cache
        <3>1. PICK read : cache[Key(p)] = out(read)
            BY <1>3, <2>4
        <3>2. proc' = [proc EXCEPT ![p] = done(read, FALSE)]
            BY <1>7, <2>4, <3>1 DEF Lookup, Set
        <3>3. Sound(done(read, FALSE))
            BY <1>6
        <3> HIDE DEF done
        <3> QED
            BY <1>4, <2>3, <3>2, <3>3, ProcessMoves
    <2>5. CASE Key(p) \notin DOMAIN cache
        <3>1. proc' = [proc EXCEPT ![p] = [r EXCEPT !.pc = "install"]]
            BY <1>7, <2>5 DEF Lookup, Set
        <3> QED
            BY <1>4, <2>1, <2>3, <3>1, ProcessMoves
    <2> QED
        BY <2>4, <2>5
<1>8. CASE Publish(p)
    <2>1. cache' = With(cache, Key(p), out(r.read)) /\ proc' = [proc EXCEPT ![p] = done(r.read, TRUE)]
        BY <1>8 DEF Publish, Set
    <2>2. \A k \in DOMAIN cache' : \/ k \in DOMAIN cache /\ cache'[k] = cache[k]
                                   \/ k = Key(p) /\ cache'[k] = out(r.read)
        BY <2>1 DEF With
    <2>3. CacheSound'
        <3> SUFFICES ASSUME NEW k \in DOMAIN cache'
                     PROVE  \E version_, given, sources, read :
                               /\ k = CompileHash(version_, given, sources)
                               /\ cache'[k] = Output(version_, given, sources, read)
            BY DEF CacheSound, CompileHash, Output
        <3> HIDE DEF settings
        <3> QED
            BY <1>1, <1>2, <2>2 DEF CacheSound
    <2>4. r.settled => HasRead(r, r.read)
        BY <1>5, <1>8 DEF Publish, Tracks
    <2>5. Sound(done(r.read, TRUE))
        BY <1>6, <2>4
    <2> HIDE DEF done
    <2> QED
        BY <1>4, <2>1, <2>3, <2>5, ProcessMoves
<1> QED
    BY <1>7, <1>8

\* A compilation starts with the target to be looked at.
LEMMA StartStep ==
    ASSUME CompileInv, NEW p \in Procs, NEW job, StartCompile(p, job)
    PROVE  CompileInv'
<1> DEFINE start == [pc |-> "walk", job |-> job, cfg |-> config, maps |-> Remappings(config),
                     stack |-> <<Target>>, sources |-> <<>>, settled |-> TRUE, read |-> <<>>]
           next == IF Target \notin DOMAIN disk THEN Idle ELSE start
<1>1. proc' = [proc EXCEPT ![p] = next] /\ UNCHANGED <<disk, config, crashes, cache>>
    BY DEF StartCompile, Set
<1>2. ASSUME Target \in DOMAIN disk PROVE Sound(start)
    <2>1. PICK x : x = start
        OBVIOUS
    <2>2. /\ x.pc = "walk" /\ x.cfg = config /\ x.maps = Remappings(config) /\ x.stack = <<Target>>
          /\ x.sources = <<>> /\ x.settled = TRUE
          /\ x = [pc |-> x.pc, job |-> x.job, cfg |-> x.cfg, maps |-> x.maps, stack |-> x.stack,
                  sources |-> x.sources, settled |-> x.settled, read |-> x.read]
        BY <2>1
    <2>3. DOMAIN x.sources = {} /\ x.sources = [f \in DOMAIN x.sources |-> x.sources[f]]
        BY <2>2
    <2>4. Compiles(x)
        BY <2>2, <2>3, SingletonList DEF Compiles, CompilePcs
    <2>5. Seen(x) = {Target}
        <3>1. Range(<<Target>>) = {Target}
            BY DEF Range
        <3> QED
            BY <2>2, <2>3, <3>1 DEF Seen
    <2>6. Target \in Closure(x.maps)
        BY <1>2, ClosureIs
    <2>7. Tracks(x)
        BY <2>2, <2>3, <2>5, <2>6 DEF Tracks
    <2> QED
        BY <2>1, <2>4, <2>7 DEF Sound
<1>3. Sound(next)
    <2>1. Sound(Idle)
        BY DEF Sound
    <2> HIDE DEF start
    <2> QED
        BY <1>2, <2>1
<1>4. CacheSound'
    BY <1>1, CacheStays DEF CompileInv
<1> HIDE DEF next
<1> QED
    BY <1>1, <1>3, <1>4, ProcessMoves

\* The steps between the walk and what is published change nothing but the
\* stage, or give up, until solc has read what the input lacks.
LEMMA StagesStep ==
    ASSUME CompileInv, NEW p \in Procs,
           Install(p) \/ DownloadFails(p) \/ WriteBinary(p) \/ RunSolc(p) \/ Return(p)
    PROVE  CompileInv'
<1>1. UNCHANGED <<disk, config, crashes, cache>>
    BY DEF Install, DownloadFails, WriteBinary, RunSolc, Return
<1>2. \/ proc' = [proc EXCEPT ![p] = Idle]
      \/ /\ proc[p].pc \in CompilePcs \ {"walk"}
         /\ \E stage \in CompilePcs \ {"walk", "publish"} :
               proc' = [proc EXCEPT ![p] = [proc[p] EXCEPT !.pc = stage]]
      \/ /\ proc[p].pc = "run"
         /\ proc' = [proc EXCEPT ![p] = [proc[p] EXCEPT
                         !.pc = "publish", !.read = ReadBySolc(proc[p].maps, proc[p].sources)]]
    <2>1. CASE Install(p)
        BY <2>1 DEF Install, Set, CompilePcs
    <2>2. CASE DownloadFails(p) \/ Return(p)
        BY <2>2 DEF DownloadFails, Return, Set
    <2>3. CASE WriteBinary(p)
        <3>1. proc[p].pc \in {"download", "fill", "chmod"}
            BY <2>3 DEF WriteBinary
        <3> DEFINE stage == CASE proc[p].pc = "download" -> "fill" [] proc[p].pc = "fill" -> "chmod"
                              [] OTHER -> "run"
        <3>2. stage \in CompilePcs \ {"walk", "publish"}
            BY <3>1 DEF CompilePcs
        <3>3. proc' = [proc EXCEPT ![p] = [proc[p] EXCEPT !.pc = stage]]
            BY <2>3 DEF WriteBinary, Set
        <3> QED
            BY <3>1, <3>2, <3>3 DEF CompilePcs
    <2>4. CASE RunSolc(p)
        BY <2>4 DEF RunSolc, Set, CompilePcs
    <2> QED
        BY <2>1, <2>2, <2>3, <2>4
<1>3. CacheSound'
    BY <1>1, CacheStays DEF CompileInv
<1>4. CASE proc' = [proc EXCEPT ![p] = Idle]
    <2>1. Sound(Idle)
        BY DEF Sound
    <2> QED
        BY <1>1, <1>3, <1>4, <2>1, ProcessMoves
<1>5. ASSUME proc[p].pc \in CompilePcs \ {"walk"}, NEW stage \in CompilePcs \ {"walk", "publish"},
             proc' = [proc EXCEPT ![p] = [proc[p] EXCEPT !.pc = stage]]
      PROVE  CompileInv'
    <2>1. PICK x : x = proc[p]
        OBVIOUS
    <2>2. Compiles(x) /\ (x.settled => Tracks(x)) /\ x.pc # "walk"
        BY <1>5, <2>1, OneStage DEF CompileInv
    <2>3. PICK y : y = [x EXCEPT !.pc = stage]
        OBVIOUS
    <2>4. /\ Compiles(y) /\ y.settled = x.settled /\ y.cfg = x.cfg /\ y.maps = x.maps
          /\ y.sources = x.sources /\ y.stack = x.stack /\ y.pc # "publish"
        BY <1>5, <2>2, <2>3 DEF Compiles, CompilePcs
    <2>5. y.settled => Tracks(y)
        BY <2>2, <2>4 DEF Tracks, Seen
    <2>6. Sound(y)
        BY <2>4, <2>5 DEF Sound
    <2>7. proc' = [proc EXCEPT ![p] = y]
        BY <1>5, <2>1, <2>3
    <2> QED
        BY <1>1, <1>3, <2>6, <2>7, ProcessMoves
<1>6. ASSUME proc[p].pc = "run",
             proc' = [proc EXCEPT ![p] = [proc[p] EXCEPT
                         !.pc = "publish", !.read = ReadBySolc(proc[p].maps, proc[p].sources)]]
      PROVE  CompileInv'
    <2>1. PICK x : x = proc[p]
        OBVIOUS
    <2>2. Compiles(x) /\ (x.settled => Tracks(x)) /\ x.stack = <<>>
        <3>1. Compiles(x) /\ (x.settled => Tracks(x)) /\ x.pc = "run"
            BY <1>6, <2>1, OneStage DEF CompileInv, CompilePcs
        <3> QED
            BY <3>1 DEF Compiles
    <2>3. PICK read : read = ReadBySolc(x.maps, x.sources)
        OBVIOUS
    <2>4. PICK y : y = [x EXCEPT !.pc = "publish", !.read = read]
        OBVIOUS
    <2>5. /\ Compiles(y) /\ y.settled = x.settled /\ y.cfg = x.cfg /\ y.maps = x.maps
          /\ y.sources = x.sources /\ y.stack = x.stack /\ y.read = read
        BY <2>2, <2>4 DEF Compiles, CompilePcs
    <2>6. ASSUME y.settled PROVE HasRead(y, y.read)
        <3>1. Tracks(x) /\ Target \in DOMAIN disk
            BY <2>2, <2>5, <2>6, ClosureIs DEF Tracks
        <3>2. x.maps = Remappings(config) /\ x.sources = [f \in Closure(x.maps) |-> disk[f]]
            BY <2>2, <3>1, WalkIsOver
        <3>3. \A f \in Uses(x.maps) : f \in DOMAIN x.sources \/ (f \in DOMAIN read /\ read[f] = disk[f])
            BY <2>3, <3>1, <3>2, LoadsAllUsed
        <3> QED
            BY <2>5, <3>3 DEF HasRead
    <2>7. y.settled => Tracks(y)
        BY <2>2, <2>5, <2>6 DEF Tracks, Seen
    <2>8. Sound(y)
        BY <2>5, <2>7 DEF Sound
    <2>9. proc' = [proc EXCEPT ![p] = y]
        BY <1>6, <2>1, <2>3, <2>4
    <2> QED
        BY <1>1, <1>3, <2>8, <2>9, ProcessMoves
<1> QED
    BY <1>2, <1>4, <1>5, <1>6

\* A fetch starts.
LEMMA FetchStarts ==
    ASSUME CompileInv, NEW p \in Procs, NEW name \in Names, NEW archive \in Archives,
           StartFetch(p, name, archive)
    PROVE  CompileInv'
<1> DEFINE next == [pc |-> "stage", name |-> name, archive |-> archive, left |-> archive.entries]
<1>1. proc' = [proc EXCEPT ![p] = next] /\ UNCHANGED <<disk, config, crashes, cache>>
    BY DEF StartFetch, Set
<1>2. Fetches(next)
    BY EntriesAre DEF Fetches, FetchPcs, Range
<1>3. Sound(next)
    BY <1>2 DEF Sound
<1>4. CacheSound'
    BY <1>1, CacheStays DEF CompileInv
<1> HIDE DEF next
<1> QED
    BY <1>1, <1>3, <1>4, ProcessMoves

\* A fetch that moves on is a fetch, and what it writes are files.
LEMMA FetchMoves ==
    ASSUME CompileInv, NEW p \in Procs,
           Stage(p) \/ Extract(p) \/ Swap(p) \/ Move(p) \/ Record(p) \/ Crash(p)
    PROVE  CompileInv'
<1> DEFINE r == proc[p]
<1>0. DiskOK /\ DOMAIN proc = Procs /\ crashes \in Nat
    BY DEF CompileInv
<1>1. ASSUME r.pc \in FetchPcs
      PROVE  /\ Fetches(r) /\ r.name \in Names /\ r.archive \in Archives
             /\ \A stage \in FetchPcs : Fetches([r EXCEPT !.pc = stage])
             /\ r.left # <<>> => /\ Fetches([r EXCEPT !.left = Tail(@)])
                                 /\ Head(r.left) \in Range(r.archive.entries)
    <2>1. PICK x : x = r
        OBVIOUS
    <2>2. Fetches(x)
        BY <1>1, <2>1, OneStage DEF CompileInv
    <2>3. \A stage \in FetchPcs : Fetches([x EXCEPT !.pc = stage])
        BY <2>2 DEF Fetches
    <2>4. ASSUME x.left # <<>>
          PROVE  Fetches([x EXCEPT !.left = Tail(x.left)]) /\ Head(x.left) \in Range(x.archive.entries)
        <3>1. IsList(x.left) /\ \A i \in DOMAIN x.left : x.left[i] \in Range(x.archive.entries)
            BY <2>2 DEF Fetches
        <3>2. /\ Len(x.left) \in Nat \ {0} /\ DOMAIN x.left = 1 .. Len(x.left)
              /\ IsList(Tail(x.left)) /\ DOMAIN Tail(x.left) = 1 .. Len(x.left) - 1
              /\ \A i \in 1 .. Len(x.left) - 1 : Tail(x.left)[i] = x.left[i + 1]
              /\ Head(x.left) = x.left[1]
            BY <2>4, <3>1, ListEnds
        <3>3. \A i \in 1 .. Len(x.left) - 1 : i + 1 \in 1 .. Len(x.left)
            BY <3>2
        <3>4. PICK t : t = Tail(x.left)
            OBVIOUS
        <3>5. IsList(t) /\ \A i \in DOMAIN t : t[i] \in Range(x.archive.entries)
            BY <3>1, <3>2, <3>3, <3>4
        <3>6. Fetches([x EXCEPT !.left = t])
            BY <2>2, <3>5 DEF Fetches
        <3>7. 1 \in DOMAIN x.left
            BY <3>2
        <3> QED
            BY <3>1, <3>2, <3>4, <3>6, <3>7
    <2> QED
        BY <2>1, <2>2, <2>3, <2>4 DEF Fetches
<1>2. cache' = cache /\ crashes' \in Nat
    BY <1>0 DEF Stage, Extract, Swap, Move, Record, Crash
<1>3. PICK x : proc' = Unsettled([proc EXCEPT ![p] = x]) /\ (x = Idle \/ Fetches(x))
    <2>1. CASE Stage(p)
        BY <1>1, <2>1 DEF Stage, SetUnsettled, FetchPcs
    <2>2. CASE Extract(p)
        BY <1>1, <2>2 DEF Extract, SetUnsettled, FetchPcs
    <2>3. CASE Swap(p)
        BY <1>1, <2>3 DEF Swap, SetUnsettled, FetchPcs
    <2>4. CASE Move(p)
        BY <1>1, <2>4 DEF Move, SetUnsettled, FetchPcs
    <2>5. CASE Record(p) \/ Crash(p)
        BY <2>5 DEF Record, Crash, SetUnsettled
    <2> QED
        BY <2>1, <2>2, <2>3, <2>4, <2>5
<1>4. DiskOK'
    <2>1. CASE Stage(p)
        BY <1>0, <2>1, TreeStays DEF Stage, Staged
    <2>2. CASE Extract(p)
        <3>1. r.pc \in FetchPcs
            BY <2>2 DEF Extract, FetchPcs
        <3>2. CASE disk' = disk
            BY <1>0, <3>2 DEF DiskOK, Paths, Segments, Contents
        <3>3. CASE disk' # disk
            <4> DEFINE e == Head(r.left)
                       f == Staging(r.name) \o e.path
                       c == [hash |-> r.archive.hash, file |-> e.path]
            <4>1. disk' = With(disk, f, c)
                BY <2>2, <3>3 DEF Extract
            <4>2. r.archive \in Archives /\ r.name \in Names /\ e \in Range(r.archive.entries)
                BY <1>1, <2>2, <3>1 DEF Extract
            <4>3. e.path \in Paths /\ c \in Contents
                BY <4>2, EntriesAre DEF Range
            <4>4. f \in Paths
                BY <4>2, <4>3, GivenPaths, DirIs, JoinIs
            <4> HIDE DEF f, c, e
            <4> QED
                BY <1>0, <4>1, <4>3, <4>4, TreeStays
        <3> QED
            BY <3>2, <3>3
    <2>3. CASE Swap(p)
        BY <1>0, <2>3, TreeStays DEF Swap
    <2>4. CASE Move(p)
        <3> DEFINE from == Collapsed(Staging(r.name))
                   to == Dir(r.name)
                   gone == {q \in DOMAIN Moved(disk, from, to) : IsPrefix(Staging(r.name), q)}
        <3>1. r.name \in Names /\ disk' = Removed(Moved(disk, from, to), gone)
            BY <1>1, <2>4 DEF Move, FetchPcs
        <3>2. from \in Paths /\ to \in Paths
            BY <1>0, <3>1, CollapsedIs, DirIs, GivenPaths
        <3> HIDE DEF from, to, gone
        <3> QED
            BY <1>0, <3>1, <3>2, TreeStays
    <2>5. CASE Record(p)
        BY <1>0, <2>5 DEF Record, DiskOK, Paths, Segments, Contents
    <2>6. CASE Crash(p)
        <3>1. disk' = disk \/ \E gone : disk' = Removed(disk, gone)
            BY <2>6 DEF Crash
        <3>2. disk' = disk => DiskOK'
            BY <1>0 DEF DiskOK, Paths, Segments, Contents
        <3> QED
            BY <1>0, <3>1, <3>2, TreeStays
    <2> QED
        BY <2>1, <2>2, <2>3, <2>4, <2>5, <2>6
<1>5. PICK g : g = [proc EXCEPT ![p] = x]
    OBVIOUS
<1>6. DOMAIN g = Procs /\ \A q \in Procs : g[q] = proc[q] \/ g[q] = Idle \/ Fetches(g[q])
    BY <1>0, <1>3, <1>5
<1> QED
    BY <1>2, <1>3, <1>4, <1>5, <1>6, DiskMoves

\* The user writes a file or changes the config.
LEMMA UserStep ==
    ASSUME CompileInv, (\E e \in Edits : Edit(e)) \/ (\E s \in Settings : Configure(s))
    PROVE  CompileInv'
<1>0. DiskOK /\ DOMAIN proc = Procs /\ crashes \in Nat
    BY DEF CompileInv
<1>1. cache' = cache /\ crashes' \in Nat /\ proc' = Unsettled(proc)
    BY <1>0 DEF Edit, Configure
<1>2. DiskOK'
    <2>1. ASSUME NEW e \in Edits, Edit(e) PROVE DiskOK'
        <3>1. disk' = With(disk, e.path, e.content) /\ e.path \in Paths /\ e.content \in Contents
            BY <2>1, GivenPaths DEF Edit
        <3> QED
            BY <1>0, <3>1, TreeStays
    <2>2. ASSUME NEW s \in Settings, Configure(s) PROVE DiskOK'
        BY <1>0, <2>2 DEF Configure, DiskOK, Paths, Segments, Contents
    <2> QED
        BY <2>1, <2>2
<1>3. PICK g : g = proc
    OBVIOUS
<1>4. DOMAIN g = Procs /\ \A q \in Procs : g[q] = proc[q]
    BY <1>0, <1>3
<1> QED
    BY <1>1, <1>2, <1>3, <1>4, DiskMoves

\* Every step of a build keeps the invariant.
LEMMA CompileStep == CompileInv /\ [BuildNext]_buildVars => CompileInv'
<1> SUFFICES ASSUME CompileInv, [BuildNext]_buildVars
             PROVE  CompileInv'
    OBVIOUS
<1>1. CASE UNCHANGED buildVars
    <2>1. UNCHANGED <<disk, config, crashes, cache, proc>>
        BY <1>1 DEF buildVars
    <2>2. DiskOK' /\ CacheSound' /\ DOMAIN proc' = Procs /\ crashes' \in Nat
        BY <2>1, CacheStays, ViewStays DEF CompileInv
    <2>3. ASSUME NEW q \in Procs PROVE Sound(proc[q])'
        <3>1. PICK x : x = proc[q]
            OBVIOUS
        <3>2. Sound(x)'
            BY <2>1, <3>1, ViewStays DEF CompileInv
        <3>3. proc'[q] = x
            BY <2>1, <3>1
        <3> QED
            BY <3>2, <3>3
    <2> QED
        BY <2>2, <2>3 DEF CompileInv
<1>2. ASSUME NEW p \in Procs, NEW job \in {"compile", "inspect"}, StartCompile(p, job)
      PROVE  CompileInv'
    BY <1>2, StartStep
<1>3. ASSUME NEW p \in Procs, NEW name \in Names, NEW archive \in Archives, StartFetch(p, name, archive)
      PROVE  CompileInv'
    BY <1>3, FetchStarts
<1>4. ASSUME NEW p \in Procs, Walk(p) PROVE CompileInv'
    BY <1>4, WalkStep
<1>5. ASSUME NEW p \in Procs, Lookup(p) \/ Publish(p) PROVE CompileInv'
    BY <1>5, AnswerStep
<1>6. ASSUME NEW p \in Procs,
             Install(p) \/ DownloadFails(p) \/ WriteBinary(p) \/ RunSolc(p) \/ Return(p)
      PROVE  CompileInv'
    BY <1>6, StagesStep
<1>7. ASSUME NEW p \in Procs,
             Stage(p) \/ Extract(p) \/ Swap(p) \/ Move(p) \/ Record(p) \/ Crash(p)
      PROVE  CompileInv'
    BY <1>7, FetchMoves
<1>8. ASSUME (\E e \in Edits : Edit(e)) \/ (\E s \in Settings : Configure(s)) PROVE CompileInv'
    BY <1>8, UserStep
<1> QED
    BY <1>1, <1>2, <1>3, <1>4, <1>5, <1>6, <1>7, <1>8 DEF BuildNext

\* The invariant at the start.
LEMMA CompileStarts == BuildInit => CompileInv
<1> SUFFICES ASSUME BuildInit PROVE CompileInv
    OBVIOUS
<1>1. DiskOK
    BY GivenPaths DEF BuildInit, DiskOK
<1>2. DOMAIN proc = Procs /\ crashes \in Nat /\ \A p \in Procs : Sound(proc[p])
    BY DEF BuildInit, Sound
<1>3. CacheSound
    BY DEF BuildInit, CacheSound
<1> QED
    BY <1>1, <1>2, <1>3 DEF CompileInv

\* A finished compilation the invariant holds of is current.
LEMMA SoundIsCurrent == CompileInv => CompiledIsCurrent
<1> SUFFICES ASSUME CompileInv, NEW p \in Procs, proc[p].pc = "done", proc[p].settled
             PROVE  LET maps == Remappings(config)
                        out == proc[p].output
                    IN  /\ out.version = config.version
                        /\ out.settings = InputSettings(proc[p].job, config, maps)
                        /\ \A f \in Uses(maps) :
                              MadeWith(out, f) \/ (~proc[p].ran /\ f \in Missed(maps))
    BY DEF CompiledIsCurrent
<1>1. Current(proc[p])
    BY OneStage DEF CompileInv
<1> QED
    BY <1>1 DEF Current

\* For any number of processes, any project, any edits and whatever the scan
\* of imports finds: when nothing changed while a compilation ran, its output
\* is that of the settings on disk, and of every file the target is made of
\* as it is on disk, whether the walk put it into the input or solc read it
\* itself.  An entry another process left in the cache may be behind only in
\* the files the scan or the resolver misses (SourceResolver::resolve,
\* compile_hash, read_cache, write_cache).
THEOREM CompiledFresh == BuildSpec => []CompiledIsCurrent
<1>1. BuildInit => CompileInv
    BY CompileStarts
<1>2. CompileInv /\ [BuildNext]_buildVars => CompileInv'
    BY CompileStep
<1>3. CompileInv => CompiledIsCurrent
    BY SoundIsCurrent
<1> QED
    BY <1>1, <1>2, <1>3, PTL DEF BuildSpec

-----------------------------------------------------------------------------
(* Every step of a fetch *)

\* A step leaves a directory as it was.
SameUnder(dir) ==
    \A f \in Paths : IsPrefix(dir, f) =>
        /\ f \in DOMAIN disk' <=> f \in DOMAIN disk
        /\ f \in DOMAIN disk => disk'[f] = disk[f]

SameBelow(name) == SameUnder(Dir(name)) /\ SameUnder(Staging(name))

\* What is below a directory then.
LEMMA UnderStays ==
    ASSUME DiskOK, DiskOK', NEW dir, SameUnder(dir)
    PROVE  Under(dir)' = Under(dir) /\ \A f \in Under(dir) : disk'[f] = disk[f]
<1>1. \A f \in DOMAIN disk : f \in Paths
    BY DEF DiskOK
<1>2. \A f \in DOMAIN disk' : f \in Paths
    BY DEF DiskOK, Paths, Segments
<1>3. Under(dir)' = {f \in DOMAIN disk' : IsPrefix(dir, f)}
    BY DEF Under
<1> QED
    BY <1>1, <1>2, <1>3 DEF SameUnder, Under

\* What is staged stays while the directory does.
LEMMA StagesStay ==
    ASSUME DiskOK, DiskOK', NEW r, Stages(r), SameUnder(Staging(r.name))
    PROVE  Stages(r)'
<1> DEFINE S == Staging(r.name)
<1>0. Under(S)' = Under(S) /\ \A f \in Under(S) : disk'[f] = disk[f]
    BY UnderStays
<1>1. PICK n : n = Extracted(r)
    OBVIOUS
<1>2. n = Extracted(r)'
    BY <1>1 DEF Extracted
<1>3. /\ n \in Nat /\ \A j \in DOMAIN r.left : r.left[j] = r.archive.entries[n + j]
      /\ \A i \in 1 .. n : r.archive.entries[i].kind = "file" => S \o r.archive.entries[i].path \in Under(S)
    BY <1>1 DEF Stages
<1>4. \A f \in Under(S) : \E i \in 1 .. n :
         /\ r.archive.entries[i].kind = "file" /\ f = S \o r.archive.entries[i].path
         /\ disk[f] = [hash |-> r.archive.hash, file |-> r.archive.entries[i].path]
    BY <1>1 DEF Stages
<1>5. \A f \in Under(S)' : \E i \in 1 .. n :
         /\ r.archive.entries[i].kind = "file" /\ f = S \o r.archive.entries[i].path
         /\ disk'[f] = [hash |-> r.archive.hash, file |-> r.archive.entries[i].path]
    <2> TAKE f \in Under(S)'
    <2>1. f \in Under(S) /\ disk'[f] = disk[f]
        BY <1>0
    <2> QED
        BY <1>4, <2>1
<1>6. \A i \in 1 .. n : r.archive.entries[i].kind = "file" => S \o r.archive.entries[i].path \in Under(S)'
    BY <1>0, <1>3
<1> QED
    BY <1>2, <1>3, <1>5, <1>6 DEF Stages

\* A fetch whose directories stay has done what it had done.
LEMMA StageStays ==
    ASSUME DiskOK, DiskOK', NEW r, StageOK(r), SameBelow(r.name)
    PROVE  StageOK(r)'
<1>1. Under(Dir(r.name))' = Under(Dir(r.name))
    BY UnderStays DEF SameBelow
<1>2. Stages(r) => Stages(r)'
    BY StagesStay DEF SameBelow
<1> QED
    BY <1>1, <1>2 DEF StageOK

\* A dependency whose directory stays, or is empty, comes from one archive.
LEMMA ArchiveStays ==
    ASSUME DiskOK, DiskOK', NEW name, OneArchive(name), crashes' = crashes \/ crashes' # 0,
           SameUnder(Dir(name))
    PROVE  OneArchive(name)'
<1> DEFINE U == Under(Dir(name))
<1>1. U' = U /\ \A f \in U : disk'[f] = disk[f]
    BY UnderStays
<1>2. CASE U = {}
    BY <1>1, <1>2 DEF OneArchive
<1>3. CASE U # {}
    <2>1. PICK a \in Archives : /\ \A f \in U : disk[f].hash = a.hash
                                /\ crashes = 0 => {disk[f].file : f \in U} = Files(a)
        BY <1>3 DEF OneArchive
    <2>2. \A f \in U' : disk'[f].hash = a.hash
        BY <1>1, <2>1
    <2>3. {disk'[f].file : f \in U'} = {disk[f].file : f \in U}
        BY <1>1
    <2>4. crashes' = 0 => {disk'[f].file : f \in U'} = Files(a)
        BY <2>1, <2>3
    <2> QED
        BY <2>2, <2>4 DEF OneArchive
<1> QED
    BY <1>2, <1>3

\* One fetch, and the directories it writes, moves on.
LEMMA FetchKeeps ==
    ASSUME CompileInv, CompileInv', FetchInv, NEW p, NEW x,
           \A q \in Procs : proc'[q].pc \in FetchPcs => proc'[q] = IF q = p THEN x ELSE proc[q],
           \A q \in Procs \ {p} : x.pc \in FetchPcs /\ proc[q].pc \in FetchPcs => proc[q].name # x.name,
           \A name \in Names :
              \/ SameBelow(name)
              \/ OneArchive(name)' /\ \A q \in Procs \ {p} : proc[q].pc \in FetchPcs => proc[q].name # name,
           StageOK(x)', crashes' = crashes \/ crashes' # 0
    PROVE  FetchInv'
<1>1. DiskOK /\ DiskOK' /\ \A q \in Procs : Sound(proc[q])
    BY DEF CompileInv
<1>2. FetchesApart'
    <2> SUFFICES ASSUME NEW q \in Procs, NEW s \in Procs, proc'[q].pc \in FetchPcs, proc'[s].pc \in FetchPcs,
                        proc'[q].name = proc'[s].name
                 PROVE  q = s
        BY DEF FetchesApart, FetchPcs
    <2>1. CASE q # p /\ s # p
        <3>1. proc'[q] = proc[q] /\ proc'[s] = proc[s]
            BY <2>1
        <3> QED
            BY <3>1 DEF FetchInv, FetchesApart
    <2>2. CASE q = p /\ s # p
        <3>1. proc'[q] = x /\ proc'[s] = proc[s]
            BY <2>2
        <3> QED
            BY <2>2, <3>1
    <2>3. CASE q # p /\ s = p
        <3>1. proc'[s] = x /\ proc'[q] = proc[q]
            BY <2>3
        <3> QED
            BY <2>3, <3>1
    <2> QED
        BY <2>1, <2>2, <2>3
<1>3. ASSUME NEW q \in Procs PROVE StageOK(proc[q])'
    <2>1. CASE proc'[q].pc \notin FetchPcs
        BY <2>1 DEF StageOK, FetchPcs
    <2>2. CASE proc'[q].pc \in FetchPcs /\ q = p
        <3>1. proc'[q] = x
            BY <2>2
        <3> QED
            BY <3>1
    <2>3. CASE proc'[q].pc \in FetchPcs /\ q # p
        <3>1. PICK y : y = proc[q]
            OBVIOUS
        <3>2. proc'[q] = y /\ y.pc \in FetchPcs
            BY <2>3, <3>1
        <3>3. y.name \in Names
            BY <1>1, <3>1, <3>2, OneStage DEF Fetches
        <3>4. SameBelow(y.name)
            BY <2>3, <3>1, <3>2, <3>3
        <3>5. StageOK(y)
            BY <3>1 DEF FetchInv
        <3>6. StageOK(y)'
            BY <1>1, <3>4, <3>5, StageStays
        <3> QED
            BY <3>2, <3>6
    <2> QED
        BY <2>1, <2>2, <2>3
<1>4. ASSUME NEW name \in Names PROVE OneArchive(name)'
    <2>1. CASE SameBelow(name)
        <3>1. OneArchive(name) /\ SameUnder(Dir(name))
            BY <2>1 DEF FetchInv, SameBelow
        <3> QED
            BY <1>1, <3>1, ArchiveStays
    <2> QED
        BY <2>1
<1> QED
    BY <1>2, <1>3, <1>4 DEF FetchInv

\* A file the step leaves as it was.
SameFile(f) == (f \in DOMAIN disk' <=> f \in DOMAIN disk) /\ (f \in DOMAIN disk => disk'[f] = disk[f])

\* The directories of two names share no path, nor do the two of one name.
LEMMA OthersSame ==
    ASSUME NEW name \in Names,
           \A f \in Paths : ~IsPrefix(Dir(name), f) /\ ~IsPrefix(Staging(name), f) => SameFile(f)
    PROVE  /\ \A other \in Names \ {name} : SameBelow(other)
           /\ \A f \in Paths : IsPrefix(Staging(name), f) => ~IsPrefix(Dir(name), f)
<1>1. \A n \in Names : \A f \in Paths :
         /\ IsPrefix(Dir(n), f) <=> Len(f) >= 2 /\ f[1] = "dependencies" /\ f[2] = n
         /\ IsPrefix(Staging(n), f) <=> Len(f) >= 2 /\ f[1] = "staging" /\ f[2] = n
    BY DirIs, GivenPaths
<1>2. \A f \in Paths : IsPrefix(Staging(name), f) => ~IsPrefix(Dir(name), f)
    BY <1>1
<1>3. ASSUME NEW other \in Names \ {name} PROVE SameBelow(other)
    <2>1. \A f \in Paths : IsPrefix(Dir(other), f) \/ IsPrefix(Staging(other), f) =>
             ~IsPrefix(Dir(name), f) /\ ~IsPrefix(Staging(name), f)
        BY <1>1
    <2> QED
        BY <2>1 DEF SameBelow, SameUnder, SameFile
<1> QED
    BY <1>2, <1>3

\* Unsettling leaves the fetches alone.
LEMMA UnsettledFetches ==
    ASSUME NEW g, DOMAIN g = Procs,
           \A q \in Procs : Sound(g[q]), proc' = Unsettled(g)
    PROVE  \A q \in Procs : proc'[q].pc \in FetchPcs => proc'[q] = g[q]
<1> SUFFICES ASSUME NEW q \in Procs, proc'[q].pc \in FetchPcs PROVE proc'[q] = g[q]
    OBVIOUS
<1> DEFINE disturbed == {"walk", "install", "download", "fill", "chmod", "run", "publish", "done"}
<1>1. proc'[q] = IF g[q].pc \in disturbed THEN [g[q] EXCEPT !.settled = FALSE] ELSE g[q]
    BY DEF Unsettled
<1>2. CASE g[q].pc \in disturbed
    <2>1. PICK y : y = g[q]
        OBVIOUS
    <2>2. Sound(y) /\ y.pc \in CompilePcs \union {"done"}
        BY <1>2, <2>1 DEF CompilePcs
    <2>3. Compiles(y) \/ Compiled(y)
        BY <2>2, OneStage
    <2>4. PICK z : z = [y EXCEPT !.settled = FALSE]
        OBVIOUS
    <2>5. z.pc = y.pc
        BY <2>3, <2>4 DEF Compiles, Compiled
    <2>6. proc'[q] = z
        BY <1>1, <1>2, <2>1, <2>4
    <2> QED
        BY <2>2, <2>5, <2>6 DEF CompilePcs, FetchPcs
<1>3. CASE g[q].pc \notin disturbed
    BY <1>1, <1>3
<1> QED
    BY <1>2, <1>3

\* A step of a fetch that keeps to its directories.
LEMMA FetchOne ==
    ASSUME CompileInv, CompileInv', FetchInv, NEW p \in Procs, proc[p].pc \in FetchPcs,
           NEW n, n = proc[p].name, NEW x, x = Idle \/ (Fetches(x) /\ x.name = n),
           proc' = Unsettled([proc EXCEPT ![p] = x]),
           \A f \in Paths : ~IsPrefix(Dir(n), f) /\ ~IsPrefix(Staging(n), f) => SameFile(f),
           OneArchive(n)', StageOK(x)', crashes' = crashes \/ crashes' # 0
    PROVE  FetchInv'
<1>1. DOMAIN proc = Procs /\ n \in Names /\ \A q \in Procs : Sound(proc[q])
    BY OneStage DEF CompileInv, Fetches
<1>2. PICK g : g = [proc EXCEPT ![p] = x]
    OBVIOUS
<1>3. DOMAIN g = Procs /\ \A q \in Procs : g[q] = IF q = p THEN x ELSE proc[q]
    BY <1>1, <1>2
<1>4. \A q \in Procs : Sound(g[q])
    <2>1. Sound(x)
        BY DEF Sound
    <2> QED
        BY <1>1, <1>3, <2>1
<1>5. \A q \in Procs : proc'[q].pc \in FetchPcs => proc'[q] = IF q = p THEN x ELSE proc[q]
    <2>1. proc' = Unsettled(g)
        BY <1>2
    <2>2. \A q \in Procs : proc'[q].pc \in FetchPcs => proc'[q] = g[q]
        BY <1>3, <1>4, <2>1, UnsettledFetches
    <2> QED
        BY <1>3, <2>2
<1>6. \A q \in Procs \ {p} : proc[q].pc \in FetchPcs => proc[q].name # n
    BY DEF FetchInv, FetchesApart
<1>7. \A q \in Procs \ {p} : x.pc \in FetchPcs /\ proc[q].pc \in FetchPcs => proc[q].name # x.name
    BY <1>6 DEF Idle, FetchPcs
<1>8. \A name \in Names \ {n} : SameBelow(name)
    BY <1>1, OthersSame
<1>9. \A name \in Names :
         \/ SameBelow(name)
         \/ OneArchive(name)' /\ \A q \in Procs \ {p} : proc[q].pc \in FetchPcs => proc[q].name # name
    <2> TAKE name \in Names
    <2>1. CASE name = n
        BY <1>6, <2>1
    <2>2. CASE name # n
        BY <1>8, <2>2
    <2> QED
        BY <2>1, <2>2
<1> QED
    BY <1>5, <1>7, <1>9, FetchKeeps

\* What a fetch knows of itself.
LEMMA FetchIs ==
    ASSUME CompileInv, FetchInv, NEW p \in Procs, NEW r, r = proc[p], r.pc \in FetchPcs
    PROVE  /\ Fetches(r) /\ StageOK(r) /\ r.name \in Names /\ r.archive \in Archives /\ IsList(r.left)
           /\ IsList(r.archive.entries) /\ OneArchive(r.name) /\ DiskOK /\ DOMAIN proc = Procs
           /\ \A stage \in FetchPcs : Fetches([r EXCEPT !.pc = stage])
<1>1. Fetches(r)
    BY OneStage DEF CompileInv
<1>2. StageOK(r)
    BY DEF FetchInv
<1>3. r.name \in Names /\ r.archive \in Archives /\ IsList(r.left)
    BY <1>1 DEF Fetches
<1>4. IsList(r.archive.entries)
    BY <1>3, EntriesAre
<1>5. OneArchive(r.name)
    BY <1>3 DEF FetchInv
<1>6. \A stage \in FetchPcs : Fetches([r EXCEPT !.pc = stage])
    BY <1>1 DEF Fetches
<1> QED
    BY <1>1, <1>2, <1>3, <1>4, <1>5, <1>6 DEF CompileInv

\* The staging directory is emptied.
LEMMA StageStep ==
    ASSUME CompileInv, CompileInv', FetchInv, NEW p \in Procs, Stage(p)
    PROVE  FetchInv'
<1>1. PICK r : r = proc[p]
    OBVIOUS
<1>2. PICK x : x = [r EXCEPT !.pc = "extract"]
    OBVIOUS
<1>3. PICK n : n = r.name
    OBVIOUS
<1>4. /\ r.pc = "stage" /\ disk' = Removed(disk, Under(Staging(n))) /\ crashes' = crashes
      /\ proc' = Unsettled([proc EXCEPT ![p] = x])
    BY <1>1, <1>2, <1>3 DEF Stage, Staged, SetUnsettled
<1>5. /\ Fetches(r) /\ StageOK(r) /\ n \in Names /\ IsList(r.archive.entries)
      /\ OneArchive(n) /\ DiskOK /\ DOMAIN proc = Procs /\ Fetches(x)
    BY <1>1, <1>2, <1>3, <1>4, FetchIs DEF FetchPcs
<1>6. /\ x.pc = "extract" /\ x.name = n /\ x.archive = r.archive /\ x.left = r.archive.entries
    BY <1>2, <1>3, <1>4, <1>5 DEF Fetches, StageOK
<1>7. DiskOK'
    BY DEF CompileInv
<1>8. \A f : f \notin Under(Staging(n)) => SameFile(f)
    BY <1>4 DEF Removed, SameFile
<1>9. Under(Staging(n))' = {}
    BY <1>4 DEF Under, Removed
<1>10. \A f \in Paths : ~IsPrefix(Dir(n), f) /\ ~IsPrefix(Staging(n), f) => SameFile(f)
    BY <1>8 DEF Under
<1>11. SameUnder(Dir(n))
    <2>1. \A f \in Paths : IsPrefix(Staging(n), f) => ~IsPrefix(Dir(n), f)
        BY <1>5, <1>10, OthersSame
    <2> QED
        BY <1>8, <2>1 DEF SameUnder, SameFile, Under
<1>12. OneArchive(n)'
    BY <1>4, <1>5, <1>7, <1>11, ArchiveStays
<1>13. StageOK(x)'
    <2>1. PICK e : e = r.archive.entries
        OBVIOUS
    <2>2. Len(e) \in Nat /\ DOMAIN e = 1 .. Len(e)
        BY <1>5, <2>1, ListLength
    <2>3. Extracted(x)' = 0
        BY <1>6, <2>1, <2>2 DEF Extracted
    <2>4. \A j \in DOMAIN x.left : x.left[j] = x.archive.entries[0 + j]
        BY <1>6, <2>1, <2>2
    <2>5. Stages(x)'
        <3>1. Under(Staging(x.name))' = {}
            BY <1>6, <1>9
        <3> QED
            BY <2>3, <2>4, <3>1 DEF Stages
    <2> QED
        BY <1>6, <2>5 DEF StageOK
<1> QED
    BY <1>1, <1>3, <1>4, <1>5, <1>6, <1>10, <1>12, <1>13, FetchOne DEF FetchPcs

\* The old installation goes.
LEMMA SwapStep ==
    ASSUME CompileInv, CompileInv', FetchInv, NEW p \in Procs, Swap(p)
    PROVE  FetchInv'
<1>1. PICK r : r = proc[p]
    OBVIOUS
<1>2. PICK x : x = [r EXCEPT !.pc = "move"]
    OBVIOUS
<1>3. PICK n : n = r.name
    OBVIOUS
<1>4. /\ r.pc = "extract" /\ r.left = <<>> /\ disk' = Removed(disk, Under(Dir(n))) /\ crashes' = crashes
      /\ proc' = Unsettled([proc EXCEPT ![p] = x])
    BY <1>1, <1>2, <1>3 DEF Swap, SetUnsettled
<1>5. /\ Fetches(r) /\ StageOK(r) /\ n \in Names /\ DiskOK /\ DOMAIN proc = Procs /\ Fetches(x)
    BY <1>1, <1>2, <1>3, <1>4, FetchIs DEF FetchPcs
<1>6. x.pc = "move" /\ x.name = n /\ x.archive = r.archive /\ x.left = <<>>
    BY <1>2, <1>3, <1>4, <1>5 DEF Fetches
<1>7. DiskOK'
    BY DEF CompileInv
<1>8. \A f : f \notin Under(Dir(n)) => SameFile(f)
    BY <1>4 DEF Removed, SameFile
<1>9. Under(Dir(n))' = {}
    BY <1>4 DEF Under, Removed
<1>10. \A f \in Paths : ~IsPrefix(Dir(n), f) /\ ~IsPrefix(Staging(n), f) => SameFile(f)
    BY <1>8 DEF Under
<1>11. SameUnder(Staging(n))
    <2>1. \A f \in Paths : IsPrefix(Staging(n), f) => ~IsPrefix(Dir(n), f)
        BY <1>5, <1>10, OthersSame
    <2> QED
        BY <1>8, <2>1 DEF SameUnder, SameFile, Under
<1>12. OneArchive(n)'
    BY <1>9 DEF OneArchive
<1>13. StageOK(x)'
    <2>1. Stages(r)
        BY <1>4, <1>5 DEF StageOK
    <2>2. Stages(x)
        <3>1. x.name = r.name /\ x.archive = r.archive /\ x.left = r.left
            BY <1>3, <1>4, <1>6
        <3>2. Extracted(x) = Extracted(r)
            BY <3>1 DEF Extracted
        <3>3. PICK k, a, l, m : k = Extracted(r) /\ a = r.archive /\ l = r.left /\ m = r.name
            OBVIOUS
        <3>4. /\ k \in Nat /\ \A j \in DOMAIN l : l[j] = a.entries[k + j]
              /\ \A f \in Under(Staging(m)) : \E i \in 1 .. k :
                    /\ a.entries[i].kind = "file" /\ f = Staging(m) \o a.entries[i].path
                    /\ disk[f] = [hash |-> a.hash, file |-> a.entries[i].path]
              /\ \A i \in 1 .. k : a.entries[i].kind = "file" => Staging(m) \o a.entries[i].path \in Under(Staging(m))
            BY <2>1, <3>3 DEF Stages
        <3>5. k = Extracted(x) /\ a = x.archive /\ l = x.left /\ m = x.name
            BY <3>1, <3>2, <3>3
        <3> QED
            BY <3>4, <3>5 DEF Stages
    <2>3. Stages(x)'
        BY <1>5, <1>6, <1>7, <1>11, <2>2, StagesStay
    <2> QED
        BY <1>6, <1>9, <2>3 DEF StageOK
<1> QED
    BY <1>1, <1>3, <1>4, <1>5, <1>6, <1>10, <1>12, <1>13, FetchOne DEF FetchPcs

\* One entry is extracted.
LEMMA ExtractStep ==
    ASSUME CompileInv, CompileInv', FetchInv, NEW p \in Procs, Extract(p)
    PROVE  FetchInv'
<1>1. PICK r : r = proc[p]
    OBVIOUS
<1>2. PICK n : n = r.name
    OBVIOUS
<1>3. PICK e : e = Head(r.left)
    OBVIOUS
<1> DEFINE S == Staging(n)
           g == S \o e.path
           c == [hash |-> r.archive.hash, file |-> e.path]
<1>4. /\ r.pc = "extract" /\ r.left # <<>> /\ crashes' = crashes
      /\ disk' = IF e.safe /\ e.kind = "file" THEN With(disk, g, c) ELSE disk
      /\ proc' = Unsettled([proc EXCEPT ![p] = IF e.safe THEN [r EXCEPT !.left = Tail(r.left)] ELSE Idle])
    BY <1>1, <1>2, <1>3 DEF Extract, SetUnsettled
<1>5. /\ Fetches(r) /\ StageOK(r) /\ n \in Names /\ r.archive \in Archives /\ IsList(r.left)
      /\ OneArchive(n) /\ DiskOK /\ DOMAIN proc = Procs /\ IsList(r.archive.entries)
    BY <1>1, <1>2, <1>4, FetchIs DEF FetchPcs
<1>6. DiskOK' /\ Stages(r)
    BY <1>4, <1>5 DEF CompileInv, StageOK
<1>7. PICK k : k = Extracted(r)
    OBVIOUS
<1>8. /\ k \in Nat /\ \A j \in DOMAIN r.left : r.left[j] = r.archive.entries[k + j]
      /\ \A f \in Under(S) : \E i \in 1 .. k :
            /\ r.archive.entries[i].kind = "file" /\ f = S \o r.archive.entries[i].path
            /\ disk[f] = [hash |-> r.archive.hash, file |-> r.archive.entries[i].path]
      /\ \A i \in 1 .. k : r.archive.entries[i].kind = "file" => S \o r.archive.entries[i].path \in Under(S)
    BY <1>2, <1>6, <1>7 DEF Stages
<1>9. /\ Len(r.left) \in Nat \ {0} /\ DOMAIN r.left = 1 .. Len(r.left)
      /\ IsList(Tail(r.left)) /\ DOMAIN Tail(r.left) = 1 .. Len(r.left) - 1
      /\ \A i \in 1 .. Len(r.left) - 1 : Tail(r.left)[i] = r.left[i + 1]
      /\ e = r.left[1]
    BY <1>3, <1>4, <1>5, ListEnds
<1>10. /\ e = r.archive.entries[k + 1] /\ e \in Range(r.archive.entries)
       /\ Len(r.archive.entries) \in Nat /\ k = Len(r.archive.entries) - Len(r.left)
    <2>1. 1 \in DOMAIN r.left
        BY <1>9
    <2>2. e = r.archive.entries[k + 1] /\ e \in Range(r.archive.entries)
        BY <1>5, <1>8, <1>9, <2>1 DEF Fetches
    <2>3. Len(r.archive.entries) \in Nat
        BY <1>5, ListLength
    <2> QED
        BY <1>7, <2>2, <2>3 DEF Extracted
<1>11. e.path \in Paths /\ S \in Paths /\ g \in Paths /\ IsPrefix(S, g)
    <2>1. e.path \in Paths
        BY <1>5, <1>10, EntriesAre DEF Range
    <2>2. S \in Paths
        BY <1>5, DirIs, GivenPaths
    <2> QED
        BY <2>1, <2>2, JoinIs
<1> HIDE DEF S, g, c
<1>12. \A f \in Paths : ~IsPrefix(S, f) => SameFile(f)
    BY <1>4, <1>11 DEF With, SameFile
<1>13. OneArchive(n)'
    <2>1. \A f \in Paths : IsPrefix(S, f) => ~IsPrefix(Dir(n), f)
        BY <1>5, <1>12, OthersSame DEF S
    <2>2. SameUnder(Dir(n))
        BY <1>12, <2>1 DEF SameUnder, SameFile
    <2> QED
        BY <1>4, <1>5, <1>6, <2>2, ArchiveStays
<1>14. \A f \in Paths : ~IsPrefix(Dir(n), f) /\ ~IsPrefix(Staging(n), f) => SameFile(f)
    BY <1>12 DEF S
<1>15. CASE ~e.safe
    <2>1. PICK x : x = Idle
        OBVIOUS
    <2>2. proc' = Unsettled([proc EXCEPT ![p] = x])
        BY <1>4, <1>15, <2>1
    <2>3. StageOK(x)'
        BY <2>1 DEF StageOK, Idle
    <2> QED
        BY <1>1, <1>2, <1>4, <1>13, <1>14, <2>1, <2>2, <2>3, FetchOne DEF FetchPcs
<1>16. CASE e.safe
    <2>1. PICK t : t = Tail(r.left)
        OBVIOUS
    <2>2. PICK x : x = [r EXCEPT !.left = t]
        OBVIOUS
    <2>3. proc' = Unsettled([proc EXCEPT ![p] = x])
        BY <1>4, <1>16, <2>1, <2>2
    <2>4. x.pc = "extract" /\ x.name = n /\ x.archive = r.archive /\ x.left = t
        BY <1>2, <1>4, <1>5, <2>2 DEF Fetches
    <2>5. \A i \in 1 .. Len(r.left) - 1 : i + 1 \in 1 .. Len(r.left)
        BY <1>9
    <2>6. IsList(t) /\ \A i \in DOMAIN t : t[i] \in Range(r.archive.entries)
        BY <1>5, <1>9, <2>1, <2>5 DEF Fetches
    <2>7. Fetches(x)
        BY <1>5, <2>2, <2>6 DEF Fetches
    <2>8. Extracted(x)' = k + 1
        <3>1. Len(t) = Len(r.left) - 1
            <4>1. Len(t) \in Nat /\ DOMAIN t = 1 .. Len(t)
                BY <2>6, ListLength
            <4>2. 1 .. Len(t) = 1 .. Len(r.left) - 1
                BY <1>9, <2>1, <4>1
            <4> QED
                BY <1>9, <4>1, <4>2
        <3>2. Extracted(x)' = Len(r.archive.entries) - Len(t)
            BY <2>4 DEF Extracted
        <3> QED
            BY <1>9, <1>10, <3>1, <3>2
    <2>9. \A j \in DOMAIN t : t[j] = r.archive.entries[(k + 1) + j]
        <3> TAKE j \in DOMAIN t
        <3>1. j \in 1 .. Len(r.left) - 1 /\ j + 1 \in DOMAIN r.left /\ k + (j + 1) = (k + 1) + j
            BY <1>8, <1>9, <2>1
        <3>2. t[j] = r.left[j + 1] /\ r.left[j + 1] = r.archive.entries[k + (j + 1)]
            BY <1>8, <1>9, <2>1, <3>1
        <3> QED
            BY <3>1, <3>2
    <2>10. Under(S)' = (IF e.kind = "file" THEN Under(S) \union {g} ELSE Under(S))
        <3>1. CASE e.kind = "file"
            <4>1. disk' = With(disk, g, c)
                BY <1>4, <1>16, <3>1
            <4>2. DOMAIN disk' = DOMAIN disk \union {g}
                BY <4>1 DEF With
            <4>3. Under(S)' = {f \in DOMAIN disk' : IsPrefix(S, f)}
                BY DEF Under, S, Staging
            <4> QED
                BY <1>11, <3>1, <4>2, <4>3 DEF Under
        <3>2. CASE e.kind # "file"
            <4>1. disk' = disk
                BY <1>4, <3>2
            <4> QED
                BY <3>2, <4>1 DEF Under, S, Staging
        <3> QED
            BY <3>1, <3>2
    <2>11. ASSUME NEW f \in Under(S)'
           PROVE  \E i \in 1 .. k + 1 :
                     /\ r.archive.entries[i].kind = "file" /\ f = S \o r.archive.entries[i].path
                     /\ disk'[f] = [hash |-> r.archive.hash, file |-> r.archive.entries[i].path]
        <3>1. CASE e.kind = "file" /\ f = g
            <4>1. disk'[f] = c
                BY <1>4, <1>16, <3>1 DEF With
            <4>2. k + 1 \in 1 .. k + 1
                BY <1>8
            <4> QED
                BY <1>10, <3>1, <4>1, <4>2 DEF g, c
        <3>2. CASE ~(e.kind = "file" /\ f = g)
            <4>1. f \in Under(S) /\ f \in DOMAIN disk
                BY <2>10, <3>2 DEF Under
            <4>2. disk'[f] = disk[f]
                BY <1>4, <3>2, <4>1 DEF With
            <4>3. PICK i \in 1 .. k :
                     /\ r.archive.entries[i].kind = "file" /\ f = S \o r.archive.entries[i].path
                     /\ disk[f] = [hash |-> r.archive.hash, file |-> r.archive.entries[i].path]
                BY <1>8, <4>1
            <4>4. i \in 1 .. k + 1
                BY <1>8
            <4> QED
                BY <4>2, <4>3, <4>4
        <3> QED
            BY <3>1, <3>2
    <2>12. ASSUME NEW i \in 1 .. k + 1, r.archive.entries[i].kind = "file"
           PROVE  S \o r.archive.entries[i].path \in Under(S)'
        <3>1. CASE i = k + 1
            BY <1>10, <2>10, <2>12, <3>1 DEF g
        <3>2. CASE i # k + 1
            <4>1. i \in 1 .. k
                BY <1>8, <3>2
            <4> QED
                BY <1>8, <2>10, <2>12, <4>1
        <3> QED
            BY <3>1, <3>2
    <2>13. Stages(x)'
        <3>1. k + 1 \in Nat
            BY <1>8
        <3>2. /\ Staging(x.name) = S /\ Under(Staging(x.name))' = Under(S)'
            BY <2>4 DEF S
        <3> QED
            BY <2>4, <2>8, <2>9, <2>11, <2>12, <3>1, <3>2 DEF Stages
    <2>14. StageOK(x)'
        BY <2>4, <2>13 DEF StageOK
    <2> QED
        BY <1>1, <1>2, <1>4, <1>13, <1>14, <2>3, <2>4, <2>7, <2>14, FetchOne DEF FetchPcs
<1> QED
    BY <1>15, <1>16

\* What is staged when everything is extracted: the files of the archive.
LEMMA StagedIsArchive ==
    ASSUME DiskOK, NEW r, Fetches(r), Stages(r), r.left = <<>>
    PROVE  /\ \A g \in Under(Staging(r.name)) : disk[g].hash = r.archive.hash
           /\ {disk[g].file : g \in Under(Staging(r.name))} = Files(r.archive)
<1> DEFINE S == Staging(r.name)
<1>1. PICK es : es = r.archive.entries
    OBVIOUS
<1>2. /\ IsList(es) /\ Len(es) \in Nat /\ DOMAIN es = 1 .. Len(es)
      /\ \A i \in DOMAIN es : es[i].path \in Paths
    BY <1>1, EntriesAre, ListLength DEF Fetches
<1>3. Extracted(r) = Len(es)
    BY <1>1, <1>2 DEF Extracted
<1>4. /\ \A g \in Under(S) : \E i \in DOMAIN es :
            /\ es[i].kind = "file" /\ g = S \o es[i].path
            /\ disk[g] = [hash |-> r.archive.hash, file |-> es[i].path]
      /\ \A i \in DOMAIN es : es[i].kind = "file" => S \o es[i].path \in Under(S)
    BY <1>1, <1>2, <1>3 DEF Stages
<1>5. S \in Paths
    BY DirIs, GivenPaths DEF Fetches
<1> HIDE DEF S
<1>6. Files(r.archive) = {e.path : e \in {y \in Range(es) : y.kind = "file"}}
    BY <1>1 DEF Files
<1>7. ASSUME NEW g \in Under(S) PROVE disk[g].hash = r.archive.hash /\ disk[g].file \in Files(r.archive)
    <2>1. PICK i \in DOMAIN es : es[i].kind = "file" /\ disk[g] = [hash |-> r.archive.hash, file |-> es[i].path]
        BY <1>4
    <2>2. es[i] \in Range(es)
        BY DEF Range
    <2> QED
        BY <1>6, <2>1, <2>2
<1>8. ASSUME NEW e \in Range(es), e.kind = "file" PROVE \E g \in Under(S) : disk[g].file = e.path
    <2>1. PICK i \in DOMAIN es : e = es[i]
        BY DEF Range
    <2>2. PICK g : g = S \o es[i].path
        OBVIOUS
    <2>3. g \in Under(S)
        BY <1>4, <1>8, <2>1, <2>2
    <2>4. PICK j \in DOMAIN es : g = S \o es[j].path /\ disk[g] = [hash |-> r.archive.hash, file |-> es[j].path]
        BY <1>4, <2>3
    <2>5. Rest(S, g) = es[i].path /\ Rest(S, g) = es[j].path
        <3>1. es[i].path \in Paths /\ es[j].path \in Paths
            BY <1>2
        <3>2. Rest(S, S \o es[i].path) = es[i].path
            BY <1>5, <3>1, JoinIs
        <3>3. Rest(S, S \o es[j].path) = es[j].path
            BY <1>5, <3>1, JoinIs
        <3> QED
            BY <2>2, <2>4, <3>2, <3>3
    <2> QED
        BY <2>1, <2>3, <2>4, <2>5
<1>9. {disk[g].file : g \in Under(S)} = Files(r.archive)
    BY <1>6, <1>7, <1>8
<1> QED
    BY <1>7, <1>9 DEF S

\* The staged tree takes the place of the old installation.
LEMMA MoveStep ==
    ASSUME CompileInv, CompileInv', FetchInv, NEW p \in Procs, Move(p)
    PROVE  FetchInv'
<1>1. PICK r : r = proc[p]
    OBVIOUS
<1>2. PICK x : x = [r EXCEPT !.pc = "record"]
    OBVIOUS
<1>3. PICK n : n = r.name
    OBVIOUS
<1>4. PICK from, to, S : from = Collapsed(Staging(n)) /\ to = Dir(n) /\ S = Staging(n)
    OBVIOUS
<1>5. PICK m : m = Moved(disk, from, to)
    OBVIOUS
<1>6. /\ r.pc = "move" /\ disk' = Removed(m, {q \in DOMAIN m : IsPrefix(S, q)}) /\ crashes' = crashes
      /\ proc' = Unsettled([proc EXCEPT ![p] = x])
    BY <1>1, <1>2, <1>3, <1>4, <1>5 DEF Move, SetUnsettled
<1>7. /\ Fetches(r) /\ StageOK(r) /\ n \in Names /\ r.archive \in Archives
      /\ DiskOK /\ DOMAIN proc = Procs /\ Fetches(x)
    BY <1>1, <1>2, <1>3, <1>6, FetchIs DEF FetchPcs
<1>8. x.pc = "record" /\ x.name = n
    BY <1>2, <1>3, <1>6, <1>7 DEF Fetches
<1>9. Stages(r) /\ r.left = <<>> /\ \A f \in DOMAIN disk : ~IsPrefix(to, f)
    BY <1>3, <1>4, <1>6, <1>7 DEF StageOK, Under
<1>10. /\ from \in Paths /\ to \in Paths
       /\ \A f \in DOMAIN disk : IsPrefix(from, f) <=> IsPrefix(S, f)
    <2>1. /\ from \in Paths /\ \A f \in Under(S) : IsPrefix(from, f)
          /\ \A f \in Paths : IsPrefix(from, f) => IsPrefix(S, f)
        BY <1>4, <1>7, CollapsedIs
    <2>2. to \in Paths
        BY <1>4, <1>7, DirIs, GivenPaths
    <2> QED
        BY <1>7, <2>1, <2>2 DEF Under, DiskOK
<1>11. \A f \in Paths : IsPrefix(S, f) => ~IsPrefix(to, f)
    <2>1. \A f \in Paths : /\ IsPrefix(Dir(n), f) <=> Len(f) >= 2 /\ f[1] = "dependencies" /\ f[2] = n
                           /\ IsPrefix(Staging(n), f) <=> Len(f) >= 2 /\ f[1] = "staging" /\ f[2] = n
        BY <1>7, DirIs, GivenPaths
    <2> QED
        BY <1>4, <2>1
<1>12. Renames(m, disk, from, to)
    <2>1. PICK t : t = disk
        OBVIOUS
    <2>2. Renames(Moved(t, from, to), t, from, to)
        BY <1>7, <1>10, <2>1, MovedIs DEF DiskOK
    <2> QED
        BY <1>5, <2>1, <2>2
<1>13. /\ DOMAIN disk' = {f \in DOMAIN m : ~IsPrefix(S, f)}
       /\ \A f \in DOMAIN disk' : disk'[f] = m[f]
    BY <1>6 DEF Removed
<1>14. \A f \in Paths : ~IsPrefix(to, f) /\ ~IsPrefix(S, f) => SameFile(f)
    <2> SUFFICES ASSUME NEW f \in Paths, ~IsPrefix(to, f), ~IsPrefix(S, f) PROVE SameFile(f)
        OBVIOUS
    <2>1. ASSUME f \in DOMAIN disk PROVE f \in DOMAIN disk' /\ disk'[f] = disk[f]
        <3>1. f \in DOMAIN m /\ m[f] = disk[f]
            BY <1>10, <1>12, <2>1 DEF Renames
        <3> QED
            BY <1>13, <3>1
    <2>2. ASSUME f \in DOMAIN disk' PROVE f \in DOMAIN disk
        BY <1>12, <1>13, <2>2 DEF Renames
    <2> QED
        BY <2>1, <2>2 DEF SameFile
<1>15. \A f \in Under(Dir(n))' : \E g \in Under(S) : disk'[f] = disk[g]
    <2> SUFFICES ASSUME NEW f \in Under(Dir(n))' PROVE \E g \in Under(S) : disk'[f] = disk[g]
        OBVIOUS
    <2>1. f \in DOMAIN disk' /\ IsPrefix(to, f)
        BY <1>4 DEF Under, Dir
    <2>2. f \in DOMAIN m /\ disk'[f] = m[f] /\ f \notin DOMAIN disk
        BY <1>9, <1>13, <2>1
    <2>3. PICK g \in DOMAIN disk : IsPrefix(from, g) /\ f = to \o Rest(from, g)
        BY <1>12, <2>2 DEF Renames
    <2>4. m[f] = disk[g]
        BY <1>12, <2>2, <2>3 DEF Renames
    <2> QED
        BY <1>10, <2>2, <2>3, <2>4 DEF Under
<1>16. \A g \in Under(S) : \E f \in Under(Dir(n))' : disk'[f] = disk[g]
    <2> SUFFICES ASSUME NEW g \in Under(S) PROVE \E f \in Under(Dir(n))' : disk'[f] = disk[g]
        OBVIOUS
    <2>1. g \in DOMAIN disk /\ IsPrefix(from, g)
        BY <1>10 DEF Under
    <2>2. PICK f : f = to \o Rest(from, g)
        OBVIOUS
    <2>3. f \in Paths /\ IsPrefix(to, f) /\ f \in DOMAIN m /\ f \notin DOMAIN disk
        BY <1>9, <1>12, <2>1, <2>2 DEF Renames
    <2>4. m[f] = disk[g]
        BY <1>12, <2>1, <2>2, <2>3 DEF Renames
    <2>5. f \in DOMAIN disk' /\ disk'[f] = disk[g]
        BY <1>11, <1>13, <2>3, <2>4
    <2>6. f \in Under(Dir(n))'
        BY <1>4, <2>3, <2>5 DEF Under, Dir
    <2> QED
        BY <2>5, <2>6
<1>17. OneArchive(n)'
    <2>1. /\ \A g \in Under(S) : disk[g].hash = r.archive.hash
          /\ {disk[g].file : g \in Under(S)} = Files(r.archive)
        BY <1>3, <1>4, <1>7, <1>9, StagedIsArchive
    <2>2. \A f \in Under(Dir(n))' : disk'[f].hash = r.archive.hash
        BY <1>15, <2>1
    <2>3. {disk'[f].file : f \in Under(Dir(n))'} = {disk[g].file : g \in Under(S)}
        BY <1>15, <1>16
    <2>4. {disk'[f].file : f \in Under(Dir(n))'} = Files(r.archive)
        BY <2>1, <2>3
    <2> QED
        BY <1>7, <2>2, <2>4 DEF OneArchive, Files
<1>18. StageOK(x)'
    BY <1>8 DEF StageOK
<1>19. \A f \in Paths : ~IsPrefix(Dir(n), f) /\ ~IsPrefix(Staging(n), f) => SameFile(f)
    BY <1>4, <1>14
<1> QED
    BY <1>1, <1>3, <1>6, <1>7, <1>8, <1>17, <1>18, <1>19, FetchOne DEF FetchPcs

\* A fetch ends, whether it is recorded or dies.
LEMMA EndStep ==
    ASSUME CompileInv, CompileInv', FetchInv, NEW p \in Procs, proc[p].pc \in FetchPcs,
           Record(p) \/ Crash(p)
    PROVE  FetchInv'
<1>1. PICK r : r = proc[p]
    OBVIOUS
<1>2. PICK x : x = Idle
    OBVIOUS
<1>3. PICK n : n = r.name
    OBVIOUS
<1>4. n \in Names /\ OneArchive(n) /\ DiskOK /\ DiskOK' /\ crashes \in Nat
    BY <1>1, <1>3, FetchIs DEF CompileInv
<1>5. /\ proc' = Unsettled([proc EXCEPT ![p] = x]) /\ (crashes' = crashes \/ crashes' # 0)
      /\ \/ disk' = disk
         \/ crashes' # 0 /\ \E gone \in SUBSET Under(Dir(n)) : disk' = Removed(disk, gone)
    BY <1>1, <1>2, <1>3, <1>4 DEF Record, Crash, SetUnsettled
<1>6. StageOK(x)'
    BY <1>2 DEF StageOK, Idle
<1>7. CASE disk' = disk
    <2>1. \A f \in Paths : SameFile(f)
        BY <1>7 DEF SameFile
    <2>2. SameUnder(Dir(n))
        BY <2>1 DEF SameUnder, SameFile
    <2>3. OneArchive(n)'
        BY <1>4, <1>5, <2>2, ArchiveStays
    <2> QED
        BY <1>1, <1>2, <1>3, <1>5, <1>6, <2>1, <2>3, FetchOne
<1>8. ASSUME crashes' # 0, NEW gone \in SUBSET Under(Dir(n)), disk' = Removed(disk, gone)
      PROVE  FetchInv'
    <2>1. \A f \in Paths : ~IsPrefix(Dir(n), f) => SameFile(f)
        BY <1>8 DEF SameFile, Removed, Under
    <2>2. Under(Dir(n))' \subseteq Under(Dir(n)) /\ \A f \in Under(Dir(n))' : disk'[f] = disk[f]
        BY <1>8 DEF Under, Removed, Dir
    <2>3. OneArchive(n)'
        <3>1. CASE Under(Dir(n))' = {}
            BY <3>1 DEF OneArchive
        <3>2. CASE Under(Dir(n))' # {}
            <4>1. PICK a \in Archives : \A f \in Under(Dir(n)) : disk[f].hash = a.hash
                BY <1>4, <2>2, <3>2 DEF OneArchive
            <4>2. \A f \in Under(Dir(n))' : disk'[f].hash = a.hash
                BY <2>2, <4>1
            <4> QED
                BY <1>8, <4>2 DEF OneArchive
        <3> QED
            BY <3>1, <3>2
    <2> QED
        BY <1>1, <1>2, <1>3, <1>5, <1>6, <2>1, <2>3, FetchOne
<1> QED
    BY <1>5, <1>7, <1>8

\* Any step that starts no fetch, moves none and writes none of their
\* directories.
LEMMA OtherStep ==
    ASSUME CompileInv, CompileInv', FetchInv, crashes' = crashes \/ crashes' # 0,
           \A name \in Names : SameBelow(name),
           \A q \in Procs : proc'[q].pc \in FetchPcs => proc'[q] = proc[q]
    PROVE  FetchInv'
<1>1. PICK p : p \notin Procs
    <2>1. {q \in Procs : q \notin q} \notin Procs
        OBVIOUS
    <2> QED
        BY <2>1
<1>2. PICK x : x = Idle
    OBVIOUS
<1>3. StageOK(x)' /\ x.pc \notin FetchPcs
    BY <1>2 DEF StageOK, Idle, FetchPcs
<1>4. \A q \in Procs : proc'[q].pc \in FetchPcs => proc'[q] = IF q = p THEN x ELSE proc[q]
    BY <1>1
<1> QED
    BY <1>3, <1>4, FetchKeeps

\* A fetch starts, of a name nobody fetches.
LEMMA BeginStep ==
    ASSUME CompileInv, CompileInv', FetchInv, NEW p \in Procs, NEW name \in Names, NEW archive \in Archives,
           StartFetch(p, name, archive)
    PROVE  FetchInv'
<1>1. PICK x : x = [pc |-> "stage", name |-> name, archive |-> archive, left |-> archive.entries]
    OBVIOUS
<1>2. /\ proc' = [proc EXCEPT ![p] = x] /\ disk' = disk /\ crashes' = crashes /\ ~Fetching(name)
    BY <1>1 DEF StartFetch, Set
<1>3. \A q \in Procs : proc'[q] = IF q = p THEN x ELSE proc[q]
    BY <1>2 DEF CompileInv
<1>4. \A q \in Procs : proc[q].pc \in FetchPcs => proc[q].name # name
    BY <1>2 DEF Fetching, FetchPcs
<1>5. \A n \in Names : SameBelow(n)
    BY <1>2 DEF SameBelow, SameUnder
<1>6. StageOK(x)' /\ x.name = name
    BY <1>1 DEF StageOK
<1> QED
    BY <1>2, <1>3, <1>4, <1>5, <1>6, FetchKeeps

\* The steps of a compilation, and the end of one.
LEMMA CompileIsOther ==
    ASSUME CompileInv, CompileInv', FetchInv, NEW p \in Procs,
           \/ \E job \in {"compile", "inspect"} : StartCompile(p, job)
           \/ Walk(p) \/ Lookup(p) \/ Install(p) \/ DownloadFails(p) \/ WriteBinary(p)
           \/ RunSolc(p) \/ Publish(p) \/ Return(p)
    PROVE  FetchInv'
<1>1. UNCHANGED <<disk, crashes>> /\ \A q \in Procs \ {p} : proc'[q] = proc[q]
    BY DEF CompileInv, StartCompile, Walk, Lookup, Install, DownloadFails, WriteBinary, RunSolc, Publish,
           Return, Set
<1>2. proc'[p].pc \notin FetchPcs
    <2>0. PICK r : r = proc[p]
        OBVIOUS
    <2>1. DOMAIN proc = Procs /\ (r.pc \in CompilePcs => Compiles(r))
        BY <2>0, OneStage DEF CompileInv
    <2>2. Idle.pc \notin FetchPcs
        BY DEF Idle, FetchPcs
    <2>3. ASSUME NEW job, StartCompile(p, job) PROVE proc'[p].pc \notin FetchPcs
        BY <2>1, <2>2, <2>3 DEF StartCompile, Set, FetchPcs
    <2>4. ASSUME r.pc \in CompilePcs, NEW y, \E stage \in CompilePcs : y = [r EXCEPT !.pc = stage]
          PROVE  y.pc \notin FetchPcs
        BY <2>1, <2>4 DEF Compiles, CompilePcs, FetchPcs
    <2>5. CASE Walk(p)
        <3>1. r.pc = "walk" /\ Compiles(r)
            BY <2>0, <2>1, <2>5 DEF Walk, CompilePcs
        <3>2. \A y, st, so : y = [r EXCEPT !.stack = st] \/ y = [r EXCEPT !.stack = st, !.sources = so] => y.pc = "walk"
            BY <3>1 DEF Compiles
        <3> DEFINE path == Last(proc[p].stack)
                   below == Front(proc[p].stack)
        <3>3. \/ proc'[p] = [r EXCEPT !.stack = below] \/ proc'[p] = Idle
              \/ proc'[p] = [r EXCEPT !.stack = below \o Resolved(r.maps, path, Scanned(disk[path])),
                                      !.sources = With(r.sources, path, disk[path])]
            BY <2>0, <2>1, <2>5 DEF Walk, Set
        <3> QED
            BY <2>2, <3>2, <3>3 DEF FetchPcs
    <2>6. CASE Lookup(p)
        <3>1. r.pc = "walk" /\ (proc'[p].pc = "done" \/ proc'[p] = [r EXCEPT !.pc = "install"])
            BY <2>0, <2>1, <2>6 DEF Lookup, Set
        <3> QED
            BY <2>4, <3>1 DEF CompilePcs, FetchPcs
    <2>7. CASE Publish(p)
        BY <2>1, <2>7 DEF Publish, Set, FetchPcs
    <2>8. CASE DownloadFails(p) \/ Return(p)
        BY <2>1, <2>2, <2>8 DEF DownloadFails, Return, Set
    <2>9. CASE Install(p)
        <3>1. r.pc \in CompilePcs /\ \E stage \in CompilePcs : proc'[p] = [r EXCEPT !.pc = stage]
            BY <2>0, <2>1, <2>9 DEF Install, Set, CompilePcs
        <3> QED
            BY <2>4, <3>1
    <2>12. CASE RunSolc(p)
        <3>1. /\ r.pc = "run" /\ Compiles(r)
              /\ \/ proc'[p] = Idle
                 \/ proc'[p] = [r EXCEPT !.pc = "publish", !.read = ReadBySolc(r.maps, r.sources)]
            BY <2>0, <2>1, <2>12 DEF RunSolc, Set, CompilePcs
        <3>2. \A y, read : y = [r EXCEPT !.pc = "publish", !.read = read] => y.pc = "publish"
            BY <3>1 DEF Compiles
        <3> QED
            BY <2>2, <3>1, <3>2 DEF FetchPcs
    <2>10. CASE WriteBinary(p)
        <3>1. r.pc \in {"download", "fill", "chmod"}
            BY <2>0, <2>10 DEF WriteBinary
        <3> DEFINE stage == CASE r.pc = "download" -> "fill" [] r.pc = "fill" -> "chmod" [] OTHER -> "run"
        <3>2. stage \in CompilePcs
            BY <3>1 DEF CompilePcs
        <3>3. proc'[p] = [r EXCEPT !.pc = stage]
            BY <2>0, <2>1, <2>10 DEF WriteBinary, Set
        <3> HIDE DEF stage
        <3> QED
            BY <2>4, <3>1, <3>2, <3>3 DEF CompilePcs
    <2> QED
        BY <2>3, <2>5, <2>6, <2>7, <2>8, <2>9, <2>10, <2>12
<1> QED
    BY <1>1, <1>2, OtherStep DEF SameBelow, SameUnder

\* The user writes none of the directories of dependencies.
LEMMA UserIsOther ==
    ASSUME CompileInv, CompileInv', FetchInv, OnlyFetchWrites,
           (\E e \in Edits : Edit(e)) \/ (\E s \in Settings : Configure(s))
    PROVE  FetchInv'
<1>1. crashes' = crashes /\ proc' = Unsettled(proc)
    BY DEF Edit, Configure
<1>2. \A q \in Procs : proc'[q].pc \in FetchPcs => proc'[q] = proc[q]
    <2>1. PICK g : g = proc
        OBVIOUS
    <2>2. DOMAIN g = Procs /\ (\A q \in Procs : Sound(g[q])) /\ proc' = Unsettled(g)
        BY <1>1, <2>1 DEF CompileInv
    <2>3. \A q \in Procs : proc'[q].pc \in FetchPcs => proc'[q] = g[q]
        BY <2>2, UnsettledFetches
    <2> QED
        BY <2>1, <2>3
<1>3. ASSUME NEW name \in Names PROVE SameBelow(name)
    <2>1. \A f \in Paths : /\ IsPrefix(Dir(name), f) => f[1] = "dependencies"
                           /\ IsPrefix(Staging(name), f) => f[1] = "staging"
        BY DirIs, GivenPaths
    <2>2. disk' = disk \/ \E e \in Edits : disk' = With(disk, e.path, e.content)
        BY DEF Edit, Configure
    <2>3. CASE disk' = disk
        BY <2>3 DEF SameBelow, SameUnder
    <2>4. ASSUME NEW e \in Edits, disk' = With(disk, e.path, e.content) PROVE SameBelow(name)
        <3>1. e.path \in {d.path : d \in Edits}
            OBVIOUS
        <3>2. e.path[1] \notin {"dependencies", "staging"}
            BY <3>1 DEF OnlyFetchWrites
        <3>3. \A f : f # e.path => (f \in DOMAIN disk' <=> f \in DOMAIN disk) /\ (f \in DOMAIN disk => disk'[f] = disk[f])
            BY <2>4 DEF With
        <3>4. \A f \in Paths : IsPrefix(Dir(name), f) \/ IsPrefix(Staging(name), f) => f # e.path
            BY <2>1, <3>2
        <3> QED
            BY <3>3, <3>4 DEF SameBelow, SameUnder
    <2> QED
        BY <2>2, <2>3, <2>4
<1> QED
    BY <1>1, <1>2, <1>3, OtherStep

\* Every step keeps what the fetches rely on.
LEMMA FetchStep ==
    ASSUME OnlyFetchWrites
    PROVE  CompileInv /\ CompileInv' /\ FetchInv /\ [BuildNext]_buildVars => FetchInv'
<1> SUFFICES ASSUME CompileInv, CompileInv', FetchInv, [BuildNext]_buildVars
             PROVE  FetchInv'
    OBVIOUS
<1>1. CASE UNCHANGED buildVars
    <2>1. UNCHANGED <<disk, crashes, proc>>
        BY <1>1 DEF buildVars
    <2>2. \A name \in Names : SameBelow(name)
        BY <2>1 DEF SameBelow, SameUnder
    <2> QED
        BY <2>1, <2>2, OtherStep
<1>2. ASSUME NEW p \in Procs,
             \/ \E job \in {"compile", "inspect"} : StartCompile(p, job)
             \/ Walk(p) \/ Lookup(p) \/ Install(p) \/ DownloadFails(p) \/ WriteBinary(p)
             \/ RunSolc(p) \/ Publish(p) \/ Return(p)
      PROVE  FetchInv'
    BY <1>2, CompileIsOther
<1>3. ASSUME NEW p \in Procs, NEW name \in Names, NEW archive \in Archives, StartFetch(p, name, archive)
      PROVE  FetchInv'
    BY <1>3, BeginStep
<1>4. ASSUME NEW p \in Procs, Stage(p) PROVE FetchInv'
    BY <1>4, StageStep
<1>5. ASSUME NEW p \in Procs, Extract(p) PROVE FetchInv'
    BY <1>5, ExtractStep
<1>6. ASSUME NEW p \in Procs, Swap(p) PROVE FetchInv'
    BY <1>6, SwapStep
<1>7. ASSUME NEW p \in Procs, Move(p) PROVE FetchInv'
    BY <1>7, MoveStep
<1>8. ASSUME NEW p \in Procs, Record(p) PROVE FetchInv'
    <2>1. proc[p].pc \in FetchPcs
        BY <1>8 DEF Record, FetchPcs
    <2> QED
        BY <1>8, <2>1, EndStep
<1>9. ASSUME NEW p \in Procs, Crash(p) PROVE FetchInv'
    <2>1. CASE proc[p].pc \in FetchPcs
        BY <1>9, <2>1, EndStep
    <2>2. CASE proc[p].pc \notin FetchPcs
        <3>1. disk' = disk /\ crashes' # 0 /\ proc' = Unsettled([proc EXCEPT ![p] = Idle])
            BY <1>9, <2>2 DEF Crash, SetUnsettled, FetchPcs, CompileInv
        <3>2. PICK g : g = [proc EXCEPT ![p] = Idle]
            OBVIOUS
        <3>3. DOMAIN g = Procs /\ \A q \in Procs : g[q] = IF q = p THEN Idle ELSE proc[q]
            BY <3>2 DEF CompileInv
        <3>4. \A q \in Procs : Sound(g[q])
            BY <3>3 DEF CompileInv, Sound
        <3>5. proc' = Unsettled(g)
            BY <3>1, <3>2
        <3>6. \A q \in Procs : proc'[q].pc \in FetchPcs => proc'[q] = g[q]
            BY <3>3, <3>4, <3>5, UnsettledFetches
        <3>7. \A q \in Procs : proc'[q].pc \in FetchPcs => proc'[q] = proc[q]
            BY <3>3, <3>6 DEF Idle, FetchPcs
        <3>8. \A name \in Names : SameBelow(name)
            BY <3>1 DEF SameBelow, SameUnder
        <3> QED
            BY <3>1, <3>7, <3>8, OtherStep
    <2> QED
        BY <2>1, <2>2
<1>10. ASSUME (\E e \in Edits : Edit(e)) \/ (\E s \in Settings : Configure(s)) PROVE FetchInv'
    BY <1>10, UserIsOther
<1> QED
    BY <1>1, <1>2, <1>3, <1>4, <1>5, <1>6, <1>7, <1>8, <1>9, <1>10 DEF BuildNext

\* Nothing is installed at the start.
LEMMA FetchStarted == ASSUME OnlyFetchWrites PROVE BuildInit => FetchInv
<1> SUFFICES ASSUME BuildInit PROVE FetchInv
    OBVIOUS
<1>1. \A p \in Procs : proc[p] = Idle
    BY DEF BuildInit
<1>2. FetchesApart /\ \A p \in Procs : StageOK(proc[p])
    BY <1>1 DEF FetchesApart, StageOK, Idle, FetchPcs
<1>3. ASSUME NEW name \in Names PROVE Under(Dir(name)) = {}
    <2>1. \A f \in Paths : IsPrefix(Dir(name), f) => f[1] = "dependencies"
        BY DirIs, GivenPaths
    <2>2. \A f \in DOMAIN disk : f \in Paths /\ f[1] # "dependencies"
        BY GivenPaths DEF BuildInit, OnlyFetchWrites
    <2> QED
        BY <2>1, <2>2 DEF Under
<1> QED
    BY <1>2, <1>3 DEF FetchInv, OneArchive

\* For any archives, names and number of processes: as long as nobody but
\* fetch writes below its directories, an installed dependency holds files of
\* one archive only, whatever earlier fetches that died or failed left, and
\* all of them while no process died (extract_archive, collapse_root, install).
THEOREM InstalledWhole == ASSUME OnlyFetchWrites PROVE BuildSpec => []InstalledFromOneArchive
<1>1. BuildInit => CompileInv /\ FetchInv
    BY CompileStarts, FetchStarted
<1>2. CompileInv /\ FetchInv /\ [BuildNext]_buildVars => CompileInv' /\ FetchInv'
    BY CompileStep, FetchStep
<1>3. FetchInv => InstalledFromOneArchive
    BY DEF FetchInv, OneArchive, InstalledFromOneArchive
<1> QED
    BY <1>1, <1>2, <1>3, PTL DEF BuildSpec

=============================================================================
