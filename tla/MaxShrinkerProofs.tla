-------------------------- MODULE MaxShrinkerProofs --------------------------
(***************************************************************************)
(* Proofs about MaxShrinker for any harness and value function, any number *)
(* of shrinkers and any budget.                                            *)
(***************************************************************************)
EXTENDS MaxShrinker, SequenceTheorems, ProofBasics, TLAPS

\* What waits to be accepted keeps the value.
AcceptedPreserve ==
    \A w \in Workers : pc[w] = "update" => Preserves(candidate[w], best.value)

\* The inductive invariant.
IInv ==
    /\ TypeOK
    /\ AcceptedPreserve
    /\ ValuePreserved
    /\ ValidationsBounded

\* Deleting a chunk of a sequence leaves a sequence.
LEMMA WithoutType ==
    ASSUME NEW S, NEW s \in Seq(S), NEW from \in DOMAIN s, NEW to \in DOMAIN s
    PROVE  Without(s, from, to) \in Seq(S)
<1>1. from \in 1 .. Len(s) /\ to \in 1 .. Len(s) /\ Len(s) \in Nat
    BY LenProperties
<1>2. SubSeq(s, 1, from - 1) \in Seq(S) /\ SubSeq(s, to + 1, Len(s)) \in Seq(S)
    BY <1>1, SubSeqProperties
<1> QED
    BY <1>2, ConcatProperties DEF Without

\* The initial state satisfies the invariant.
LEMMA InitIInv == Init => IInv
<1> SUFFICES ASSUME Init PROVE IInv
    OBVIOUS
<1> USE DEF Init
<1>1. TypeOK
    <2>1. best.calls \in Sequences \ {<<>>}
        BY BestsAssumption
    <2>2. candidate \in [Workers -> Sequences]
        BY EmptySeq DEF Sequences
    <2>3. pc \in [Workers -> {"check", "cut", "attempt", "validate", "update", "done",
                              "failed"}]
        OBVIOUS
    <2>4. \A w \in Workers : pc[w] \in {"check", "done"}
        OBVIOUS
    <2> QED
        BY <2>1, <2>2, <2>3, <2>4 DEF TypeOK
<1>2. AcceptedPreserve /\ ValuePreserved
    BY BestsReproduce DEF AcceptedPreserve, ValuePreserved
<1>3. ValidationsBounded
    BY MaxRunsAssumption DEF ValidationsBounded
<1> QED
    BY <1>1, <1>2, <1>3 DEF IInv

\* Every step preserves the invariant.
LEMMA NextIInv == IInv /\ [Next]_vars => IInv'
<1> SUFFICES ASSUME IInv, [Next]_vars PROVE IInv'
    OBVIOUS
<1> USE DEF IInv, Goto
<1>1. ASSUME NEW w \in Workers, Check(w) \/ Minimal(w) \/ CutAll(w) \/ Fault(w) PROVE IInv'
    BY <1>1 DEF Check, Minimal, CutAll, Fault, TypeOK, AcceptedPreserve, ValuePreserved,
                ValidationsBounded
<1>2. ASSUME NEW w \in Workers, Cut(w) PROVE IInv'
    <2> USE <1>2 DEF Cut
    <2>1. PICK from \in DOMAIN current, to \in DOMAIN current :
              /\ Without(current, from, to) # <<>>
              /\ candidate' = [candidate EXCEPT ![w] = Without(current, from, to)]
        OBVIOUS
    <2>2. Without(current, from, to) \in Sequences
        BY WithoutType DEF TypeOK, Sequences
    <2>3. TypeOK'
        BY <2>1, <2>2 DEF TypeOK
    <2>4. AcceptedPreserve' /\ ValuePreserved' /\ ValidationsBounded'
        BY <2>1 DEF TypeOK, AcceptedPreserve, ValuePreserved, ValidationsBounded
    <2> QED
        BY <2>3, <2>4
<1>3. ASSUME NEW w \in Workers, RecordAttempt(w) PROVE IInv'
    <2> USE <1>3 DEF RecordAttempt
    <2>1. attempts' \in Nat /\ validated' \in Nat
        BY DEF TypeOK
    <2>2. /\ pc' \in [Workers -> {"check", "cut", "attempt", "validate", "update", "done",
                                 "failed"}]
          /\ \A v \in Workers :
                pc'[v] \in {"attempt", "validate", "update"} => candidate[v] # <<>>
        BY DEF TypeOK
    <2>3. TypeOK'
        BY <2>1, <2>2 DEF TypeOK
    <2>4. AcceptedPreserve' /\ ValuePreserved'
        BY DEF TypeOK, AcceptedPreserve, ValuePreserved
    <2>5. ValidationsBounded'
        BY MaxRunsAssumption DEF TypeOK, ValidationsBounded
    <2> QED
        BY <2>3, <2>4, <2>5
<1>4. ASSUME NEW w \in Workers, Validate(w) PROVE IInv'
    <2> USE <1>4 DEF Validate
    <2>1. TypeOK'
        BY DEF TypeOK
    <2>2. AcceptedPreserve' /\ ValuePreserved' /\ ValidationsBounded'
        BY DEF TypeOK, AcceptedPreserve, ValuePreserved, ValidationsBounded
    <2> QED
        BY <2>1, <2>2
<1>5. ASSUME NEW w \in Workers, Update(w) PROVE IInv'
    <2> USE <1>5 DEF Update
    <2>1. current' = current \/ current' = candidate[w]
        OBVIOUS
    <2>2. candidate[w] \in Sequences \ {<<>>} /\ Preserves(candidate[w], best.value)
        BY DEF TypeOK, AcceptedPreserve
    <2>3. TypeOK'
        BY <2>1, <2>2 DEF TypeOK
    <2>4. ValuePreserved'
        BY <2>1, <2>2 DEF ValuePreserved
    <2>5. AcceptedPreserve' /\ ValidationsBounded'
        BY DEF TypeOK, AcceptedPreserve, ValidationsBounded
    <2> QED
        BY <2>3, <2>4, <2>5
<1>6. CASE Timeout \/ UNCHANGED vars
    BY <1>6 DEF Timeout, vars, TypeOK, AcceptedPreserve, ValuePreserved, ValidationsBounded
<1> QED
    BY <1>1, <1>2, <1>3, <1>4, <1>5, <1>6 DEF Next, WorkerStep, Joined

\* The inductive invariant holds in every reachable state.
THEOREM Invariance == Spec => []IInv
BY InitIInv, NextIInv, PTL DEF Spec

\* Whatever the workers accept keeps the best value, within the budget.
THEOREM ShrinkerIsSound == Spec => []ShrinkerSound
<1>1. IInv => ShrinkerSound
    BY DEF IInv, ShrinkerSound
<1> QED
    BY <1>1, Invariance, PTL

\* Type correctness of the shrinker; it never works on an empty sequence.
THEOREM TypeCorrect == Spec => []TypeOK
<1>1. IInv => TypeOK
    BY DEF IInv
<1> QED
    BY <1>1, Invariance, PTL

\* What Shrinker::shrink returns keeps the value of the best sequence.
THEOREM ShrinkingKeepsValue == Spec => []ValuePreserved
<1>1. IInv => ValuePreserved
    BY DEF IInv
<1> QED
    BY <1>1, Invariance, PTL

\* The budget bounds the replays of all workers together.
THEOREM BudgetHolds == Spec => []ValidationsBounded
<1>1. IInv => ValidationsBounded
    BY DEF IInv
<1> QED
    BY <1>1, Invariance, PTL

\* The current sequence only changes to a strictly shorter one.
THEOREM OnlyShorter == Spec => LengthNeverIncreases
<1>1. [Next]_vars => [current' # current => Len(current') < Len(current)]_vars
    <2> SUFFICES ASSUME Next, current' # current PROVE Len(current') < Len(current)
        OBVIOUS
    <2>1. PICK w \in Workers : Update(w)
        BY DEF Next, WorkerStep, Check, Minimal, Cut, CutAll, RecordAttempt, Validate, Fault,
               Timeout, Joined, vars
    <2> QED
        BY <2>1 DEF Update
<1> QED
    BY <1>1, PTL DEF Spec, LengthNeverIncreases

-----------------------------------------------------------------------------
(* What is left after deletions.                                           *)

\* Keeping everything keeps the sequence.
LEMMA KeepingAll ==
    ASSUME NEW T, NEW calls \in Seq(T)
    PROVE  ElementsAt(calls, DOMAIN calls) = calls
<1> DEFINE L == Len(calls)
           U == ElementsUpto(calls, DOMAIN calls)
           S == {n \in 0 .. L : U[n] = SubSeq(calls, 1, n)}
<1>0. /\ L \in Nat /\ DOMAIN calls = 1 .. L /\ U[0] = <<>>
      /\ \A n \in 1 .. L : U[n] = TakeOrSkip(U[n - 1], n, calls, DOMAIN calls)
      /\ ElementsAt(calls, DOMAIN calls) = U[L]
    BY ElementsSteps
<1> HIDE DEF U
<1>1. 0 \in S
    <2>1. SubSeq(calls, 1, 0) = <<>>
        OBVIOUS
    <2>2. U[0] = SubSeq(calls, 1, 0)
        BY <1>0, <2>1
    <2> QED
        BY <1>0, <2>2
<1>2. ASSUME NEW n \in 1 .. L, n - 1 \in S PROVE n \in S
    <2>1. U[n] = Append(U[n - 1], calls[n]) /\ U[n - 1] = SubSeq(calls, 1, n - 1)
        BY <1>0, <1>2, Zenon DEF TakeOrSkip
    <2>2. Append(SubSeq(calls, 1, n - 1), calls[n]) = SubSeq(calls, 1, n)
        BY <1>0
    <2>3. U[n] = SubSeq(calls, 1, n)
        BY <2>1, <2>2, Zenon
    <2>4. n \in 0 .. L
        BY <1>0
    <2> QED
        BY <2>3, <2>4, Zenon
<1> HIDE DEF S
<1>3. \A n \in 0 .. L : n \in S
    <2> HIDE DEF L
    <2> QED
        BY <1>0, <1>1, <1>2, InductionUpTo
<1>4. U[L] = SubSeq(calls, 1, L)
    BY <1>0, <1>3 DEF S
<1> QED
    BY <1>0, <1>4

\* Keeping nothing leaves nothing.
LEMMA KeepingNone ==
    ASSUME NEW T, NEW calls \in Seq(T)
    PROVE  ElementsAt(calls, {}) = <<>>
<1> DEFINE L == Len(calls)
           U == ElementsUpto(calls, {})
           S == {n \in 0 .. L : U[n] = <<>>}
<1>0. /\ L \in Nat /\ U[0] = <<>> /\ \A n \in 1 .. L : U[n] = U[n - 1]
      /\ ElementsAt(calls, {}) = U[L]
    BY ElementsSteps DEF TakeOrSkip
<1> HIDE DEF U
<1>1. 0 \in S
    BY <1>0
<1>2. ASSUME NEW n \in 1 .. L, n - 1 \in S PROVE n \in S
    BY <1>0, <1>2
<1> HIDE DEF S
<1>3. \A n \in 0 .. L : n \in S
    <2> HIDE DEF L
    <2> QED
        BY <1>0, <1>1, <1>2, InductionUpTo
<1> QED
    BY <1>0, <1>3 DEF S

\* Without, of a sequence the chunk may lie beyond.
CutOf(u, from, to) ==
    IF Len(u) < from THEN u
    ELSE IF Len(u) <= to THEN SubSeq(u, 1, from - 1)
    ELSE SubSeq(u, 1, from - 1) \o SubSeq(u, to + 1, Len(u))

\* The three cases of a cut.
LEMMA CutCases ==
    ASSUME NEW u, NEW from, NEW to
    PROVE  /\ Len(u) < from => CutOf(u, from, to) = u
           /\ ~(Len(u) < from) /\ Len(u) <= to => CutOf(u, from, to) = SubSeq(u, 1, from - 1)
           /\ ~(Len(u) < from) /\ ~(Len(u) <= to)
                => CutOf(u, from, to) = SubSeq(u, 1, from - 1) \o SubSeq(u, to + 1, Len(u))
BY Zenon DEF CutOf

\* A call more, inside the chunk or not.
LEMMA CutAppend ==
    ASSUME NEW T, NEW u \in Seq(T), NEW c \in T, NEW from \in Nat \ {0}, NEW to \in Nat, from <= to
    PROVE  /\ from <= Len(u) + 1 /\ Len(u) + 1 <= to
                => CutOf(Append(u, c), from, to) = CutOf(u, from, to)
           /\ ~(from <= Len(u) + 1 /\ Len(u) + 1 <= to)
                => CutOf(Append(u, c), from, to) = Append(CutOf(u, from, to), c)
<1> DEFINE v == Append(u, c)
           L == Len(u)
<1>0. L \in Nat /\ v \in Seq(T) /\ Len(v) = L + 1 /\ (\A k \in 1 .. L : v[k] = u[k]) /\ v[L + 1] = c
    OBVIOUS
<1>1. CASE L + 1 < from
    <2>1. Len(v) < from /\ Len(u) < from /\ ~(from <= L + 1)
        BY <1>0, <1>1
    <2>2. CutOf(v, from, to) = v
        <3>1. Len(v) < from
            BY <2>1
        <3> QED
            BY <3>1, Zenon DEF CutOf
    <2>3. CutOf(u, from, to) = u
        BY <2>1, CutCases, Zenon
    <2> QED
        BY <2>1, <2>2, <2>3
<1>2. CASE from = L + 1
    <2>1. SubSeq(v, 1, from - 1) = u
        BY <1>2
    <2>2. ~(Len(v) < from) /\ Len(v) <= to /\ Len(u) < from /\ from <= L + 1 /\ L + 1 <= to
        BY <1>0, <1>2
    <2> QED
        BY <2>1, <2>2, CutCases, Zenon
<1>3. CASE from < L + 1 /\ L + 1 <= to
    <2>1. SubSeq(v, 1, from - 1) = SubSeq(u, 1, from - 1)
        BY <1>0, <1>3
    <2>2. /\ ~(Len(v) < from) /\ Len(v) <= to /\ ~(Len(u) < from) /\ Len(u) <= to
          /\ from <= L + 1 /\ L + 1 <= to
        BY <1>0, <1>3
    <2> QED
        BY <2>1, <2>2, CutCases, Zenon
<1>4. CASE to < L + 1
    <2> DEFINE a == SubSeq(u, 1, from - 1)
               b == SubSeq(u, to + 1, L)
               d == SubSeq(v, to + 1, L + 1)
    <2>1. SubSeq(v, 1, from - 1) = a /\ a \in Seq(T)
        BY <1>0, <1>4
    <2>2. ~(Len(v) < from) /\ ~(Len(v) <= to) /\ ~(L + 1 <= to) /\ ~(Len(u) < from)
        BY <1>0, <1>4
    <2>3. CutOf(v, from, to) = SubSeq(v, 1, from - 1) \o SubSeq(v, to + 1, Len(v))
        BY <2>2, CutCases, Zenon
    <2>4. CutOf(v, from, to) = a \o d
        BY <1>0, <2>1, <2>3, Zenon
    <2>5. CASE L = to
        <3>1. Len(d) = 1 /\ d[1] = c /\ d \in Seq(T)
            BY <1>0, <2>5
        <3> HIDE DEF d
        <3>2. d = <<c>>
            BY <3>1
        <3>3. Len(u) <= to
            BY <1>0, <2>5
        <3>4. CutOf(u, from, to) = a
            BY <2>2, <3>3, CutCases, Zenon
        <3> HIDE DEF a
        <3>5. a \o <<c>> = Append(a, c)
            BY <2>1
        <3>6. CutOf(v, from, to) = Append(CutOf(u, from, to), c)
            BY <2>4, <3>2, <3>4, <3>5, Zenon
        <3> QED
            BY <2>2, <3>6, Zenon
    <2>6. CASE L > to
        <3>1. b \in Seq(T) /\ d = Append(b, c)
            <4> DEFINE e == Append(b, c)
                       n == L - to
            <4>0. n \in Nat /\ to + (n + 1) = L + 1
                BY <1>0, <2>6
            <4>1. b \in Seq(T) /\ Len(b) = n /\ \A k \in 1 .. n : b[k] = u[to + k]
                BY <1>0, <2>6
            <4>2. d \in Seq(T) /\ Len(d) = n + 1 /\ \A k \in 1 .. n + 1 : d[k] = v[to + k]
                BY <1>0, <2>6
            <4> HIDE DEF b, d, n
            <4>3. /\ e \in Seq(T) /\ Len(e) = n + 1 /\ e[n + 1] = c
                  /\ \A k \in 1 .. n : e[k] = b[k]
                BY <4>0, <4>1, AppendProperties
            <4> HIDE DEF e, v
            <4>4. ASSUME NEW k \in 1 .. Len(d) PROVE d[k] = e[k]
                <5>1. CASE k = n + 1
                    BY <1>0, <4>0, <4>2, <4>3, <5>1
                <5>2. CASE k \in 1 .. n
                    <6>1. to + k \in 1 .. L
                        BY <4>0, <5>2 DEF n
                    <6> QED
                        BY <1>0, <4>1, <4>2, <4>3, <5>2, <6>1
                <5> QED
                    BY <4>0, <4>2, <5>1, <5>2
            <4>5. d = e
                BY <4>2, <4>3, <4>4, SeqEqual
            <4> QED
                BY <4>1, <4>5 DEF e
        <3>2. ~(Len(u) <= to)
            BY <1>0, <2>6
        <3>3. CutOf(u, from, to) = a \o b
            BY <2>2, <3>2, CutCases, Zenon
        <3> HIDE DEF a, b, d
        <3>4. a \o Append(b, c) = Append(a \o b, c)
            BY <2>1, <3>1
        <3>5. CutOf(v, from, to) = Append(CutOf(u, from, to), c)
            BY <2>4, <3>1, <3>3, <3>4, Zenon
        <3> QED
            BY <2>2, <3>5, Zenon
    <2>7. L = to \/ L > to
        BY <1>0, <1>4
    <2> QED
        BY <2>5, <2>6, <2>7
<1>5. L + 1 < from \/ from = L + 1 \/ (from < L + 1 /\ L + 1 <= to) \/ to < L + 1
    BY <1>0
<1> QED
    BY <1>1, <1>2, <1>3, <1>4, <1>5, Zenon

\* Cutting what is left after deletions deletes more.
LEMMA CutOfKept ==
    ASSUME NEW T, NEW calls \in Seq(T), NEW K \in SUBSET DOMAIN calls,
           NEW from \in DOMAIN ElementsAt(calls, K), NEW to \in DOMAIN ElementsAt(calls, K), from <= to
    PROVE  \E M \in SUBSET DOMAIN calls : Without(ElementsAt(calls, K), from, to) = ElementsAt(calls, M)
<1> DEFINE L == Len(calls)
           U == ElementsUpto(calls, K)
           M == {n \in K : Len(U[n]) < from \/ to < Len(U[n])}
           V == ElementsUpto(calls, M)
           S == {n \in 0 .. L : V[n] = CutOf(U[n], from, to)}
<1>0. L \in Nat /\ DOMAIN calls = 1 .. L
    OBVIOUS
<1>1. /\ U[0] = <<>> /\ ElementsAt(calls, K) = U[L]
      /\ \A n \in 1 .. L : U[n] = TakeOrSkip(U[n - 1], n, calls, K)
    BY <1>0, ElementsSteps
<1>2. /\ V[0] = <<>> /\ ElementsAt(calls, M) = V[L]
      /\ \A n \in 1 .. L : V[n] = TakeOrSkip(V[n - 1], n, calls, M)
    <2> HIDE DEF M
    <2> QED
        BY <1>0, ElementsSteps
<1>3. \A n \in 0 .. L : U[n] \in Seq(T)
    BY ElementsType
<1> HIDE DEF U, V
<1>4. from \in 1 .. Len(U[L]) /\ to \in 1 .. Len(U[L]) /\ Len(U[L]) \in Nat
    <2>1. U[L] \in Seq(T)
        BY <1>0, <1>3
    <2> QED
        BY <1>1, <2>1
<1>5. from \in Nat \ {0} /\ to \in Nat
    BY <1>4
<1>6. 0 \in S
    <2>1. CutOf(<<>>, from, to) = <<>>
        BY <1>5 DEF CutOf
    <2>2. V[0] = CutOf(U[0], from, to)
        BY <1>1, <1>2, <2>1
    <2>3. 0 \in 0 .. L
        BY <1>0
    <2> QED
        BY <2>2, <2>3, Zenon
<1>7. ASSUME NEW n \in 1 .. L, n - 1 \in S PROVE n \in S
    <2> DEFINE u == U[n - 1]
               c == calls[n]
    <2>1. u \in Seq(T) /\ c \in T /\ Len(u) \in Nat
        BY <1>0, <1>3
    <2>2. V[n - 1] = CutOf(u, from, to)
        BY <1>7
    <2>3. U[n] = TakeOrSkip(u, n, calls, K) /\ V[n] = TakeOrSkip(V[n - 1], n, calls, M)
        BY <1>1, <1>2
    <2> HIDE DEF u, c
    <2>4. CASE n \notin K
        <3>1. n \notin M
            BY <2>4
        <3>2. U[n] = u /\ V[n] = V[n - 1]
            BY <2>3, <2>4, <3>1, Zenon DEF TakeOrSkip
        <3> QED
            BY <1>0, <2>2, <3>2
    <2>5. CASE n \in K
        <3>1. U[n] = Append(u, c)
            BY <2>3, <2>5, Zenon DEF TakeOrSkip, c
        <3>2. Len(U[n]) = Len(u) + 1
            BY <2>1, <3>1
        <3>3. n \in M <=> ~(from <= Len(u) + 1 /\ Len(u) + 1 <= to)
            BY <1>5, <2>1, <2>5, <3>2
        <3> HIDE DEF M
        <3>4. /\ from <= Len(u) + 1 /\ Len(u) + 1 <= to
                    => CutOf(Append(u, c), from, to) = CutOf(u, from, to)
              /\ ~(from <= Len(u) + 1 /\ Len(u) + 1 <= to)
                    => CutOf(Append(u, c), from, to) = Append(CutOf(u, from, to), c)
            BY <1>5, <2>1, CutAppend
        <3>5. V[n] = IF n \in M THEN Append(V[n - 1], c) ELSE V[n - 1]
            BY <2>3, Zenon DEF TakeOrSkip, c
        <3>6. V[n] = CutOf(U[n], from, to)
            <4>1. CASE n \in M
                BY <2>2, <3>1, <3>3, <3>4, <3>5, <4>1, Zenon
            <4>2. CASE n \notin M
                BY <2>2, <3>1, <3>3, <3>4, <3>5, <4>2, Zenon
            <4> QED
                BY <4>1, <4>2
        <3>7. n \in 0 .. L
            BY <1>0
        <3> QED
            BY <3>6, <3>7, Zenon
    <2> QED
        BY <2>4, <2>5
<1> HIDE DEF S
<1>8. \A n \in 0 .. L : n \in S
    <2> HIDE DEF L
    <2> QED
        BY <1>0, <1>6, <1>7, InductionUpTo
<1>9. V[L] = CutOf(U[L], from, to)
    BY <1>0, <1>8 DEF S
<1>10. CutOf(U[L], from, to) = Without(U[L], from, to)
    <2> DEFINE u == U[L]
    <2>1. u \in Seq(T)
        BY <1>0, <1>3
    <2> HIDE DEF u
    <2>2. CASE Len(u) = to
        <3>1. SubSeq(u, to + 1, Len(u)) = <<>> /\ SubSeq(u, 1, from - 1) \in Seq(T)
            BY <1>4, <2>1, <2>2 DEF u
        <3>2. SubSeq(u, 1, from - 1) \o <<>> = SubSeq(u, 1, from - 1)
            BY <3>1
        <3>3. ~(Len(u) < from) /\ Len(u) <= to
            BY <1>4, <2>2 DEF u
        <3>4. CutOf(u, from, to) = SubSeq(u, 1, from - 1)
            BY <3>3, CutCases, Zenon
        <3> QED
            BY <3>1, <3>2, <3>4, Zenon DEF Without, u
    <2>3. CASE Len(u) # to
        <3>1. ~(Len(u) < from) /\ ~(Len(u) <= to)
            BY <1>4, <2>3 DEF u
        <3>2. CutOf(u, from, to) = SubSeq(u, 1, from - 1) \o SubSeq(u, to + 1, Len(u))
            BY <3>1, CutCases, Zenon
        <3> QED
            BY <3>2, Zenon DEF Without, u
    <2> QED
        BY <2>2, <2>3 DEF u
<1>11. M \in SUBSET DOMAIN calls
    OBVIOUS
<1> HIDE DEF M
<1> QED
    BY <1>1, <1>2, <1>9, <1>10, <1>11, Zenon

\* What the workers hold is left of the best sequence.
LeftOf(s) == \E kept \in SUBSET DOMAIN best.calls : s = ElementsAt(best.calls, kept)

LeftOK ==
    /\ LeftOf(current)
    /\ \A w \in Workers : pc[w] \in {"attempt", "validate", "update"} => LeftOf(candidate[w])

\* At first nothing is deleted.
LEMMA InitLeft == Init => LeftOK
<1> SUFFICES ASSUME Init PROVE LeftOK
    OBVIOUS
<1>1. best.calls \in Seq(Handlers) /\ current = best.calls
    BY BestsAssumption DEF Init, Sequences
<1>2. ElementsAt(best.calls, DOMAIN best.calls) = best.calls
    BY <1>1, KeepingAll
<1>3. LeftOf(current)
    BY <1>1, <1>2 DEF LeftOf
<1> QED
    BY <1>3 DEF LeftOK, Init

\* Every step leaves a candidate that is the best sequence with calls deleted.
LEMMA NextLeft == IInv /\ LeftOK /\ [Next]_vars => LeftOK'
<1> SUFFICES ASSUME IInv, LeftOK, [Next]_vars PROVE LeftOK'
    OBVIOUS
<1>0. best' = best
    BY DEF Next, WorkerStep, Check, Minimal, Cut, CutAll, RecordAttempt, Validate, Update, Fault,
           Timeout, Joined, vars
<1>1. \A s : LeftOf(s)' <=> LeftOf(s)
    BY <1>0 DEF LeftOf
<1>2. ASSUME NEW w \in Workers, Cut(w) PROVE LeftOK'
    <2>1. PICK from \in DOMAIN current, to \in DOMAIN current :
              from <= to /\ candidate' = [candidate EXCEPT ![w] = Without(current, from, to)]
        BY <1>2 DEF Cut
    <2>2. PICK kept \in SUBSET DOMAIN best.calls : current = ElementsAt(best.calls, kept)
        BY DEF LeftOK, LeftOf
    <2>3. best.calls \in Seq(Handlers)
        BY BestsAssumption DEF IInv, TypeOK, Sequences
    <2>4. LeftOf(Without(current, from, to))
        BY <2>1, <2>2, <2>3, CutOfKept DEF LeftOf
    <2>5. /\ pc' = [pc EXCEPT ![w] = "attempt"] /\ current' = current
          /\ DOMAIN candidate = Workers /\ DOMAIN pc = Workers
        BY <1>2 DEF Cut, Goto, IInv, TypeOK
    <2>6. \A v \in Workers : pc'[v] \in {"attempt", "validate", "update"} => LeftOf(candidate'[v])
        <3> HIDE DEF LeftOf
        <3> QED
            BY <2>1, <2>4, <2>5 DEF LeftOK
    <2> QED
        BY <1>0, <2>5, <2>6 DEF LeftOK, LeftOf
<1>3. ASSUME NEW w \in Workers, Update(w) PROVE LeftOK'
    <2>1. /\ current' \in {current, candidate[w]} /\ candidate' = candidate
          /\ LeftOf(candidate[w]) /\ pc' = [pc EXCEPT ![w] = "check"] /\ DOMAIN pc = Workers
        BY <1>3 DEF Update, Goto, LeftOK, IInv, TypeOK
    <2>2. LeftOf(current') /\ \A v \in Workers : pc'[v] \in {"attempt", "validate", "update"} => LeftOf(candidate[v])
        BY <2>1 DEF LeftOK
    <2> QED
        BY <1>0, <2>1, <2>2 DEF LeftOK, LeftOf
<1>4. CASE /\ current' = current /\ candidate' = candidate
           /\ \A v \in Workers : pc'[v] \in {"attempt", "validate", "update"}
                                   => pc[v] \in {"attempt", "validate", "update"}
    BY <1>0, <1>4 DEF LeftOK, LeftOf
<1>5. ASSUME NEW w \in Workers,
             Check(w) \/ Minimal(w) \/ CutAll(w) \/ RecordAttempt(w) \/ Validate(w) \/ Fault(w)
      PROVE  LeftOK'
    <2>1. DOMAIN pc = Workers /\ current' = current /\ candidate' = candidate
        BY <1>5 DEF Check, Minimal, CutAll, RecordAttempt, Validate, Fault, IInv, TypeOK
    <2>2. \A v \in Workers : pc'[v] \in {"attempt", "validate", "update"}
                               => pc[v] \in {"attempt", "validate", "update"}
        BY <1>5, <2>1 DEF Check, Minimal, CutAll, RecordAttempt, Validate, Fault, Goto
    <2> QED
        BY <1>4, <2>1, <2>2
<1>6. CASE Timeout \/ UNCHANGED vars
    BY <1>4, <1>6 DEF Timeout, vars
<1> QED
    BY <1>2, <1>3, <1>5, <1>6 DEF Next, WorkerStep, Joined

\* Shrinking returns what MaxCampaign expects of it: the best sequence with
\* some but not all calls deleted, in order, that keeps its value
\* (ShrinksAsPromised).
THEOREM ShrinkingIsDeletion == Spec => []ShrinksAsPromised
<1>1. IInv /\ LeftOK => ShrinksAsPromised
    <2> SUFFICES ASSUME IInv, LeftOK PROVE current \in Shrinkings(best.calls, best.value)
        BY DEF ShrinksAsPromised
    <2>1. PICK kept \in SUBSET DOMAIN best.calls : current = ElementsAt(best.calls, kept)
        BY DEF LeftOK, LeftOf
    <2>2. best.calls \in Seq(Handlers) /\ current # <<>> /\ Preserves(current, best.value)
        BY BestsAssumption DEF IInv, TypeOK, Sequences, ValuePreserved
    <2>3. kept # {}
        BY <2>1, <2>2, KeepingNone
    <2> QED
        BY <2>1, <2>2, <2>3 DEF Shrinkings
<1> QED
    BY <1>1, InitLeft, NextLeft, Invariance, PTL DEF Spec
==============================================================================
