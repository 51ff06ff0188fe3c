---------------------------- MODULE ProofBasics -----------------------------
(***************************************************************************)
(* Induction over the naturals in the form the proofs of this project use: *)
(* about sets of naturals rather than predicates, so that a fact about a   *)
(* scan, a fold or a journal is proved by applying it to the set of        *)
(* indices at which the fact holds.  With it, sums over 0 .. n - 1,        *)
(* induction and sums over finite sets, lists, and the elements at some    *)
(* positions of a sequence.                                                *)
(***************************************************************************)
EXTENDS Integers, FiniteSets, Functions, SequencesExt, Subsequences, SequenceTheorems, FiniteSetTheorems, WellFoundedInduction, TLAPS

NatLess == {p \in Nat \X Nat : p[1] < p[2]}

\* The order of the naturals is well founded.
LEMMA NatLessIsWellFounded == IsWellFoundedOn(NatLess, Nat)
BY NatLessThanWellFounded, Zenon DEF OpToRel, NatLess

\* A non-empty set of naturals has a least element.
LEMMA LeastNatural ==
    ASSUME NEW T \in SUBSET Nat, T # {}
    PROVE  \E m \in T : \A n \in T : m <= n
<1>1. PICK m \in T : \A n \in T : <<n, m>> \notin NatLess
    BY WFMin, NatLessIsWellFounded, Zenon
<1>2. \A n \in T : ~(n < m)
    BY <1>1 DEF NatLess
<1> QED
    BY <1>2

\* What holds at 0 and passes from each index to the next, up to L, holds up
\* to L.
LEMMA InductionUpTo ==
    ASSUME NEW L \in Nat, NEW S, 0 \in S,
           \A n \in 1 .. L : n - 1 \in S => n \in S
    PROVE  \A n \in 0 .. L : n \in S
<1> DEFINE T == {n \in 0 .. L : n \notin S}
<1> SUFFICES ASSUME T # {} PROVE FALSE
    OBVIOUS
<1>0. T \in SUBSET Nat
    OBVIOUS
<1>1. PICK m \in T : \A n \in T : m <= n
    BY <1>0, LeastNatural
<1>2. m \in 1 .. L /\ m - 1 \in 0 .. L /\ ~(m <= m - 1)
    BY <1>1
<1>3. m - 1 \in S
    BY <1>1, <1>2
<1> QED
    BY <1>1, <1>2, <1>3

-----------------------------------------------------------------------------
(* Sums over 0 .. n - 1.                                                   *)

PartialSums(f, n) ==
    CHOOSE s : s = [k \in 0 .. n |-> IF k = 0 THEN 0 ELSE s[k - 1] + f[k - 1]]

SumTo(f, n) == PartialSums(f, n)[n]

\* The partial sums are what they are defined to be.
LEMMA PartialSumsExist ==
    ASSUME NEW f, NEW n \in Nat
    PROVE  PartialSums(f, n) = [k \in 0 .. n |-> IF k = 0 THEN 0 ELSE PartialSums(f, n)[k - 1] + f[k - 1]]
<1> DEFINE Sums(s, m) == s = [k \in 0 .. m |-> IF k = 0 THEN 0 ELSE s[k - 1] + f[k - 1]]
           S == {m \in 0 .. n : \E s : Sums(s, m)}
<1>1. 0 \in S
    <2>1. Sums([k \in 0 .. 0 |-> 0], 0)
        OBVIOUS
    <2> HIDE DEF Sums
    <2> QED
        BY <2>1
<1>2. ASSUME NEW m \in 1 .. n, m - 1 \in S
      PROVE  m \in S
    <2>1. PICK s : Sums(s, m - 1)
        BY <1>2
    <2> DEFINE t == [k \in 0 .. m |-> IF k < m THEN s[k] ELSE s[m - 1] + f[m - 1]]
    <2>2. \A k \in 0 .. m : t[k] = IF k = 0 THEN 0 ELSE t[k - 1] + f[k - 1]
        <3> TAKE k \in 0 .. m
        <3>1. k # 0 => t[k - 1] = s[k - 1]
            OBVIOUS
        <3>2. k < m => s[k] = IF k = 0 THEN 0 ELSE s[k - 1] + f[k - 1]
            BY <2>1
        <3> QED
            BY <3>1, <3>2
    <2>3. Sums(t, m)
        BY <2>2
    <2>4. m \in 0 .. n
        OBVIOUS
    <2> HIDE DEF t, Sums
    <2> QED
        BY <2>3, <2>4
<1> HIDE DEF S
<1>3. n \in S
    BY <1>1, <1>2, InductionUpTo
<1>4. \E s : Sums(s, n)
    BY <1>3 DEF S
<1> QED
    BY <1>4, Zenon DEF PartialSums

\* The partial sums of naturals are naturals, and follow each other.
LEMMA SumSteps ==
    ASSUME NEW n \in Nat, NEW f \in [0 .. n - 1 -> Nat]
    PROVE  /\ PartialSums(f, n)[0] = 0
           /\ \A k \in 1 .. n : PartialSums(f, n)[k] = PartialSums(f, n)[k - 1] + f[k - 1]
           /\ \A k \in 0 .. n : PartialSums(f, n)[k] \in Nat
           /\ SumTo(f, n) \in Nat
<1> DEFINE s == PartialSums(f, n)
           S == {k \in 0 .. n : s[k] \in Nat}
<1>1. s[0] = 0 /\ \A k \in 1 .. n : s[k] = s[k - 1] + f[k - 1]
    <2>1. s = [k \in 0 .. n |-> IF k = 0 THEN 0 ELSE s[k - 1] + f[k - 1]]
        BY PartialSumsExist
    <2> HIDE DEF s
    <2> QED
        BY <2>1
<1> HIDE DEF s
<1>2. 0 \in S
    BY <1>1
<1>3. ASSUME NEW k \in 1 .. n, k - 1 \in S PROVE k \in S
    BY <1>1, <1>3
<1> HIDE DEF S
<1>4. \A k \in 0 .. n : k \in S
    BY <1>2, <1>3, InductionUpTo
<1> QED
    BY <1>1, <1>4 DEF s, S, SumTo

\* Lowering one summand by one lowers the sum by one.
LEMMA SumLowered ==
    ASSUME NEW n \in Nat, NEW f \in [0 .. n - 1 -> Nat], NEW w \in 0 .. n - 1, f[w] > 0
    PROVE  SumTo([f EXCEPT ![w] = @ - 1], n) = SumTo(f, n) - 1
<1> DEFINE g == [f EXCEPT ![w] = @ - 1]
           S == {k \in 0 .. n : PartialSums(g, n)[k] = PartialSums(f, n)[k] - (IF w < k THEN 1 ELSE 0)}
<1>1. g \in [0 .. n - 1 -> Nat]
    OBVIOUS
<1> HIDE DEF g
<1>2. /\ PartialSums(f, n)[0] = 0 /\ PartialSums(g, n)[0] = 0
      /\ \A k \in 1 .. n : /\ PartialSums(f, n)[k] = PartialSums(f, n)[k - 1] + f[k - 1]
                           /\ PartialSums(g, n)[k] = PartialSums(g, n)[k - 1] + g[k - 1]
      /\ \A k \in 0 .. n : PartialSums(f, n)[k] \in Nat /\ PartialSums(g, n)[k] \in Nat
    BY <1>1, SumSteps
<1>3. 0 \in S
    BY <1>2
<1>4. ASSUME NEW k \in 1 .. n, k - 1 \in S PROVE k \in S
    <2> DEFINE F == PartialSums(f, n)
               G == PartialSums(g, n)
    <2>1. g[k - 1] = f[k - 1] - (IF k - 1 = w THEN 1 ELSE 0) /\ f[k - 1] \in Nat
        BY DEF g
    <2>2. F[k] = F[k - 1] + f[k - 1] /\ G[k] = G[k - 1] + g[k - 1] /\ F[k - 1] \in Nat
        BY <1>2
    <2>3. G[k - 1] = F[k - 1] - (IF w < k - 1 THEN 1 ELSE 0)
        BY <1>4
    <2> HIDE DEF F, G
    <2>4. G[k] = F[k] - (IF w < k THEN 1 ELSE 0)
        BY <2>1, <2>2, <2>3
    <2> QED
        BY <2>4 DEF F, G
<1> HIDE DEF S
<1>5. \A k \in 0 .. n : k \in S
    BY <1>3, <1>4, InductionUpTo
<1>6. PartialSums(g, n)[n] = PartialSums(f, n)[n] - 1
    BY <1>5 DEF S
<1> QED
    BY <1>6 DEF SumTo, g

\* A sum of zeroes is zero.
LEMMA SumOfZeroes ==
    ASSUME NEW n \in Nat, NEW f \in [0 .. n - 1 -> Nat], \A w \in 0 .. n - 1 : f[w] = 0
    PROVE  SumTo(f, n) = 0
<1> DEFINE S == {k \in 0 .. n : PartialSums(f, n)[k] = 0}
<1>1. 0 \in S
    BY SumSteps
<1>2. ASSUME NEW k \in 1 .. n, k - 1 \in S PROVE k \in S
    <2>1. PartialSums(f, n)[k] = PartialSums(f, n)[k - 1] + f[k - 1]
        BY SumSteps
    <2> QED
        BY <1>2, <2>1
<1> HIDE DEF S
<1>3. n \in S
    BY <1>1, <1>2, InductionUpTo
<1> QED
    BY <1>3 DEF S, SumTo

\* The shares of m among n: the first m % n get one more.
LEMMA SumOfShares ==
    ASSUME NEW n \in Nat, NEW f \in [0 .. n - 1 -> Nat], NEW q \in Nat, NEW r \in 0 .. n,
           \A w \in 0 .. n - 1 : f[w] = q + (IF w < r THEN 1 ELSE 0)
    PROVE  SumTo(f, n) = n * q + r
<1> DEFINE S == {k \in 0 .. n : PartialSums(f, n)[k] = k * q + (IF k < r THEN k ELSE r)}
<1>1. 0 \in S
    BY SumSteps
<1>2. ASSUME NEW k \in 1 .. n, k - 1 \in S PROVE k \in S
    <2>0. PartialSums(f, n)[k] = PartialSums(f, n)[k - 1] + f[k - 1]
        BY SumSteps
    <2>1. PartialSums(f, n)[k] = PartialSums(f, n)[k - 1] + (q + (IF k - 1 < r THEN 1 ELSE 0))
        BY <2>0
    <2>2. (k - 1) * q + q = k * q
        OBVIOUS
    <2>3. (k - 1) * q \in Nat /\ k * q \in Nat
        OBVIOUS
    <2> QED
        BY <1>2, <2>1, <2>2, <2>3
<1> HIDE DEF S
<1>3. \A k \in 0 .. n : k \in S
    BY <1>1, <1>2, InductionUpTo
<1> QED
    BY <1>3 DEF S, SumTo

-----------------------------------------------------------------------------
(* Finite sets.                                                            *)

\* What passes to a set from all its proper subsets holds of a finite set.
LEMMA SubsetInduction ==
    ASSUME NEW S, IsFiniteSet(S), NEW Q,
           \A T \in SUBSET S : (\A U \in SUBSET T : U # T => U \in Q) => T \in Q
    PROVE  \A T \in SUBSET S : T \in Q
<1> DEFINE N == {n \in Nat : \A T \in SUBSET S : Cardinality(T) <= n => T \in Q}
<1>0. \A T \in SUBSET S : IsFiniteSet(T) /\ Cardinality(T) \in Nat /\ Cardinality(T) <= Cardinality(S)
    BY FS_Subset, FS_CardinalityType
<1>1. ASSUME NEW T \in SUBSET S, NEW U \in SUBSET T, U # T
      PROVE  U \in SUBSET S /\ Cardinality(U) < Cardinality(T)
    <2>1. U \in SUBSET S /\ IsFiniteSet(T)
        BY <1>0
    <2>2. Cardinality(U) <= Cardinality(T) /\ Cardinality(U) # Cardinality(T)
        BY <1>1, <2>1, FS_Subset
    <2> QED
        BY <1>0, <2>1, <2>2
<1>2. 0 \in N
    <2> SUFFICES ASSUME NEW T \in SUBSET S, Cardinality(T) <= 0 PROVE T \in Q
        OBVIOUS
    <2>1. \A U \in SUBSET T : U = T
        BY <1>0, <1>1
    <2> QED
        BY <2>1
<1>3. ASSUME NEW n \in 1 .. Cardinality(S), n - 1 \in N PROVE n \in N
    <2> SUFFICES ASSUME NEW T \in SUBSET S, Cardinality(T) <= n PROVE T \in Q
        BY <1>3
    <2>1. ASSUME NEW U \in SUBSET T, U # T PROVE U \in Q
        <3>1. U \in SUBSET S /\ Cardinality(U) <= n - 1
            BY <1>0, <1>1, <2>1
        <3> QED
            BY <1>3, <3>1
    <2> QED
        BY <2>1
<1>4. Cardinality(S) \in Nat
    BY FS_CardinalityType
<1> HIDE DEF N
<1>5. Cardinality(S) \in N
    BY <1>2, <1>3, <1>4, InductionUpTo
<1> QED
    BY <1>0, <1>5 DEF N

-----------------------------------------------------------------------------
(* Sums over finite sets.                                                  *)

Chosen(s) == CHOOSE x \in s : TRUE

SubSums(f, S) ==
    CHOOSE it : it = [s \in SUBSET S |-> IF s = {} THEN 0 ELSE f[Chosen(s)] + it[s \ {Chosen(s)}]]

\* The library's sum is the last of them.
LEMMA SumIsSubSum ==
    ASSUME NEW f, NEW S
    PROVE  SumFunctionOnSet(f, S) = SubSums(f, S)[S]
BY DEF SumFunctionOnSet, FoldFunctionOnSet, MapThenFoldSet, SubSums, Chosen

\* They are what they are defined to be.
LEMMA SubSumsExist ==
    ASSUME NEW f, NEW S, IsFiniteSet(S)
    PROVE  \A s \in SUBSET S :
               SubSums(f, S)[s] = IF s = {} THEN 0 ELSE f[Chosen(s)] + SubSums(f, S)[s \ {Chosen(s)}]
<1> DEFINE Body(it, s) == IF s = {} THEN 0 ELSE f[Chosen(s)] + it[s \ {Chosen(s)}]
           Good(it, n) == /\ it = [s \in SUBSET S |-> it[s]]
                          /\ \A s \in SUBSET S : Cardinality(s) <= n => it[s] = Body(it, s)
           N == {n \in Nat : \E it : Good(it, n)}
           c == Cardinality(S)
<1>0. \A s \in SUBSET S : IsFiniteSet(s) /\ Cardinality(s) \in Nat /\ Cardinality(s) <= c
    BY FS_Subset, FS_CardinalityType
<1>1. ASSUME NEW s \in SUBSET S, s # {}
      PROVE  s \ {Chosen(s)} \in SUBSET S /\ Cardinality(s \ {Chosen(s)}) = Cardinality(s) - 1
    <2>1. Chosen(s) \in s
        BY <1>1 DEF Chosen
    <2> QED
        BY <1>0, <2>1, FS_RemoveElement
<1>2. 0 \in N
    <2> DEFINE it == [s \in SUBSET S |-> 0]
    <2>1. \A s \in SUBSET S : Cardinality(s) <= 0 => s = {}
        BY <1>0, FS_EmptySet
    <2>2. Good(it, 0)
        BY <2>1
    <2> HIDE DEF it, Good
    <2> QED
        BY <2>2
<1>3. ASSUME NEW n \in 1 .. c, n - 1 \in N PROVE n \in N
    <2>1. PICK it : Good(it, n - 1)
        BY <1>3
    <2> DEFINE jt == [s \in SUBSET S |-> IF Cardinality(s) <= n - 1 THEN it[s] ELSE Body(it, s)]
    <2>2. ASSUME NEW s \in SUBSET S, Cardinality(s) <= n
          PROVE  jt[s] = Body(jt, s)
        <3>1. jt[s] = Body(it, s)
            BY <2>1
        <3>2. s # {} => jt[s \ {Chosen(s)}] = it[s \ {Chosen(s)}]
            BY <1>0, <1>1, <2>2
        <3> QED
            BY <3>1, <3>2
    <2>3. jt = [s \in SUBSET S |-> jt[s]]
        OBVIOUS
    <2> HIDE DEF jt
    <2>4. Good(jt, n)
        BY <2>2, <2>3
    <2> HIDE DEF Good
    <2> QED
        BY <2>4
<1>4. c \in Nat
    BY FS_CardinalityType
<1> HIDE DEF N
<1>5. c \in N
    BY <1>2, <1>3, <1>4, InductionUpTo
<1>6. PICK it : Good(it, c)
    BY <1>5 DEF N
<1>7. \A s \in SUBSET S : it[s] = Body(it, s)
    BY <1>0, <1>6
<1>8. it = [s \in SUBSET S |-> it[s]]
    BY <1>6
<1>9. it = [s \in SUBSET S |-> Body(it, s)]
    <2> HIDE DEF Body
    <2> QED
        BY <1>7, <1>8
<1> DEFINE B == SubSums(f, S)
<1>10. B = [s \in SUBSET S |-> Body(B, s)]
    BY <1>9, Zenon DEF SubSums
<1> HIDE DEF B
<1>11. \A s \in SUBSET S : B[s] = Body(B, s)
    BY <1>10
<1> QED
    BY <1>11 DEF B

\* A subset's sums do not depend on the set it is taken from.
LEMMA SubSumsAgree ==
    ASSUME NEW f, NEW S, IsFiniteSet(S), NEW T \in SUBSET S
    PROVE  SubSums(f, T)[T] = SubSums(f, S)[T]
<1> DEFINE A == SubSums(f, T)
           B == SubSums(f, S)
           Q == {U \in SUBSET T : A[U] = B[U]}
<1>0. IsFiniteSet(T)
    BY FS_Subset
<1>1. \A s \in SUBSET T : A[s] = IF s = {} THEN 0 ELSE f[Chosen(s)] + A[s \ {Chosen(s)}]
    BY <1>0, SubSumsExist
<1>2. \A s \in SUBSET S : B[s] = IF s = {} THEN 0 ELSE f[Chosen(s)] + B[s \ {Chosen(s)}]
    BY SubSumsExist
<1> HIDE DEF A, B
<1>3. ASSUME NEW U \in SUBSET T, \A V \in SUBSET U : V # U => V \in Q
      PROVE  U \in Q
    <2>1. A[U] = IF U = {} THEN 0 ELSE f[Chosen(U)] + A[U \ {Chosen(U)}]
        BY <1>1
    <2>2. B[U] = IF U = {} THEN 0 ELSE f[Chosen(U)] + B[U \ {Chosen(U)}]
        BY <1>2
    <2>3. U # {} => A[U \ {Chosen(U)}] = B[U \ {Chosen(U)}]
        <3> SUFFICES ASSUME U # {} PROVE A[U \ {Chosen(U)}] = B[U \ {Chosen(U)}]
            OBVIOUS
        <3>1. Chosen(U) \in U
            BY DEF Chosen
        <3> QED
            BY <1>3, <3>1
    <2> QED
        BY <2>1, <2>2, <2>3
<1> HIDE DEF Q
<1>4. T \in Q
    BY <1>0, <1>3, SubsetInduction
<1> QED
    BY <1>4 DEF Q, A, B

\* The sum of f over a finite set.
SumOn(f, S) == SumFunctionOnSet(f, S)

\* The sum over nothing is zero.
LEMMA SumOfNothing ==
    ASSUME NEW f
    PROVE  SumOn(f, {}) = 0
<1>0. IsFiniteSet({})
    BY FS_EmptySet
<1>1. SubSums(f, {})[{}] = 0
    BY <1>0, SubSumsExist
<1> QED
    BY <1>1, SumIsSubSum DEF SumOn

\* One summand after the other.
LEMMA SumStep ==
    ASSUME NEW f, NEW S, IsFiniteSet(S), S # {}
    PROVE  /\ Chosen(S) \in S
           /\ SumOn(f, S) = f[Chosen(S)] + SumOn(f, S \ {Chosen(S)})
<1> DEFINE B == SubSums(f, S)
           R == S \ {Chosen(S)}
<1>1. \A s \in SUBSET S : B[s] = IF s = {} THEN 0 ELSE f[Chosen(s)] + B[s \ {Chosen(s)}]
    BY SubSumsExist
<1>2. SubSums(f, R)[R] = B[R]
    BY SubSumsAgree
<1>3. SumFunctionOnSet(f, S) = B[S] /\ SumFunctionOnSet(f, R) = SubSums(f, R)[R]
    BY SumIsSubSum
<1> HIDE DEF B
<1>4. B[S] = f[Chosen(S)] + B[R]
    BY <1>1
<1>5. Chosen(S) \in S
    BY DEF Chosen
<1> QED
    BY <1>2, <1>3, <1>4, <1>5 DEF SumOn

\* The sum of naturals is a natural.
LEMMA SumIsNat ==
    ASSUME NEW f, NEW S, IsFiniteSet(S), \A x \in S : f[x] \in Nat
    PROVE  SumOn(f, S) \in Nat
<1> DEFINE Q == {T \in SUBSET S : SumOn(f, T) \in Nat}
<1>1. ASSUME NEW T \in SUBSET S, \A U \in SUBSET T : U # T => U \in Q
      PROVE  T \in Q
    <2>1. CASE T = {}
        BY <2>1, SumOfNothing
    <2>2. CASE T # {}
        <3>1. /\ Chosen(T) \in T
              /\ SumOn(f, T) = f[Chosen(T)] + SumOn(f, T \ {Chosen(T)})
            BY <2>2, FS_Subset, SumStep
        <3>2. SumOn(f, T \ {Chosen(T)}) \in Nat
            BY <1>1, <3>1
        <3> QED
            BY <3>1, <3>2
    <2> QED
        BY <2>1, <2>2
<1> HIDE DEF Q
<1>2. S \in Q
    BY <1>1, SubsetInduction
<1> QED
    BY <1>2 DEF Q

\* Any summand may be taken out.
LEMMA SumWithout ==
    ASSUME NEW f, NEW S, IsFiniteSet(S), \A x \in S : f[x] \in Nat, NEW e \in S
    PROVE  SumOn(f, S) = f[e] + SumOn(f, S \ {e})
<1> DEFINE Q == {T \in SUBSET S : \A x \in T : SumOn(f, T) = f[x] + SumOn(f, T \ {x})}
<1>0. \A T \in SUBSET S : IsFiniteSet(T) /\ SumOn(f, T) \in Nat
    <2> TAKE T \in SUBSET S
    <2>1. IsFiniteSet(T) /\ \A x \in T : f[x] \in Nat
        BY FS_Subset
    <2> QED
        BY <2>1, SumIsNat
<1>1. ASSUME NEW T \in SUBSET S, \A U \in SUBSET T : U # T => U \in Q
      PROVE  T \in Q
    <2> SUFFICES ASSUME NEW x \in T PROVE SumOn(f, T) = f[x] + SumOn(f, T \ {x})
        OBVIOUS
    <2> DEFINE c == Chosen(T)
               R == T \ {c}
               V == T \ {x}
               W == T \ {c, x}
    <2>1. c \in T /\ SumOn(f, T) = f[c] + SumOn(f, R)
        BY <1>0, SumStep
    <2>2. CASE x = c
        BY <2>1, <2>2
    <2>3. CASE x # c
        <3>1. R \in Q /\ x \in R /\ R \ {x} = W
            BY <1>1, <2>1, <2>3
        <3>2. V \in Q /\ c \in V /\ V \ {c} = W
            BY <1>1, <2>1, <2>3
        <3> HIDE DEF c, R, V, W
        <3>3. SumOn(f, R) = f[x] + SumOn(f, W)
            BY <3>1
        <3>4. SumOn(f, V) = f[c] + SumOn(f, W)
            BY <3>2
        <3>5. SumOn(f, W) \in Nat /\ f[c] \in Nat /\ f[x] \in Nat
            BY <1>0, <2>1 DEF W
        <3>6. SumOn(f, T) = f[x] + SumOn(f, V)
            BY <2>1, <3>3, <3>4, <3>5
        <3> QED
            BY <3>6 DEF V
    <2> QED
        BY <2>2, <2>3
<1> HIDE DEF Q
<1>2. S \in Q
    BY <1>1, SubsetInduction
<1> QED
    BY <1>2 DEF Q

\* The sum depends on the summands only, and grows with them.
LEMMA SumGrows ==
    ASSUME NEW f, NEW g, NEW S, IsFiniteSet(S),
           \A x \in S : f[x] \in Nat /\ g[x] \in Nat /\ f[x] <= g[x]
    PROVE  SumOn(f, S) <= SumOn(g, S)
<1> DEFINE Q == {T \in SUBSET S : SumOn(f, T) <= SumOn(g, T)}
<1>0. \A T \in SUBSET S : IsFiniteSet(T) /\ SumOn(f, T) \in Nat /\ SumOn(g, T) \in Nat
    <2> TAKE T \in SUBSET S
    <2>1. IsFiniteSet(T) /\ \A x \in T : f[x] \in Nat
        BY FS_Subset
    <2>2. \A x \in T : g[x] \in Nat
        OBVIOUS
    <2> QED
        BY <2>1, <2>2, SumIsNat
<1>1. ASSUME NEW T \in SUBSET S, \A U \in SUBSET T : U # T => U \in Q
      PROVE  T \in Q
    <2>1. CASE T = {}
        BY <2>1, SumOfNothing
    <2>2. CASE T # {}
        <3> DEFINE c == Chosen(T)
                   R == T \ {c}
        <3>1. c \in T /\ SumOn(f, T) = f[c] + SumOn(f, R)
            BY <1>0, <2>2, SumStep
        <3>2. SumOn(g, T) = g[c] + SumOn(g, R)
            BY <1>0, <2>2, SumStep
        <3>3. R \in SUBSET S /\ SumOn(f, R) <= SumOn(g, R)
            BY <1>1, <3>1
        <3> HIDE DEF c, R
        <3>4. SumOn(f, R) \in Nat /\ SumOn(g, R) \in Nat /\ f[c] \in Nat /\ g[c] \in Nat /\ f[c] <= g[c]
            BY <1>0, <3>1, <3>3
        <3> QED
            BY <3>1, <3>2, <3>3, <3>4
    <2> QED
        BY <2>1, <2>2
<1> HIDE DEF Q
<1>2. S \in Q
    BY <1>1, SubsetInduction
<1> QED
    BY <1>2 DEF Q

\* A sum depends on its summands only.
LEMMA SumSame ==
    ASSUME NEW f, NEW g, NEW S, IsFiniteSet(S), \A x \in S : f[x] = g[x]
    PROVE  SumOn(f, S) = SumOn(g, S)
<1> DEFINE Q == {T \in SUBSET S : SumOn(f, T) = SumOn(g, T)}
<1>1. ASSUME NEW T \in SUBSET S, \A U \in SUBSET T : U # T => U \in Q
      PROVE  T \in Q
    <2>1. CASE T = {}
        BY <2>1, SumOfNothing
    <2>2. CASE T # {}
        <3>1. IsFiniteSet(T)
            BY FS_Subset
        <3>2. Chosen(T) \in T /\ SumOn(f, T) = f[Chosen(T)] + SumOn(f, T \ {Chosen(T)})
            BY <2>2, <3>1, SumStep
        <3>3. SumOn(g, T) = g[Chosen(T)] + SumOn(g, T \ {Chosen(T)})
            BY <2>2, <3>1, SumStep
        <3>4. SumOn(f, T \ {Chosen(T)}) = SumOn(g, T \ {Chosen(T)})
            BY <1>1, <3>2
        <3> QED
            BY <3>2, <3>3, <3>4
    <2> QED
        BY <2>1, <2>2
<1> HIDE DEF Q
<1>2. S \in Q
    BY <1>1, SubsetInduction
<1> QED
    BY <1>2 DEF Q

\* The sum over a part is at most the sum over the whole.
LEMMA SumOfPart ==
    ASSUME NEW f, NEW S, IsFiniteSet(S), \A x \in S : f[x] \in Nat, NEW P \in SUBSET S
    PROVE  SumOn(f, P) <= SumOn(f, S)
<1> DEFINE Q == {T \in SUBSET S : SumOn(f, T \cap P) <= SumOn(f, T)}
<1>0. \A T \in SUBSET S : IsFiniteSet(T) /\ SumOn(f, T) \in Nat
    <2> TAKE T \in SUBSET S
    <2>1. IsFiniteSet(T) /\ \A x \in T : f[x] \in Nat
        BY FS_Subset
    <2> QED
        BY <2>1, SumIsNat
<1>1. ASSUME NEW T \in SUBSET S, \A U \in SUBSET T : U # T => U \in Q
      PROVE  T \in Q
    <2>1. CASE T \subseteq P
        <3>1. T \cap P = T
            BY <2>1
        <3> QED
            BY <1>0, <3>1
    <2>2. CASE ~(T \subseteq P)
        <3>1. PICK e \in T : e \notin P
            BY <2>2
        <3> DEFINE R == T \ {e}
        <3>2. R \in Q /\ T \cap P = R \cap P
            BY <1>1, <3>1
        <3>3. SumOn(f, T) = f[e] + SumOn(f, R)
            <4>1. IsFiniteSet(T) /\ \A x \in T : f[x] \in Nat
                BY <1>0
            <4> QED
                BY <4>1, SumWithout
        <3>4. SumOn(f, R) \in Nat /\ f[e] \in Nat /\ SumOn(f, R \cap P) \in Nat
            BY <1>0
        <3>5. SumOn(f, R \cap P) <= SumOn(f, R)
            BY <3>2
        <3> HIDE DEF R
        <3> QED
            BY <3>2, <3>3, <3>4, <3>5
    <2> QED
        BY <2>1, <2>2
<1> HIDE DEF Q
<1>2. S \in Q
    BY <1>1, SubsetInduction
<1>3. S \cap P = P
    OBVIOUS
<1> QED
    BY <1>2, <1>3 DEF Q

\* A sum of zeroes over a set is zero.
LEMMA SumOfNone ==
    ASSUME NEW f, NEW S, IsFiniteSet(S), \A x \in S : f[x] = 0
    PROVE  SumOn(f, S) = 0
<1> DEFINE Q == {T \in SUBSET S : SumOn(f, T) = 0}
<1>1. ASSUME NEW T \in SUBSET S, \A U \in SUBSET T : U # T => U \in Q
      PROVE  T \in Q
    <2>1. CASE T = {}
        BY <2>1, SumOfNothing
    <2>2. CASE T # {}
        <3>1. Chosen(T) \in T /\ SumOn(f, T) = f[Chosen(T)] + SumOn(f, T \ {Chosen(T)})
            BY <2>2, FS_Subset, SumStep
        <3>2. SumOn(f, T \ {Chosen(T)}) = 0
            BY <1>1, <3>1
        <3> QED
            BY <3>1, <3>2
    <2> QED
        BY <2>1, <2>2
<1> HIDE DEF Q
<1>2. S \in Q
    BY <1>1, SubsetInduction
<1> QED
    BY <1>2 DEF Q
-----------------------------------------------------------------------------
(* Lists of anything.                                                      *)

IsList(s) == \E T : s \in Seq(T)

\* The empty list.
LEMMA EmptyList == IsList(<<>>)
<1>1. <<>> \in Seq({})
    OBVIOUS
<1> QED
    BY <1>1 DEF IsList

\* The positions of a list.
LEMMA ListLength ==
    ASSUME NEW s, IsList(s)
    PROVE  Len(s) \in Nat /\ DOMAIN s = 1 .. Len(s)
BY DEF IsList

\* Appending an element.
LEMMA ListAppend ==
    ASSUME NEW s, IsList(s), NEW x
    PROVE  /\ IsList(Append(s, x))
           /\ Len(Append(s, x)) = Len(s) + 1
           /\ \A i \in 1 .. Len(s) : Append(s, x)[i] = s[i]
           /\ Append(s, x)[Len(s) + 1] = x
<1>1. PICK T : s \in Seq(T)
    BY DEF IsList
<1> DEFINE U == T \cup {x}
<1>2. s \in Seq(U) /\ x \in U
    BY <1>1
<1> HIDE DEF U
<1>3. Append(s, x) \in Seq(U)
    BY <1>2
<1> QED
    BY <1>2, <1>3 DEF IsList

\* The two ends of a list.
LEMMA ListEnds ==
    ASSUME NEW s, IsList(s), s # <<>>
    PROVE  /\ Len(s) \in Nat \ {0} /\ DOMAIN s = 1 .. Len(s)
           /\ IsList(Front(s)) /\ Len(Front(s)) = Len(s) - 1
           /\ \A i \in 1 .. Len(s) - 1 : Front(s)[i] = s[i]
           /\ Last(s) = s[Len(s)]
           /\ IsList(Tail(s)) /\ DOMAIN Tail(s) = 1 .. Len(s) - 1
           /\ \A i \in 1 .. Len(s) - 1 : Tail(s)[i] = s[i + 1]
           /\ Head(s) = s[1]
<1>1. PICK T : s \in Seq(T)
    BY DEF IsList
<1>2. Len(s) \in Nat \ {0} /\ DOMAIN s = 1 .. Len(s)
    BY <1>1
<1>3. /\ Front(s) \in Seq(T) /\ Len(Front(s)) = Len(s) - 1
      /\ \A i \in 1 .. Len(s) - 1 : Front(s)[i] = s[i]
    BY <1>1, <1>2 DEF Front
<1>4. /\ Tail(s) \in Seq(T) /\ Len(Tail(s)) = Len(s) - 1
      /\ \A i \in 1 .. Len(s) - 1 : Tail(s)[i] = s[i + 1]
      /\ Head(s) = s[1]
    BY <1>1, <1>2
<1>5. DOMAIN Tail(s) = 1 .. Len(s) - 1
    BY <1>4
<1> QED
    BY <1>2, <1>3, <1>4, <1>5 DEF IsList, Last

\* Replacing every element.
LEMMA ListReplace ==
    ASSUME NEW s, IsList(s), NEW t, t = [i \in DOMAIN s |-> t[i]]
    PROVE  IsList(t) /\ Len(t) = Len(s)
<1> DEFINE U == {t[i] : i \in DOMAIN s}
<1>1. t \in [1 .. Len(s) -> U] /\ Len(s) \in Nat
    BY ListLength
<1> HIDE DEF U
<1>2. t \in Seq(U) /\ Len(t) = Len(s)
    BY <1>1
<1> QED
    BY <1>2 DEF IsList

\* Removing an element keeps the others.
LEMMA ListRemove ==
    ASSUME NEW s, IsList(s), NEW k \in DOMAIN s
    PROVE  /\ IsList(RemoveAt(s, k))
           /\ Len(RemoveAt(s, k)) = Len(s) - 1
           /\ \A i \in DOMAIN RemoveAt(s, k) : \E j \in DOMAIN s : RemoveAt(s, k)[i] = s[j]
           /\ \A j \in DOMAIN s \ {k} : \E i \in DOMAIN RemoveAt(s, k) : RemoveAt(s, k)[i] = s[j]
<1>1. PICK T : s \in Seq(T)
    BY DEF IsList
<1>2. k \in 1 .. Len(s) /\ Len(s) \in Nat
    BY ListLength
<1> DEFINE a == SubSeq(s, 1, k - 1)
           b == SubSeq(s, k + 1, Len(s))
<1>3. /\ a \in Seq(T) /\ Len(a) = k - 1
      /\ \A i \in 1 .. k - 1 : a[i] = s[i]
    BY <1>1, <1>2
<1>4. /\ b \in Seq(T) /\ Len(b) = Len(s) - k
      /\ \A i \in 1 .. Len(s) - k : b[i] = s[k + i]
    BY <1>1, <1>2
<1>5. RemoveAt(s, k) = a \o b
    BY DEF RemoveAt
<1> HIDE DEF a, b
<1>6. /\ a \o b \in Seq(T) /\ Len(a \o b) = Len(s) - 1
      /\ \A i \in 1 .. k - 1 : (a \o b)[i] = a[i]
      /\ \A i \in k .. Len(s) - 1 : (a \o b)[i] = b[i - (k - 1)]
    BY <1>2, <1>3, <1>4
<1> DEFINE ab == a \o b
<1>7. /\ ab \in Seq(T) /\ Len(ab) = Len(s) - 1
      /\ \A i \in 1 .. k - 1 : ab[i] = a[i]
      /\ \A i \in k .. Len(s) - 1 : ab[i] = b[i - (k - 1)]
    BY <1>6
<1> HIDE DEF ab
<1>8. \A i \in DOMAIN ab : \E j \in DOMAIN s : ab[i] = s[j]
    <2> SUFFICES ASSUME NEW i \in DOMAIN ab PROVE \E j \in DOMAIN s : ab[i] = s[j]
        OBVIOUS
    <2>1. i \in 1 .. Len(s) - 1 /\ DOMAIN s = 1 .. Len(s)
        BY <1>1, <1>7
    <2>2. CASE i < k
        <3>1. ab[i] = s[i] /\ i \in DOMAIN s
            BY <1>2, <1>3, <1>7, <2>1, <2>2
        <3> QED
            BY <3>1
    <2>3. CASE ~(i < k)
        <3>1. i - (k - 1) \in 1 .. Len(s) - k /\ k + (i - (k - 1)) = i + 1
            BY <1>2, <2>1, <2>3
        <3>2. ab[i] = b[i - (k - 1)]
            BY <1>2, <1>7, <2>1, <2>3
        <3>3. b[i - (k - 1)] = s[i + 1] /\ i + 1 \in DOMAIN s
            BY <1>2, <1>4, <2>1, <3>1
        <3> QED
            BY <3>2, <3>3
    <2> QED
        BY <2>2, <2>3
<1>9. \A j \in DOMAIN s \ {k} : \E i \in DOMAIN ab : ab[i] = s[j]
    <2> SUFFICES ASSUME NEW j \in DOMAIN s \ {k} PROVE \E i \in DOMAIN ab : ab[i] = s[j]
        OBVIOUS
    <2>1. j \in 1 .. Len(s) /\ DOMAIN ab = 1 .. Len(s) - 1
        BY <1>1, <1>7
    <2>2. CASE j < k
        <3>1. ab[j] = s[j] /\ j \in DOMAIN ab
            BY <1>2, <1>3, <1>7, <2>1, <2>2
        <3> QED
            BY <3>1
    <2>3. CASE ~(j < k)
        <3>1. j - k \in 1 .. Len(s) - k /\ k + (j - k) = j /\ j - 1 \in k .. Len(s) - 1
              /\ (j - 1) - (k - 1) = j - k
            BY <1>2, <2>1, <2>3
        <3>2. ab[j - 1] = b[j - k]
            BY <1>7, <3>1
        <3>3. b[j - k] = s[k + (j - k)]
            BY <1>4, <3>1
        <3>4. b[j - k] = s[j]
            BY <3>1, <3>3
        <3>5. j - 1 \in DOMAIN ab
            BY <1>2, <2>1, <3>1
        <3> QED
            BY <3>2, <3>4, <3>5
    <2> QED
        BY <2>2, <2>3
<1> QED
    BY <1>5, <1>7, <1>8, <1>9 DEF IsList, ab

-----------------------------------------------------------------------------
(* Elements of a sequence, at some of its positions.                       *)

\* The n-th element is taken or not.
TakeOrSkip(u, n, seq, K) == IF n \in K THEN Append(u, seq[n]) ELSE u

\* The elements taken from the first n, for each n.
ElementsUpto(seq, K) ==
    CHOOSE upto : upto = [n \in 0 .. Len(seq) |->
                             IF n = 0 THEN <<>> ELSE TakeOrSkip(upto[n - 1], n, seq, K)]

\* They are collected one by one.
LEMMA ElementsSteps ==
    ASSUME NEW seq, NEW K, Len(seq) \in Nat
    PROVE  /\ ElementsUpto(seq, K)[0] = <<>>
           /\ \A n \in 1 .. Len(seq) :
                 ElementsUpto(seq, K)[n] = TakeOrSkip(ElementsUpto(seq, K)[n - 1], n, seq, K)
           /\ ElementsAt(seq, K) = ElementsUpto(seq, K)[Len(seq)]
<1> DEFINE L == Len(seq)
           Collects(s, m) == s = [n \in 0 .. m |-> IF n = 0 THEN <<>> ELSE TakeOrSkip(s[n - 1], n, seq, K)]
           S == {m \in 0 .. L : \E s : Collects(s, m)}
<1>1. 0 \in S
    <2>1. Collects([k \in 0 .. 0 |-> <<>>], 0)
        OBVIOUS
    <2> HIDE DEF Collects
    <2> QED
        BY <2>1
<1>2. ASSUME NEW m \in 1 .. L, m - 1 \in S
      PROVE  m \in S
    <2>1. PICK s : Collects(s, m - 1)
        BY <1>2
    <2> DEFINE t == [k \in 0 .. m |-> IF k < m THEN s[k] ELSE TakeOrSkip(s[m - 1], m, seq, K)]
    <2>2. \A k \in 0 .. m : t[k] = IF k = 0 THEN <<>> ELSE TakeOrSkip(t[k - 1], k, seq, K)
        <3> TAKE k \in 0 .. m
        <3>1. k # 0 => t[k - 1] = s[k - 1]
            OBVIOUS
        <3>2. k < m => s[k] = IF k = 0 THEN <<>> ELSE TakeOrSkip(s[k - 1], k, seq, K)
            BY <2>1
        <3> QED
            BY <3>1, <3>2
    <2>3. Collects(t, m)
        BY <2>2
    <2>4. m \in 0 .. L
        OBVIOUS
    <2> HIDE DEF t, Collects
    <2> QED
        BY <2>3, <2>4
<1> HIDE DEF S
<1>3. \A m \in 0 .. L : m \in S
    BY <1>1, <1>2, InductionUpTo
<1>4. \E s : Collects(s, L)
    BY <1>3 DEF S
<1>5. Collects(ElementsUpto(seq, K), L)
    BY <1>4, Zenon DEF ElementsUpto
<1>6. ElementsAt(seq, K) = ElementsUpto(seq, K)[Len(seq)]
    BY DEF ElementsAt, ElementsUpto, TakeOrSkip
<1> QED
    BY <1>5, <1>6

\* They are a sequence.
LEMMA ElementsType ==
    ASSUME NEW T, NEW seq \in Seq(T), NEW K
    PROVE  \A n \in 0 .. Len(seq) : ElementsUpto(seq, K)[n] \in Seq(T)
<1> DEFINE L == Len(seq)
           U == ElementsUpto(seq, K)
           S == {n \in 0 .. L : U[n] \in Seq(T)}
<1>0. /\ L \in Nat /\ U[0] = <<>>
      /\ \A n \in 1 .. L : U[n] = TakeOrSkip(U[n - 1], n, seq, K)
    BY ElementsSteps
<1> HIDE DEF U
<1>1. 0 \in S
    <2>1. U[0] \in Seq(T)
        BY <1>0, EmptySeq
    <2>2. 0 \in 0 .. L
        BY <1>0
    <2> QED
        BY <2>1, <2>2, Zenon
<1>2. ASSUME NEW n \in 1 .. L, n - 1 \in S PROVE n \in S
    <2>1. U[n - 1] \in Seq(T) /\ seq[n] \in T
        BY <1>2
    <2> DEFINE u == U[n - 1]
    <2>2. TakeOrSkip(u, n, seq, K) \in Seq(T)
        <3> HIDE DEF u
        <3>1. u \in Seq(T)
            BY <2>1 DEF u
        <3>2. Append(u, seq[n]) \in Seq(T)
            BY <2>1, <3>1
        <3> QED
            BY <3>1, <3>2, Zenon DEF TakeOrSkip
    <2>3. U[n] \in Seq(T)
        BY <1>0, <2>2
    <2> QED
        BY <1>0, <2>3
<1> HIDE DEF S
<1>3. \A n \in 0 .. L : n \in S
    BY <1>0, <1>1, <1>2, InductionUpTo
<1> QED
    BY <1>3 DEF S, U

\* They are the elements at the given positions, all of them.
LEMMA ElementsAre ==
    ASSUME NEW T, NEW seq \in Seq(T), NEW K \in SUBSET DOMAIN seq
    PROVE  /\ ElementsAt(seq, K) \in Seq(T)
           /\ Len(ElementsAt(seq, K)) <= Len(seq)
           /\ \A i \in DOMAIN ElementsAt(seq, K) : \E k \in K : ElementsAt(seq, K)[i] = seq[k]
           /\ \A k \in K : \E i \in DOMAIN ElementsAt(seq, K) : ElementsAt(seq, K)[i] = seq[k]
<1> DEFINE L == Len(seq)
           U == ElementsUpto(seq, K)
           From(u) == \A i \in 1 .. Len(u) : \E k \in K : u[i] = seq[k]
           Has(u, n) == \A k \in K : k <= n => \E i \in 1 .. Len(u) : u[i] = seq[k]
           Good(n) == Len(U[n]) <= n /\ From(U[n]) /\ Has(U[n], n)
           S == {n \in 0 .. L : Good(n)}
<1>0. /\ L \in Nat /\ U[0] = <<>> /\ K \subseteq 1 .. L
      /\ \A n \in 1 .. L : U[n] = TakeOrSkip(U[n - 1], n, seq, K)
      /\ \A n \in 0 .. L : U[n] \in Seq(T)
      /\ ElementsAt(seq, K) = U[L]
    BY ElementsSteps, ElementsType
<1> HIDE DEF U
<1>1. 0 \in S
    BY <1>0
<1>2. ASSUME NEW n \in 1 .. L, n - 1 \in S PROVE n \in S
    <2> DEFINE u == U[n - 1]
               v == U[n]
    <2>1. u \in Seq(T) /\ Len(u) <= n - 1 /\ From(u) /\ Has(u, n - 1) /\ v = TakeOrSkip(u, n, seq, K)
        BY <1>0, <1>2
    <2> HIDE DEF u, v
    <2>2. CASE n \in K
        <3>1. v = Append(u, seq[n])
            BY <2>1, <2>2, Zenon DEF TakeOrSkip
        <3>0. seq[n] \in T
            OBVIOUS
        <3>2. /\ Len(v) = Len(u) + 1 /\ v[Len(u) + 1] = seq[n]
              /\ \A i \in 1 .. Len(u) : v[i] = u[i]
            BY <2>1, <3>0, <3>1
        <3>3. From(v)
            BY <2>1, <2>2, <3>2
        <3>4. Has(v, n)
            <4> SUFFICES ASSUME NEW k \in K, k <= n PROVE \E i \in 1 .. Len(v) : v[i] = seq[k]
                OBVIOUS
            <4>1. CASE k = n
                BY <2>1, <3>2, <4>1
            <4>2. CASE k <= n - 1
                <5>1. PICK i \in 1 .. Len(u) : u[i] = seq[k]
                    BY <2>1, <4>2
                <5> QED
                    BY <2>1, <3>2, <5>1
            <4> QED
                BY <1>0, <4>1, <4>2
        <3>5. Len(v) <= n
            BY <2>1, <3>2
        <3> QED
            BY <3>3, <3>4, <3>5 DEF v
    <2>3. CASE n \notin K
        <3>1. v = u
            BY <2>1, <2>3, Zenon DEF TakeOrSkip
        <3>2. Has(u, n)
            BY <1>0, <2>1, <2>3
        <3>3. Len(u) <= n
            BY <2>1
        <3> QED
            BY <2>1, <3>1, <3>2, <3>3 DEF v
    <2> QED
        BY <2>2, <2>3
<1> HIDE DEF S
<1>3. \A n \in 0 .. L : n \in S
    BY <1>0, <1>1, <1>2, InductionUpTo
<1>4. U[L] \in Seq(T) /\ Good(L)
    BY <1>0, <1>3 DEF S
<1> DEFINE u == U[L]
<1>5. u \in Seq(T) /\ Len(u) <= L /\ From(u) /\ Has(u, L)
    BY <1>4
<1> HIDE DEF u
<1>6. DOMAIN u = 1 .. Len(u) /\ \A k \in K : k <= L
    BY <1>0, <1>5
<1> QED
    BY <1>0, <1>5, <1>6 DEF u
=============================================================================
