------------------------- MODULE MaxCampaignProofs --------------------------
(***************************************************************************)
(* What a max campaign guarantees for any number of workers, any budget,   *)
(* any limits and any value function: its result reproduces, the corpus    *)
(* holds a sequence as good, and so does the file it leaves to the next.   *)
(***************************************************************************)
EXTENDS MaxCampaign, FiniteSetTheorems, ProofBasics, TLAPS

-----------------------------------------------------------------------------
(* Numbers.                                                                *)

\* The bit lengths of the numbers up to n.
BitLens(n) ==
    CHOOSE len : len = [k \in 0 .. n |-> IF k = 0 THEN 0 ELSE 1 + len[k \div 2]]

\* A bit length is a number.
LEMMA BitLenIsNat == ASSUME NEW n \in Nat PROVE BitLen(n) \in Nat
<1> DEFINE Halves(s, m) == s = [k \in 0 .. m |-> IF k = 0 THEN 0 ELSE 1 + s[k \div 2]]
           S == {m \in 0 .. n : \E s \in [0 .. m -> Nat] : Halves(s, m)}
<1>1. 0 \in S
    <2>1. Halves([k \in 0 .. 0 |-> 0], 0) /\ [k \in 0 .. 0 |-> 0] \in [0 .. 0 -> Nat]
        OBVIOUS
    <2> HIDE DEF Halves
    <2> QED
        BY <2>1
<1>2. ASSUME NEW m \in 1 .. n, m - 1 \in S
      PROVE  m \in S
    <2>1. PICK s \in [0 .. m - 1 -> Nat] : Halves(s, m - 1)
        BY <1>2
    <2> DEFINE t == [k \in 0 .. m |-> IF k < m THEN s[k] ELSE 1 + s[m \div 2]]
    <2>2. \A k \in 1 .. m : k \div 2 \in 0 .. m - 1
        OBVIOUS
    <2>3. t \in [0 .. m -> Nat]
        BY <2>2
    <2>4. \A k \in 0 .. m : t[k] = IF k = 0 THEN 0 ELSE 1 + t[k \div 2]
        <3> TAKE k \in 0 .. m
        <3>1. k # 0 => t[k \div 2] = s[k \div 2]
            BY <2>2
        <3>2. k < m => s[k] = IF k = 0 THEN 0 ELSE 1 + s[k \div 2]
            BY <2>1
        <3> QED
            BY <3>1, <3>2
    <2>5. Halves(t, m)
        BY <2>3, <2>4
    <2>6. m \in 0 .. n
        OBVIOUS
    <2> HIDE DEF t, Halves
    <2> QED
        BY <2>3, <2>5, <2>6
<1> HIDE DEF S
<1>3. \A m \in 0 .. n : m \in S
    BY <1>1, <1>2, InductionUpTo
<1>4. \E s : Halves(s, n)
    <2>1. n \in S
        BY <1>3
    <2> HIDE DEF Halves
    <2> QED
        BY <2>1 DEF S
<1>5. Halves(BitLens(n), n)
    BY <1>4, Zenon DEF BitLens
<1> DEFINE b == BitLens(n)
           R == {k \in 0 .. n : \A j \in 0 .. k : b[j] \in Nat}
<1>6. /\ b[0] = 0
      /\ \A k \in 1 .. n : b[k] = 1 + b[k \div 2]
    BY <1>5
<1> HIDE DEF b
<1>7. 0 \in R
    BY <1>6
<1>8. ASSUME NEW k \in 1 .. n, k - 1 \in R PROVE k \in R
    <2>1. k \div 2 \in 0 .. k - 1
        OBVIOUS
    <2>2. b[k] \in Nat
        BY <1>6, <1>8, <2>1
    <2> QED
        BY <1>8, <2>2
<1> HIDE DEF R
<1>9. \A k \in 0 .. n : k \in R
    BY <1>7, <1>8, InductionUpTo
<1>10. b[n] \in Nat
    BY <1>9 DEF R
<1>11. BitLen(n) = b[n]
    BY DEF BitLen, b, BitLens
<1> QED
    BY <1>10, <1>11

\* So is the activity of a delta.
LEMMA ActivityIsNat == ASSUME NEW d \in Int PROVE Activity(d) \in Nat
<1>1. Magnitude(d) \in Nat
    BY DEF Magnitude
<1>2. BitLen(Magnitude(d)) \in Nat
    BY <1>1, BitLenIsNat
<1> QED
    BY <1>2 DEF Activity

-----------------------------------------------------------------------------
(* The corpus.                                                             *)

\* What decides over an entry.
Weighed(e) == e.value \in Nat /\ e.new_edges \in Nat /\ e.activity \in Nat

Entries(c) == IsList(c) /\ \A i \in DOMAIN c : Weighed(c[i])

\* The strength of an entry is a number.
LEMMA StrengthIsNat == ASSUME NEW e, Weighed(e) PROVE Strength(e) \in Nat
BY DEF Weighed, Strength

\* The top value is the highest.
LEMMA TopIs ==
    ASSUME NEW c, Entries(c)
    PROVE  /\ TopValue(c) \in Nat
           /\ \A i \in DOMAIN c : c[i].value <= TopValue(c)
           /\ c # <<>> => \E i \in DOMAIN c : c[i].value = TopValue(c)
<1> DEFINE L == Len(c)
           values == {c[i].value : i \in DOMAIN c}
           Highest(i, n) == \A j \in 1 .. n : c[j].value <= c[i].value
           S == {n \in 0 .. L : n = 0 \/ \E i \in 1 .. n : Highest(i, n)}
<1>0. L \in Nat /\ DOMAIN c = 1 .. L /\ \A i \in 1 .. L : c[i].value \in Nat
    BY ListLength DEF Entries, Weighed
<1>1. 0 \in S
    BY <1>0
<1>2. ASSUME NEW n \in 1 .. L, n - 1 \in S PROVE n \in S
    <2>1. CASE n = 1
        BY <1>0, <2>1
    <2>2. CASE n # 1
        <3>1. PICK i \in 1 .. n - 1 : Highest(i, n - 1)
            BY <1>2, <2>2
        <3>2. CASE c[i].value <= c[n].value
            <4>1. Highest(n, n)
                BY <1>0, <3>1, <3>2
            <4> QED
                BY <4>1
        <3>3. CASE ~(c[i].value <= c[n].value)
            <4>1. Highest(i, n) /\ i \in 1 .. n /\ n \in 0 .. L
                BY <1>0, <3>1, <3>3
            <4> HIDE DEF Highest
            <4> QED
                BY <4>1
        <3> QED
            BY <3>2, <3>3
    <2> QED
        BY <2>1, <2>2
<1> HIDE DEF S
<1>3. \A n \in 0 .. L : n \in S
    BY <1>0, <1>1, <1>2, InductionUpTo
<1>4. CASE values = {}
    <2>0. DOMAIN c = {}
        BY <1>4
    <2>1. DOMAIN c = {} /\ L = 0
        BY <1>0, <2>0
    <2>2. c = <<>>
        BY <2>1, ListLength DEF Entries, IsList
    <2> QED
        BY <1>4, <2>1, <2>2 DEF TopValue
<1>5. CASE values # {}
    <2>1. L # 0
        BY <1>0, <1>5
    <2>2. PICK i \in 1 .. L : Highest(i, L)
        <3>1. L \in S
            BY <1>0, <1>3
        <3> HIDE DEF Highest, L
        <3> QED
            BY <2>1, <3>1 DEF S
    <2>3. c[i].value \in values /\ \A u \in values : u <= c[i].value
        BY <1>0, <2>2
    <2>4. TopValue(c) = CHOOSE v \in values : \A u \in values : u <= v
        BY <1>5 DEF TopValue
    <2> HIDE DEF values
    <2>5. TopValue(c) \in values /\ \A u \in values : u <= TopValue(c)
        BY <2>3, <2>4
    <2> QED
        BY <1>0, <2>5 DEF values
<1> QED
    BY <1>4, <1>5

\* There is a first among the weakest entries below the top value.
LEMMA WeakestIs ==
    ASSUME NEW c, Entries(c), Below(c) # {}
    PROVE  Weakest(c) \in Below(c)
<1> DEFINE L == Len(c)
           B == Below(c)
           First(i, n) == /\ \A j \in B : j <= n => ~Weaker(c[j], c[i])
                          /\ \A j \in B : j < i => Weaker(c[i], c[j])
           S == {n \in 0 .. L : (\A j \in B : j > n) \/ \E i \in B : i <= n /\ First(i, n)}
<1>0. L \in Nat /\ B \subseteq 1 .. L
    BY ListLength DEF Entries, Below
<1>1. \A i \in B : c[i].value \in Nat /\ Strength(c[i]) \in Nat
    BY StrengthIsNat DEF Entries, Below, Weighed
<1> HIDE DEF B
<1>2. 0 \in S
    BY <1>0
<1>3. ASSUME NEW n \in 1 .. L, n - 1 \in S PROVE n \in S
    <2>1. CASE n \notin B
        <3>1. CASE \A j \in B : j > n - 1
            <4>1. \A j \in B : j > n
                BY <1>0, <2>1, <3>1
            <4> QED
                BY <4>1
        <3>2. CASE \E i \in B : i <= n - 1 /\ First(i, n - 1)
            <4>1. PICK i \in B : i <= n - 1 /\ First(i, n - 1)
                BY <3>2
            <4>2. i <= n /\ First(i, n)
                BY <1>0, <2>1, <4>1
            <4> QED
                BY <4>2
        <3> QED
            BY <1>3, <3>1, <3>2
    <2>2. CASE n \in B
        <3>1. CASE \A j \in B : j > n - 1
            <4>1. First(n, n)
                <5>1. ~Weaker(c[n], c[n])
                    BY <1>1, <2>2 DEF Weaker
                <5>2. \A j \in B : j <= n => j = n
                    BY <1>0, <3>1
                <5>3. \A j \in B : ~(j < n)
                    BY <1>0, <3>1
                <5> QED
                    BY <5>1, <5>2, <5>3
            <4> QED
                BY <2>2, <4>1
        <3>2. CASE \E i \in B : i <= n - 1 /\ First(i, n - 1)
            <4>1. PICK i \in B : i <= n - 1 /\ First(i, n - 1)
                BY <3>2
            <4>2. CASE Weaker(c[n], c[i])
                <5>1. \A j \in B : j < n => Weaker(c[n], c[j])
                    <6> SUFFICES ASSUME NEW j \in B, j < n PROVE Weaker(c[n], c[j])
                        OBVIOUS
                    <6>1. ~Weaker(c[j], c[i])
                        BY <1>0, <4>1
                    <6> QED
                        BY <1>1, <2>2, <4>2, <6>1 DEF Weaker
                <5>2. \A j \in B : j <= n => ~Weaker(c[j], c[n])
                    <6> SUFFICES ASSUME NEW j \in B, j <= n PROVE ~Weaker(c[j], c[n])
                        OBVIOUS
                    <6>1. j = n \/ Weaker(c[n], c[j])
                        BY <1>0, <5>1
                    <6> QED
                        BY <1>1, <2>2, <6>1 DEF Weaker
                <5> QED
                    BY <2>2, <5>1, <5>2
            <4>3. CASE ~Weaker(c[n], c[i])
                <5>1. First(i, n) /\ i <= n
                    BY <1>0, <4>1, <4>3
                <5> QED
                    BY <5>1
            <4> QED
                BY <4>2, <4>3
        <3> QED
            BY <1>3, <3>1, <3>2
    <2> QED
        BY <2>1, <2>2
<1> HIDE DEF S
<1>4. L \in S
    BY <1>0, <1>2, <1>3, InductionUpTo
<1>5. PICK i \in B : First(i, L)
    BY <1>0, <1>4 DEF S, B
<1>6. /\ \A j \in B : ~Weaker(c[j], c[i])
      /\ \A j \in B : j < i => Weaker(c[i], c[j])
    BY <1>0, <1>5
<1>7. Weakest(c) = CHOOSE k \in B : /\ \A j \in B : ~Weaker(c[j], c[k])
                                   /\ \A j \in B : j < k => Weaker(c[k], c[j])
    BY DEF Weakest, B
<1>8. Weakest(c) \in B
    BY <1>6, <1>7, Zenon
<1> QED
    BY <1>8 DEF B

\* The corpus has a sequence worth v.
Holds(c, v) == \E i \in DOMAIN c : c[i].value >= v

\* Adding drops nothing that is worth keeping: what is in the corpus afterwards
\* was there or is the new entry, and the highest value is never lost.
LEMMA AddedIs ==
    ASSUME NEW c, Entries(c), Len(c) <= MaxEntries, NEW e, Weighed(e)
    PROVE  /\ Entries(Added(c, e)) /\ Len(Added(c, e)) <= MaxEntries
           /\ \A i \in DOMAIN Added(c, e) : Added(c, e)[i] = e \/ \E j \in DOMAIN c : Added(c, e)[i] = c[j]
           /\ \A v \in Nat : Holds(c, v) \/ e.value >= v => Holds(Added(c, e), v)
<1> DEFINE a == Added(c, e)
           From(s) == \A i \in DOMAIN s : s[i] = e \/ \E j \in DOMAIN c : s[i] = c[j]
           Keeps(s) == \A v \in Nat : Holds(c, v) \/ e.value >= v => Holds(s, v)
           Good(s) == IsList(s) /\ Len(s) <= MaxEntries /\ From(s) /\ Keeps(s)
<1>0. /\ IsList(c) /\ Len(c) \in Nat /\ DOMAIN c = 1 .. Len(c) /\ MaxEntries \in Nat \ {0}
      /\ \A i \in DOMAIN c : c[i].value \in Nat
      /\ e.value \in Nat
    BY ListLength, MaxEntriesAssumption DEF Entries, Weighed
<1>1. /\ TopValue(c) \in Nat
      /\ \A i \in DOMAIN c : c[i].value <= TopValue(c)
      /\ c # <<>> => \E i \in DOMAIN c : c[i].value = TopValue(c)
    BY TopIs
<1>2. ASSUME NEW s, IsList(s), Len(s) < MaxEntries,
             \A i \in DOMAIN s : \E j \in DOMAIN c : s[i] = c[j],
             \A v \in Nat : Holds(c, v) => e.value >= v \/ Holds(s, v)
      PROVE  Good(Append(s, e))
    <2> DEFINE t == Append(s, e)
               n == Len(s)
    <2>1. /\ IsList(t) /\ Len(t) = n + 1 /\ DOMAIN t = 1 .. n + 1
          /\ n \in Nat /\ DOMAIN s = 1 .. n
          /\ \A i \in 1 .. n : t[i] = s[i]
          /\ t[n + 1] = e
        BY <1>2, ListAppend, ListLength
    <2> HIDE DEF t, n
    <2>2. Len(t) <= MaxEntries
        BY <1>0, <1>2, <2>1 DEF n
    <2>3. From(t)
        BY <1>2, <2>1
    <2>4. Keeps(t)
        <3> SUFFICES ASSUME NEW v \in Nat, Holds(s, v) \/ e.value >= v PROVE Holds(t, v)
            BY <1>2
        <3>1. CASE e.value >= v
            BY <2>1, <3>1 DEF Holds
        <3>2. CASE Holds(s, v)
            <4>1. PICK i \in DOMAIN s : s[i].value >= v
                BY <3>2 DEF Holds
            <4>2. i \in DOMAIN t /\ t[i] = s[i]
                BY <2>1, <4>1
            <4> QED
                BY <4>1, <4>2 DEF Holds
        <3> QED
            BY <3>1, <3>2
    <2> QED
        BY <2>1, <2>2, <2>3, <2>4 DEF t
<1>3. ASSUME NEW k \in DOMAIN c, \A v \in Nat : Holds(c, v) => e.value >= v \/ \E j \in DOMAIN c \ {k} : c[j].value >= v
      PROVE  Good(Append(RemoveAt(c, k), e))
    <2> DEFINE s == RemoveAt(c, k)
    <2>1. /\ IsList(s) /\ Len(s) = Len(c) - 1
          /\ \A i \in DOMAIN s : \E j \in DOMAIN c : s[i] = c[j]
          /\ \A j \in DOMAIN c \ {k} : \E i \in DOMAIN s : s[i] = c[j]
        BY <1>0, <1>3, ListRemove
    <2> HIDE DEF s
    <2>2. Len(s) < MaxEntries
        BY <1>0, <2>1
    <2>3. \A v \in Nat : Holds(c, v) => e.value >= v \/ Holds(s, v)
        <3> SUFFICES ASSUME NEW v \in Nat, Holds(c, v), ~(e.value >= v) PROVE Holds(s, v)
            OBVIOUS
        <3>1. PICK j \in DOMAIN c \ {k} : c[j].value >= v
            BY <1>3
        <3>2. PICK i \in DOMAIN s : s[i] = c[j]
            BY <2>1
        <3> QED
            BY <3>1, <3>2 DEF Holds
    <2>4. Good(Append(s, e))
        BY <1>2, <2>1, <2>2, <2>3
    <2> QED
        BY <2>4 DEF s
<1>4. \A v \in Nat : Holds(c, v) => TopValue(c) >= v
    <2> SUFFICES ASSUME NEW v \in Nat, NEW i \in DOMAIN c, c[i].value >= v PROVE TopValue(c) >= v
        BY DEF Holds
    <2>1. c[i].value <= TopValue(c) /\ c[i].value \in Nat
        BY <1>0, <1>1
    <2> QED
        BY <1>1, <2>1
<1>5. Len(c) < MaxEntries => a = Append(c, e)
    BY DEF Added
<1>6. ~(Len(c) < MaxEntries) /\ e.value > TopValue(c) => a = Append(RemoveAt(c, Victim(c)), e)
    BY DEF Added
<1>7. ~(Len(c) < MaxEntries) /\ ~(e.value > TopValue(c)) =>
         \/ Below(c) # {} /\ a = Append(RemoveAt(c, Weakest(c)), e)
         \/ a = c
    BY DEF Added
<1> HIDE DEF a
<1>8. ASSUME Len(c) < MaxEntries PROVE Good(a)
    <2>1. Good(Append(c, e))
        BY <1>0, <1>2, <1>8
    <2> HIDE DEF Good
    <2> QED
        BY <1>5, <1>8, <2>1
<1>9. Good(a)
    <2>1. CASE ~(Len(c) < MaxEntries) /\ e.value > TopValue(c)
        <3>1. Victim(c) \in DOMAIN c
            <4>1. Len(c) \in DOMAIN c
                BY <1>0, <2>1
            <4>2. Below(c) # {} => Weakest(c) \in DOMAIN c
                BY WeakestIs DEF Below
            <4> QED
                BY <4>1, <4>2 DEF Victim
        <3>2. \A v \in Nat : Holds(c, v) => e.value >= v
            BY <1>0, <1>1, <1>4, <2>1
        <3>3. Good(Append(RemoveAt(c, Victim(c)), e))
            BY <1>3, <3>1, <3>2
        <3> HIDE DEF Good
        <3> QED
            BY <1>6, <2>1, <3>3
    <2>2. CASE Below(c) # {} /\ a = Append(RemoveAt(c, Weakest(c)), e)
        <3>1. Weakest(c) \in DOMAIN c /\ c[Weakest(c)].value < TopValue(c)
            BY <2>2, WeakestIs DEF Below
        <3>2. PICK j \in DOMAIN c : c[j].value = TopValue(c)
            BY <1>0, <1>1, <3>1
        <3>3. j # Weakest(c)
            BY <1>0, <1>1, <3>1, <3>2
        <3>4. \A v \in Nat : Holds(c, v) => c[j].value >= v
            BY <1>4, <3>2
        <3>5. Good(Append(RemoveAt(c, Weakest(c)), e))
            BY <1>3, <3>1, <3>3, <3>4
        <3> HIDE DEF Good
        <3> QED
            BY <2>2, <3>5
    <2>3. CASE ~(Len(c) < MaxEntries) /\ ~(e.value > TopValue(c)) /\ a = c
        <3>1. Keeps(c)
            <4> SUFFICES ASSUME NEW v \in Nat, e.value >= v PROVE Holds(c, v)
                OBVIOUS
            <4>1. PICK j \in DOMAIN c : c[j].value = TopValue(c)
                <5>1. c # <<>>
                    BY <1>0, <2>3
                <5> QED
                    BY <1>1, <5>1
            <4>2. c[j].value >= v
                BY <1>0, <1>1, <2>3, <4>1
            <4> QED
                BY <4>2 DEF Holds
        <3> QED
            BY <1>0, <2>3, <3>1
    <2> HIDE DEF Good
    <2> QED
        BY <1>7, <1>8, <2>1, <2>2, <2>3
<1>10. \A i \in DOMAIN a : Weighed(a[i])
    <2>1. From(a)
        BY <1>9
    <2> QED
        BY <2>1 DEF Entries
<1> QED
    BY <1>9, <1>10 DEF Entries, a

\* The best entry is one of the highest value.
LEMMA BestEntryIs ==
    ASSUME NEW c, Entries(c), c # <<>>
    PROVE  \E i \in DOMAIN c : BestEntry(c) = c[i] /\ c[i].value = TopValue(c)
<1> DEFINE L == Len(c)
           T == {i \in DOMAIN c : c[i].value = TopValue(c)}
           R == {L - i : i \in T}
<1>0. /\ L \in Nat /\ DOMAIN c = 1 .. L /\ T # {} /\ TopValue(c) \in Nat
      /\ \A i \in DOMAIN c : c[i].value \in Nat /\ c[i].value <= TopValue(c)
    BY TopIs, ListLength DEF Entries, Weighed
<1> HIDE DEF L
<1>1. R \in SUBSET Nat /\ R # {}
    BY <1>0
<1>2. PICK m \in R : \A n \in R : m <= n
    <2> HIDE DEF R
    <2> QED
        BY <1>1, LeastNatural
<1>3. PICK i \in T : m = L - i
    OBVIOUS
<1>4. ASSUME NEW j \in i + 1 .. L PROVE c[j].value < TopValue(c)
    <2>1. j \in DOMAIN c /\ ~(L - i <= L - j)
        BY <1>0
    <2>2. j \notin T
        BY <1>2, <1>3, <2>1
    <2> QED
        BY <1>0, <2>1, <2>2
<1> DEFINE Q(k) == /\ c[k].value = TopValue(c)
                   /\ \A j \in k + 1 .. Len(c) : c[j].value < TopValue(c)
<1>5. \E k \in DOMAIN c : Q(k)
    BY <1>4 DEF L
<1>6. BestEntry(c) = c[CHOOSE k \in DOMAIN c : Q(k)]
    BY DEF BestEntry
<1> DEFINE k == CHOOSE k \in DOMAIN c : Q(k)
<1>7. k \in DOMAIN c /\ Q(k)
    <2> HIDE DEF Q
    <2> QED
        BY <1>5
<1> HIDE DEF k
<1>8. BestEntry(c) = c[k]
    BY <1>6 DEF k
<1> QED
    BY <1>7, <1>8

-----------------------------------------------------------------------------
(* Executions, call by call.                                               *)

ExecStart(world) == [world |-> world, cheats |-> Cheats, results |-> <<>>]

\* The state of an execution after each of its calls.
ExecAfter(world, cs) ==
    CHOOSE after : after = [n \in 0 .. Len(cs) |->
                               IF n = 0 THEN ExecStart(world) ELSE ExecFold(after[n - 1], cs[n])]

\* The world of a fuzzed sequence after each of its calls.
WorldAfter(cs) ==
    CHOOSE after : after = [n \in 0 .. Len(cs) |->
                               IF n = 0 THEN Genesis ELSE CommitCall(after[n - 1], cs[n])]

\* An execution goes from call to call.
LEMMA ExecSteps ==
    ASSUME NEW world, NEW cs, Len(cs) \in Nat
    PROVE  /\ ExecAfter(world, cs)[0] = ExecStart(world)
           /\ \A n \in 1 .. Len(cs) :
                 ExecAfter(world, cs)[n] = ExecFold(ExecAfter(world, cs)[n - 1], cs[n])
           /\ Exec(world, cs) = ExecAfter(world, cs)[Len(cs)]
<1> DEFINE L == Len(cs)
           Runs(s, m) == s = [n \in 0 .. m |->
                                 IF n = 0 THEN ExecStart(world) ELSE ExecFold(s[n - 1], cs[n])]
           S == {m \in 0 .. L : \E s : Runs(s, m)}
<1>1. 0 \in S
    <2>1. Runs([k \in 0 .. 0 |-> ExecStart(world)], 0)
        OBVIOUS
    <2> HIDE DEF Runs
    <2> QED
        BY <2>1
<1>2. ASSUME NEW m \in 1 .. L, m - 1 \in S
      PROVE  m \in S
    <2>1. PICK s : Runs(s, m - 1)
        BY <1>2
    <2> DEFINE t == [k \in 0 .. m |-> IF k < m THEN s[k] ELSE ExecFold(s[m - 1], cs[m])]
    <2>2. \A k \in 0 .. m : t[k] = IF k = 0 THEN ExecStart(world) ELSE ExecFold(t[k - 1], cs[k])
        <3> TAKE k \in 0 .. m
        <3>1. k # 0 => t[k - 1] = s[k - 1]
            OBVIOUS
        <3>2. k < m => s[k] = IF k = 0 THEN ExecStart(world) ELSE ExecFold(s[k - 1], cs[k])
            BY <2>1
        <3> QED
            BY <3>1, <3>2
    <2>3. Runs(t, m)
        BY <2>2
    <2>4. m \in 0 .. L
        OBVIOUS
    <2> HIDE DEF t, Runs
    <2> QED
        BY <2>3, <2>4
<1> HIDE DEF S
<1>3. \A m \in 0 .. L : m \in S
    BY <1>1, <1>2, InductionUpTo
<1>4. \E s : Runs(s, L)
    BY <1>3 DEF S
<1>5. Runs(ExecAfter(world, cs), L)
    BY <1>4, Zenon DEF ExecAfter
<1>6. Exec(world, cs) = ExecAfter(world, cs)[Len(cs)]
    BY DEF Exec, ExecAfter, ExecStart
<1> QED
    BY <1>5, <1>6

\* So does a fuzzed sequence.
LEMMA WorldSteps ==
    ASSUME NEW cs, Len(cs) \in Nat
    PROVE  /\ WorldAfter(cs)[0] = Genesis
           /\ \A n \in 1 .. Len(cs) : WorldAfter(cs)[n] = CommitCall(WorldAfter(cs)[n - 1], cs[n])
           /\ FuzzedWorld(cs) = WorldAfter(cs)[Len(cs)]
<1> DEFINE L == Len(cs)
           Runs(s, m) == s = [n \in 0 .. m |-> IF n = 0 THEN Genesis ELSE CommitCall(s[n - 1], cs[n])]
           S == {m \in 0 .. L : \E s : Runs(s, m)}
<1>1. 0 \in S
    <2>1. Runs([k \in 0 .. 0 |-> Genesis], 0)
        OBVIOUS
    <2> HIDE DEF Runs
    <2> QED
        BY <2>1
<1>2. ASSUME NEW m \in 1 .. L, m - 1 \in S
      PROVE  m \in S
    <2>1. PICK s : Runs(s, m - 1)
        BY <1>2
    <2> DEFINE t == [k \in 0 .. m |-> IF k < m THEN s[k] ELSE CommitCall(s[m - 1], cs[m])]
    <2>2. \A k \in 0 .. m : t[k] = IF k = 0 THEN Genesis ELSE CommitCall(t[k - 1], cs[k])
        <3> TAKE k \in 0 .. m
        <3>1. k # 0 => t[k - 1] = s[k - 1]
            OBVIOUS
        <3>2. k < m => s[k] = IF k = 0 THEN Genesis ELSE CommitCall(s[k - 1], cs[k])
            BY <2>1
        <3> QED
            BY <3>1, <3>2
    <2>3. Runs(t, m)
        BY <2>2
    <2>4. m \in 0 .. L
        OBVIOUS
    <2> HIDE DEF t, Runs
    <2> QED
        BY <2>3, <2>4
<1> HIDE DEF S
<1>3. \A m \in 0 .. L : m \in S
    BY <1>1, <1>2, InductionUpTo
<1>4. \E s : Runs(s, L)
    BY <1>3 DEF S
<1>5. Runs(WorldAfter(cs), L)
    BY <1>4, Zenon DEF WorldAfter
<1>6. FuzzedWorld(cs) = WorldAfter(cs)[Len(cs)]
    BY DEF FuzzedWorld, WorldAfter
<1> QED
    BY <1>5, <1>6

\* Sequences that agree lead to the same world.
LEMMA WorldOfPrefix ==
    ASSUME NEW cs, Len(cs) \in Nat, NEW ds, Len(ds) \in Nat,
           NEW k \in Nat, k <= Len(cs), k <= Len(ds),
           \A i \in 1 .. k : cs[i] = ds[i]
    PROVE  WorldAfter(cs)[k] = WorldAfter(ds)[k]
<1> DEFINE S == {n \in 0 .. k : WorldAfter(cs)[n] = WorldAfter(ds)[n]}
<1>1. 0 \in S
    BY WorldSteps
<1>2. ASSUME NEW n \in 1 .. k, n - 1 \in S PROVE n \in S
    <2>1. /\ WorldAfter(cs)[n] = CommitCall(WorldAfter(cs)[n - 1], cs[n])
          /\ WorldAfter(ds)[n] = CommitCall(WorldAfter(ds)[n - 1], ds[n])
        BY WorldSteps
    <2> QED
        BY <1>2, <2>1
<1> HIDE DEF S
<1>3. \A n \in 0 .. k : n \in S
    BY <1>1, <1>2, InductionUpTo
<1> QED
    BY <1>3 DEF S

\* One call commits the world its transaction leaves.
LEMMA ExecOne ==
    ASSUME NEW world, NEW c
    PROVE  /\ ExecAfter(world, <<c>>)[0] = ExecStart(world)
           /\ Exec(world, <<c>>).world = Tx(c, world, Cheats).world
           /\ CommitCall(world, c) = Tx(c, world, Cheats).world
<1> DEFINE cs == <<c>>
<1>1. Len(cs) = 1 /\ cs[1] = c
    OBVIOUS
<1> HIDE DEF cs
<1>2. /\ ExecAfter(world, cs)[0] = ExecStart(world)
      /\ ExecAfter(world, cs)[1] = ExecFold(ExecAfter(world, cs)[0], c)
      /\ Exec(world, cs) = ExecAfter(world, cs)[1]
    BY <1>1, ExecSteps
<1>3. Exec(world, cs) = ExecFold(ExecStart(world), c)
    BY <1>2
<1>4. Exec(world, cs).world = Tx(c, world, Cheats).world
    BY <1>3 DEF ExecFold, ExecStart
<1> QED
    BY <1>2, <1>4 DEF cs, CommitCall

\* What the theorems assume of a harness: value() returns a number or reverts, a
\* transaction passes finitely many points, and the cheatcode state a call
\* leaves (an open prank, say) does not change what a later call does.
PlainHarness ==
    /\ \A world : Measure(world) \in Nat \cup {NoValue}
    /\ \A c \in Handlers : \A world, cheats :
          /\ IsFiniteSet(Tx(c, world, cheats).points)
          /\ Tx(c, world, cheats).world = Tx(c, world, Cheats).world

\* Replaying a sequence in one execution leads where fuzzing it call by call
\* led, past finitely many points.
LEMMA Replay ==
    ASSUME PlainHarness, NEW world, NEW cs \in Seq(Handlers)
    PROVE  /\ IsFiniteSet(Points(Exec(world, cs).results))
           /\ Exec(Genesis, cs).world = FuzzedWorld(cs)
<1> DEFINE L == Len(cs)
           after == ExecAfter(world, cs)
           first == ExecAfter(Genesis, cs)
           there == WorldAfter(cs)
           Finite(rs) == IsList(rs) /\ IsFiniteSet(Points(rs))
           S == {n \in 0 .. L : Finite(after[n].results) /\ first[n].world = there[n]}
<1>0. /\ L \in Nat
      /\ after[0] = ExecStart(world) /\ first[0] = ExecStart(Genesis) /\ there[0] = Genesis
      /\ \A n \in 1 .. L : /\ after[n] = ExecFold(after[n - 1], cs[n])
                           /\ first[n] = ExecFold(first[n - 1], cs[n])
                           /\ there[n] = CommitCall(there[n - 1], cs[n])
      /\ Exec(world, cs) = after[L] /\ Exec(Genesis, cs) = first[L] /\ FuzzedWorld(cs) = there[L]
    BY ExecSteps, WorldSteps
<1> HIDE DEF after, first, there
<1>1. 0 \in S
    <2>1. after[0].results = <<>> /\ first[0].world = Genesis
        BY <1>0 DEF ExecStart
    <2>2. Points(<<>>) = {}
        BY DEF Points
    <2>3. Finite(<<>>)
        BY <2>2, EmptyList, FS_EmptySet
    <2> QED
        BY <1>0, <2>1, <2>3
<1>2. ASSUME NEW n \in 1 .. L, n - 1 \in S PROVE n \in S
    <2>1. cs[n] \in Handlers
        OBVIOUS
    <2>2. first[n].world = there[n]
        <3>0. first[n] = ExecFold(first[n - 1], cs[n])
            BY <1>0
        <3>1. first[n].world = Tx(cs[n], first[n - 1].world, first[n - 1].cheats).world
            BY <3>0 DEF ExecFold
        <3>2. there[n] = Tx(cs[n], there[n - 1], Cheats).world
            BY <1>0, ExecOne
        <3> QED
            BY <1>2, <2>1, <3>1, <3>2 DEF PlainHarness
    <2> DEFINE rs == after[n - 1].results
               r == Tx(cs[n], after[n - 1].world, after[n - 1].cheats)
    <2>3. after[n].results = Append(rs, r)
        <3>1. after[n] = ExecFold(after[n - 1], cs[n])
            BY <1>0
        <3> QED
            BY <3>1 DEF ExecFold
    <2>4. IsList(rs) /\ IsFiniteSet(Points(rs)) /\ IsFiniteSet(r.points)
        BY <1>2, <2>1 DEF PlainHarness
    <2> HIDE DEF rs, r
    <2>5. Finite(Append(rs, r))
        <3> DEFINE ss == Append(rs, r)
                   m == Len(rs)
        <3>1. /\ IsList(ss) /\ m \in Nat /\ DOMAIN rs = 1 .. m /\ DOMAIN ss = 1 .. m + 1
              /\ ss[m + 1] = r /\ \A i \in 1 .. m : ss[i] = rs[i]
            BY <2>4, ListAppend, ListLength
        <3> HIDE DEF ss, m
        <3>2. Points(ss) = Points(rs) \cup r.points
            <4>1. \A x : x \in Points(ss) <=> \E i \in 1 .. m + 1 : x \in ss[i].points
                BY <3>1 DEF Points
            <4>2. \A x : x \in Points(rs) <=> \E i \in 1 .. m : x \in rs[i].points
                BY <3>1 DEF Points
            <4>3. \A i \in 1 .. m + 1 : i = m + 1 \/ i \in 1 .. m
                BY <3>1
            <4>4. m + 1 \in 1 .. m + 1 /\ 1 .. m \subseteq 1 .. m + 1
                BY <3>1
            <4> QED
                BY <3>1, <4>1, <4>2, <4>3, <4>4, Zenon
        <3>3. IsFiniteSet(Points(ss))
            BY <2>4, <3>2, FS_Union
        <3> QED
            BY <3>1, <3>3 DEF ss
    <2>6. Finite(after[n].results) /\ n \in 0 .. L
        BY <1>0, <2>3, <2>5
    <2> HIDE DEF Finite
    <2> QED
        BY <2>2, <2>6
<1> HIDE DEF S, L
<1>3. \A n \in 0 .. L : n \in S
    <2>1. L \in Nat
        BY <1>0
    <2> QED
        BY <1>1, <1>2, <2>1, InductionUpTo
<1> QED
    BY <1>0, <1>3 DEF S

\* A call more.
LEMMA CallMore ==
    ASSUME NEW cs \in Seq(Handlers), NEW c \in Handlers
    PROVE  FuzzedWorld(Append(cs, c)) = Exec(FuzzedWorld(cs), <<c>>).world
<1> DEFINE ds == Append(cs, c)
           L == Len(cs)
<1>1. L \in Nat /\ Len(ds) = L + 1 /\ ds[L + 1] = c /\ \A i \in 1 .. L : cs[i] = ds[i]
    OBVIOUS
<1> HIDE DEF ds, L
<1>2. FuzzedWorld(ds) = WorldAfter(ds)[L + 1] /\ WorldAfter(ds)[L + 1] = CommitCall(WorldAfter(ds)[L], c)
    <2>1. Len(ds) \in Nat /\ L + 1 \in 1 .. Len(ds) /\ (L + 1) - 1 = L
        BY <1>1
    <2> QED
        BY <1>1, <2>1, WorldSteps
<1>3. WorldAfter(ds)[L] = WorldAfter(cs)[L]
    BY <1>1, WorldOfPrefix DEF L
<1>4. FuzzedWorld(cs) = WorldAfter(cs)[L]
    BY <1>1, WorldSteps DEF L
<1> QED
    BY <1>2, <1>3, <1>4 DEF ds, CommitCall

\* No calls lead nowhere.
LEMMA NoCalls == FuzzedWorld(<<>>) = Genesis
<1> DEFINE cs == <<>>
<1>1. Len(cs) = 0
    OBVIOUS
<1> HIDE DEF cs
<1>2. FuzzedWorld(cs) = Genesis
    BY <1>1, WorldSteps
<1> QED
    BY <1>2 DEF cs

-----------------------------------------------------------------------------
(* What one campaign leaves to the next.                                   *)

\* What the file holds of a sequence: it reaches at least its value.
Promised(e) ==
    /\ e.calls \in Seq(Handlers) \ {<<>>} /\ Len(e.calls) <= MaxCalls
    /\ e.value \in Nat /\ e.new_edges \in Nat
    /\ ValueOf(e.calls) \in Nat /\ e.value <= ValueOf(e.calls)

\* An entry of the corpus, with its snapshot.
Coherent(e) == Promised(e) /\ e.activity \in Nat /\ e.chain = FuzzedWorld(e.calls)

\* One that was measured by a worker or by the replay.
Exact(e) == Coherent(e) /\ e.value = ValueOf(e.calls)

\* The corpus after each entry of the file is loaded.
LoadedUpto(saved) ==
    CHOOSE after : after = [n \in 0 .. Len(saved) |->
                               IF n = 0 THEN <<>> ELSE LoadEntry(after[n - 1], saved[n])]

\* Loading goes from entry to entry.
LEMMA LoadSteps ==
    ASSUME NEW saved, Len(saved) \in Nat
    PROVE  /\ LoadedUpto(saved)[0] = <<>>
           /\ \A n \in 1 .. Len(saved) : LoadedUpto(saved)[n] = LoadEntry(LoadedUpto(saved)[n - 1], saved[n])
           /\ Loaded(saved) = LoadedUpto(saved)[Len(saved)]
<1> DEFINE L == Len(saved)
           Runs(s, m) == s = [n \in 0 .. m |-> IF n = 0 THEN <<>> ELSE LoadEntry(s[n - 1], saved[n])]
           S == {m \in 0 .. L : \E s : Runs(s, m)}
<1>1. 0 \in S
    <2>1. Runs([k \in 0 .. 0 |-> <<>>], 0)
        OBVIOUS
    <2> HIDE DEF Runs
    <2> QED
        BY <2>1
<1>2. ASSUME NEW m \in 1 .. L, m - 1 \in S
      PROVE  m \in S
    <2>1. PICK s : Runs(s, m - 1)
        BY <1>2
    <2> DEFINE t == [k \in 0 .. m |-> IF k < m THEN s[k] ELSE LoadEntry(s[m - 1], saved[m])]
    <2>2. \A k \in 0 .. m : t[k] = IF k = 0 THEN <<>> ELSE LoadEntry(t[k - 1], saved[k])
        <3> TAKE k \in 0 .. m
        <3>1. k # 0 => t[k - 1] = s[k - 1]
            OBVIOUS
        <3>2. k < m => s[k] = IF k = 0 THEN <<>> ELSE LoadEntry(s[k - 1], saved[k])
            BY <2>1
        <3> QED
            BY <3>1, <3>2
    <2>3. Runs(t, m)
        BY <2>2
    <2>4. m \in 0 .. L
        OBVIOUS
    <2> HIDE DEF t, Runs
    <2> QED
        BY <2>3, <2>4
<1> HIDE DEF S
<1>3. \A m \in 0 .. L : m \in S
    BY <1>1, <1>2, InductionUpTo
<1>4. \E s : Runs(s, L)
    BY <1>3 DEF S
<1>5. Runs(LoadedUpto(saved), L)
    BY <1>4, Zenon DEF LoadedUpto
<1>6. Loaded(saved) = LoadedUpto(saved)[Len(saved)]
    BY DEF Loaded, LoadedUpto
<1> QED
    BY <1>5, <1>6

NothingReplayed == [covered |-> {}, corpus |-> <<>>]

\* The coverage and the corpus after each entry is replayed.
ReplayedUpto(loaded) ==
    CHOOSE after : after = [n \in 0 .. Len(loaded) |->
                               IF n = 0 THEN NothingReplayed ELSE ReplayEntry(after[n - 1], loaded[n])]

\* So does replaying.
LEMMA ReplaySteps ==
    ASSUME NEW loaded, Len(loaded) \in Nat
    PROVE  /\ ReplayedUpto(loaded)[0] = NothingReplayed
           /\ \A n \in 1 .. Len(loaded) : ReplayedUpto(loaded)[n] = ReplayEntry(ReplayedUpto(loaded)[n - 1], loaded[n])
           /\ Replayed(loaded) = ReplayedUpto(loaded)[Len(loaded)]
<1> DEFINE L == Len(loaded)
           Runs(s, m) == s = [n \in 0 .. m |-> IF n = 0 THEN NothingReplayed ELSE ReplayEntry(s[n - 1], loaded[n])]
           S == {m \in 0 .. L : \E s : Runs(s, m)}
<1>1. 0 \in S
    <2>1. Runs([k \in 0 .. 0 |-> NothingReplayed], 0)
        OBVIOUS
    <2> HIDE DEF Runs
    <2> QED
        BY <2>1
<1>2. ASSUME NEW m \in 1 .. L, m - 1 \in S
      PROVE  m \in S
    <2>1. PICK s : Runs(s, m - 1)
        BY <1>2
    <2> DEFINE t == [k \in 0 .. m |-> IF k < m THEN s[k] ELSE ReplayEntry(s[m - 1], loaded[m])]
    <2>2. \A k \in 0 .. m : t[k] = IF k = 0 THEN NothingReplayed ELSE ReplayEntry(t[k - 1], loaded[k])
        <3> TAKE k \in 0 .. m
        <3>1. k # 0 => t[k - 1] = s[k - 1]
            OBVIOUS
        <3>2. k < m => s[k] = IF k = 0 THEN NothingReplayed ELSE ReplayEntry(s[k - 1], loaded[k])
            BY <2>1
        <3> QED
            BY <3>1, <3>2
    <2>3. Runs(t, m)
        BY <2>2
    <2>4. m \in 0 .. L
        OBVIOUS
    <2> HIDE DEF t, Runs
    <2> QED
        BY <2>3, <2>4
<1> HIDE DEF S
<1>3. \A m \in 0 .. L : m \in S
    BY <1>1, <1>2, InductionUpTo
<1>4. \E s : Runs(s, L)
    BY <1>3 DEF S
<1>5. Runs(ReplayedUpto(loaded), L)
    BY <1>4, Zenon DEF ReplayedUpto
<1>6. Replayed(loaded) = ReplayedUpto(loaded)[Len(loaded)]
    BY DEF Replayed, ReplayedUpto, NothingReplayed
<1> QED
    BY <1>5, <1>6

\* Loading keeps sequences that reach their values, one as good as any of the
\* file among them.
LEMMA LoadedIs ==
    ASSUME NEW saved, IsList(saved), \A i \in DOMAIN saved : Promised(saved[i])
    PROVE  /\ Entries(Loaded(saved)) /\ Len(Loaded(saved)) <= MaxEntries
           /\ \A i \in DOMAIN Loaded(saved) : Promised(Loaded(saved)[i])
           /\ \A i \in DOMAIN saved : Holds(Loaded(saved), saved[i].value)
<1> DEFINE L == Len(saved)
           U == LoadedUpto(saved)
           Good(c, n) == /\ Entries(c) /\ Len(c) <= MaxEntries
                         /\ \A i \in DOMAIN c : Promised(c[i])
                         /\ \A i \in 1 .. n : Holds(c, saved[i].value)
           S == {n \in 0 .. L : Good(U[n], n)}
<1>0. /\ L \in Nat /\ DOMAIN saved = 1 .. L /\ U[0] = <<>>
      /\ \A n \in 1 .. L : U[n] = LoadEntry(U[n - 1], saved[n])
      /\ Loaded(saved) = U[L]
    BY ListLength, LoadSteps
<1> HIDE DEF U, L
<1>1. 0 \in S
    <2>1. Good(<<>>, 0)
        BY EmptyList, MaxEntriesAssumption DEF Entries
    <2> QED
        BY <1>0, <2>1
<1>2. ASSUME NEW n \in 1 .. L, n - 1 \in S PROVE n \in S
    <2> DEFINE c == U[n - 1]
               f == saved[n]
               e == [calls |-> f.calls, value |-> f.value, new_edges |-> f.new_edges,
                     activity |-> 0, chain |-> NoChain]
    <2>1. Good(c, n - 1) /\ Promised(f) /\ U[n] = Added(c, e)
        BY <1>0, <1>2 DEF LoadEntry
    <2> HIDE DEF c, f
    <2>2. Promised(e) /\ Weighed(e) /\ e.value = f.value
        BY <2>1 DEF Promised, Weighed
    <2> HIDE DEF e
    <2> DEFINE d == Added(c, e)
    <2>3. /\ Entries(d) /\ Len(d) <= MaxEntries
          /\ \A i \in DOMAIN d : d[i] = e \/ \E j \in DOMAIN c : d[i] = c[j]
          /\ \A v \in Nat : Holds(c, v) \/ e.value >= v => Holds(d, v)
        BY <2>1, <2>2, AddedIs
    <2> HIDE DEF d
    <2>4. \A i \in DOMAIN d : Promised(d[i])
        BY <2>1, <2>2, <2>3
    <2>5. \A i \in 1 .. n : Holds(d, saved[i].value)
        <3> SUFFICES ASSUME NEW i \in 1 .. n PROVE Holds(d, saved[i].value)
            OBVIOUS
        <3>1. saved[i].value \in Nat
            BY <1>0 DEF Promised
        <3>2. CASE i = n
            BY <2>2, <2>3, <3>1, <3>2 DEF f
        <3>3. CASE i \in 1 .. n - 1
            BY <2>1, <2>3, <3>1, <3>3
        <3> QED
            BY <3>2, <3>3
    <2>6. U[n] = d /\ n \in 0 .. L
        BY <1>0, <2>1 DEF d
    <2> QED
        BY <2>3, <2>4, <2>5, <2>6
<1> HIDE DEF S
<1>3. \A n \in 0 .. L : n \in S
    BY <1>0, <1>1, <1>2, InductionUpTo
<1>4. Good(U[L], L)
    BY <1>0, <1>3 DEF S
<1> QED
    BY <1>0, <1>4

\* Replaying measures them again: every entry is exact, and one is as good as
\* any that was loaded.
LEMMA ReplayedIs ==
    ASSUME PlainHarness, NEW loaded, IsList(loaded), \A i \in DOMAIN loaded : Promised(loaded[i])
    PROVE  /\ Entries(Replayed(loaded).corpus) /\ Len(Replayed(loaded).corpus) <= MaxEntries
           /\ \A i \in DOMAIN Replayed(loaded).corpus : Exact(Replayed(loaded).corpus[i])
           /\ \A i \in DOMAIN loaded : Holds(Replayed(loaded).corpus, loaded[i].value)
<1> DEFINE L == Len(loaded)
           U == ReplayedUpto(loaded)
           Good(c, n) == /\ Entries(c) /\ Len(c) <= MaxEntries
                         /\ \A i \in DOMAIN c : Exact(c[i])
                         /\ \A i \in 1 .. n : Holds(c, loaded[i].value)
           S == {n \in 0 .. L : Good(U[n].corpus, n)}
<1>0. /\ L \in Nat /\ DOMAIN loaded = 1 .. L /\ U[0] = NothingReplayed
      /\ \A n \in 1 .. L : U[n] = ReplayEntry(U[n - 1], loaded[n])
      /\ Replayed(loaded) = U[L]
    BY ListLength, ReplaySteps
<1> HIDE DEF U, L
<1>1. 0 \in S
    <2>1. Good(<<>>, 0)
        BY EmptyList, MaxEntriesAssumption DEF Entries
    <2> QED
        BY <1>0, <2>1 DEF NothingReplayed
<1>2. ASSUME NEW n \in 1 .. L, n - 1 \in S PROVE n \in S
    <2> DEFINE acc == U[n - 1]
               c == acc.corpus
               f == loaded[n]
               x == Exec(Genesis, f.calls)
               v == Measure(x.world)
               e == [calls |-> f.calls, value |-> v, activity |-> 0, chain |-> x.world,
                     new_edges |-> Cardinality(Points(x.results) \ acc.covered)]
    <2>1. Good(c, n - 1) /\ Promised(f) /\ U[n] = ReplayEntry(acc, f)
        BY <1>0, <1>2
    <2>2. v = ValueOf(f.calls)
        BY DEF ValueOf
    <2>3. v \in Nat /\ v # NoValue /\ f.value \in Nat /\ f.value <= v
        BY <2>1, <2>2, NoValueAssumption DEF Promised
    <2>4. x.world = FuzzedWorld(f.calls) /\ IsFiniteSet(Points(x.results))
        BY <2>1, Replay DEF Promised
    <2>5. U[n].corpus = Added(c, e)
        BY <2>1, <2>3 DEF ReplayEntry
    <2>6. e.new_edges \in Nat
        <3>1. IsFiniteSet(Points(x.results) \ acc.covered)
            BY <2>4, FS_Difference
        <3> QED
            BY <3>1, FS_CardinalityType
    <2> HIDE DEF acc, f, x, v
    <2>7. Exact(e) /\ Weighed(e) /\ e.value = v
        BY <2>1, <2>2, <2>3, <2>4, <2>6 DEF Promised, Coherent, Exact, Weighed
    <2> HIDE DEF e, c
    <2> DEFINE d == Added(c, e)
    <2>8. /\ Entries(d) /\ Len(d) <= MaxEntries
          /\ \A i \in DOMAIN d : d[i] = e \/ \E j \in DOMAIN c : d[i] = c[j]
          /\ \A u \in Nat : Holds(c, u) \/ e.value >= u => Holds(d, u)
        BY <2>1, <2>7, AddedIs
    <2> HIDE DEF d
    <2>9. \A i \in DOMAIN d : Exact(d[i])
        BY <2>1, <2>7, <2>8
    <2>10. \A i \in 1 .. n : Holds(d, loaded[i].value)
        <3> SUFFICES ASSUME NEW i \in 1 .. n PROVE Holds(d, loaded[i].value)
            OBVIOUS
        <3>1. loaded[i].value \in Nat
            BY <1>0 DEF Promised
        <3>2. CASE i = n
            <4>1. e.value >= loaded[i].value
                BY <2>3, <2>7, <3>2 DEF f
            <4> QED
                BY <2>8, <3>1, <4>1
        <3>3. CASE i \in 1 .. n - 1
            BY <2>1, <2>8, <3>1, <3>3
        <3> QED
            BY <3>2, <3>3
    <2>11. U[n].corpus = d /\ n \in 0 .. L
        BY <1>0, <2>5 DEF d
    <2> QED
        BY <2>8, <2>9, <2>10, <2>11
<1> HIDE DEF S
<1>3. \A n \in 0 .. L : n \in S
    BY <1>0, <1>1, <1>2, InductionUpTo
<1>4. Good(U[L].corpus, L)
    BY <1>0, <1>3 DEF S
<1> QED
    BY <1>0, <1>4

-----------------------------------------------------------------------------
(* The state of a campaign between two steps, when value() is measurable.  *)

Labels == {"check", "pick", "call", "observe", "consider", "stop", "keep", "done", "failed"}

Typed ==
    /\ runs \in Nat /\ stop \in BOOLEAN /\ timed_out \in BOOLEAN
    /\ pc \in [Workers -> Labels]
    /\ budget \in [Workers -> Nat] /\ best_known \in [Workers -> Nat]
    /\ run = [w \in Workers |-> run[w]]
    /\ phase \in {"fuzz", "shrink", "keep", "save", "done", "failed"}
    /\ shrunk \in Seq(Handlers)

BestOK(b) ==
    /\ b.value \in Nat /\ b.calls \in Seq(Handlers) /\ Len(b.calls) <= MaxCalls
    /\ b.calls # <<>> => b.chain = FuzzedWorld(b.calls) /\ ValueOf(b.calls) = b.value

\* While fuzzing, every value in the corpus was measured; the shrunk sequence
\* is added afterwards with the value of the sequence it was shrunk from.
CorpusOK(c, at) ==
    /\ Entries(c) /\ Len(c) <= MaxEntries
    /\ \A i \in DOMAIN c : Coherent(c[i]) /\ (at = "fuzz" => Exact(c[i]))

FileOK(saved) == IsList(saved) /\ \A i \in DOMAIN saved : Promised(saved[i])

RecordsOK(rs) ==
    \A k \in DOMAIN rs : rs[k].min \in Int /\ rs[k].max \in Int /\ rs[k].min <= rs[k].max

PrefixOK(p) ==
    /\ p = [calls |-> p.calls, value |-> p.value, chain |-> p.chain, new_edges |-> p.new_edges,
            activity |-> p.activity, interesting |-> p.interesting, measured |-> p.measured]
    /\ p.calls \in Seq(Handlers) \ {<<>>} /\ Len(p.calls) <= MaxCalls
    /\ p.chain = FuzzedWorld(p.calls)
    /\ p.value \in Nat /\ p.new_edges \in Nat /\ p.activity \in Nat
    /\ p.measured \in BOOLEAN
    /\ p.measured => p.value = ValueOf(p.calls)

\* The locals of a worker: its chain is the world of the calls it committed.
RunOK(r, at) ==
    /\ r = [calls |-> r.calls, pending |-> r.pending, chain |-> r.chain, prev |-> r.prev,
            prefixes |-> r.prefixes]
    /\ r.calls \in Seq(Handlers) /\ r.pending \in Seq(Handlers)
    /\ Len(r.calls) + Len(r.pending) <= MaxCalls
    /\ r.chain = FuzzedWorld(r.calls)
    /\ r.prev \in Nat
    /\ IsList(r.prefixes) /\ \A i \in DOMAIN r.prefixes : PrefixOK(r.prefixes[i])
    /\ at = "call" => r.pending # <<>>
    /\ at \in {"observe", "consider"} => r.prefixes # <<>>
    /\ at \in {"stop", "keep"} => \A i \in DOMAIN r.prefixes : r.prefixes[i].measured

\* Where the workers are while the main thread shrinks and saves, and what the
\* shrinker returned.
PhaseOK ==
    /\ phase # "fuzz" => \A w \in Workers : pc[w] \in {"done", "failed"}
    /\ phase \in {"shrink", "keep", "save", "done"} => \A w \in Workers : pc[w] = "done"
    /\ phase \in {"shrink", "keep"} => best.calls # <<>>
    /\ phase = "keep" => /\ shrunk # <<>> /\ Len(shrunk) <= MaxCalls
                         /\ ValueOf(shrunk) \in Nat /\ best.value <= ValueOf(shrunk)

Inv ==
    /\ Typed
    /\ BestOK(best)
    /\ CorpusOK(corpus, phase)
    /\ FileOK(file)
    /\ RecordsOK(records)
    /\ \A w \in Workers : RunOK(run[w], pc[w])
    /\ PhaseOK

Measurable == Initial \in Nat

\* A sequence may have a call.
LEMMA LimitIsPositive == MaxCalls \in Nat \ {0}
BY CampaignAssumption

\* A worker's share of the runs is a number.
LEMMA ShareIsNatural == \A w \in Workers : SplitRuns(w) \in Nat
<1> DEFINE n == Cardinality(Workers)
<1>1. n \in Nat \ {0} /\ MaxRuns \in Nat
    BY CampaignAssumption
<1> HIDE DEF n
<1>2. MaxRuns \div n \in Nat
    BY <1>1
<1> QED
    BY <1>2 DEF SplitRuns, n

\* Between runs a worker has nothing.
LEMMA IdleIsOK ==
    ASSUME Measurable, NEW at \in {"check", "pick", "done", "failed"}
    PROVE  RunOK(NoRun, at)
<1>1. Len(<<>>) = 0 /\ <<>> \in Seq(Handlers)
    OBVIOUS
<1> QED
    BY <1>1, EmptyList, NoCalls, LimitIsPositive DEF NoRun, RunOK, Measurable

\* An empty corpus, file and record table.
LEMMA NothingIsOK ==
    ASSUME NEW at PROVE CorpusOK(<<>>, at) /\ FileOK(<<>>) /\ RecordsOK([k \in {} |-> 0])
<1>1. Len(<<>>) = 0 /\ DOMAIN <<>> = {}
    OBVIOUS
<1> QED
    BY <1>1, EmptyList, MaxEntriesAssumption DEF CorpusOK, FileOK, RecordsOK, Entries

\* What is seeded from an exact corpus reaches its value, the highest there is.
LEMMA SeedIs ==
    ASSUME Measurable, NEW c, CorpusOK(c, "fuzz")
    PROVE  /\ BestOK(SeedBest(c))
           /\ \A v \in Nat : Holds(c, v) => SeedBest(c).value >= v
           /\ SeedBest(c).calls # <<>> => Holds(c, SeedBest(c).value)
<1>1. CASE c = <<>>
    <2>1. SeedBest(c) = [value |-> Initial, calls |-> <<>>, chain |-> NoChain]
        BY <1>1 DEF SeedBest
    <2>2. Len(<<>>) = 0 /\ <<>> \in Seq(Handlers) /\ DOMAIN c = {}
        BY <1>1
    <2> QED
        BY <2>1, <2>2, LimitIsPositive DEF Measurable, BestOK, Holds
<1>2. CASE c # <<>>
    <2>1. Entries(c) /\ \A i \in DOMAIN c : Exact(c[i]) /\ c[i].value \in Nat
        BY DEF CorpusOK, Exact, Coherent, Promised
    <2>2. PICK i \in DOMAIN c : BestEntry(c) = c[i] /\ c[i].value = TopValue(c)
        BY <1>2, <2>1, BestEntryIs
    <2>3. SeedBest(c) = [value |-> c[i].value, calls |-> c[i].calls, chain |-> c[i].chain]
        BY <1>2, <2>2 DEF SeedBest
    <2>4. BestOK(SeedBest(c))
        BY <2>1, <2>3 DEF BestOK, Exact, Coherent, Promised
    <2>5. \A j \in DOMAIN c : c[j].value <= c[i].value
        BY <2>1, <2>2, TopIs
    <2>6. ASSUME NEW v \in Nat, Holds(c, v) PROVE SeedBest(c).value >= v
        <3>1. PICK j \in DOMAIN c : c[j].value >= v
            BY <2>6 DEF Holds
        <3> QED
            BY <2>1, <2>3, <2>5, <3>1
    <2>7. Holds(c, SeedBest(c).value)
        BY <2>1, <2>3 DEF Holds
    <2> QED
        BY <2>4, <2>6, <2>7
<1> QED
    BY <1>1, <1>2

\* A campaign starts with idle workers.
LEMMA StartsOK ==
    ASSUME Measurable, NEW b
    PROVE  /\ FirstPhase = "fuzz"
           /\ FirstPc(b) \in [Workers -> {"done", "check"}]
           /\ \A w \in Workers : RunOK(NoRun, FirstPc(b)[w])
<1>1. FirstPhase = "fuzz"
    BY NoValueAssumption DEF FirstPhase, Measurable
<1>2. FirstPc(b) \in [Workers -> {"done", "check"}]
    BY DEF FirstPc
<1> QED
    BY <1>1, <1>2, IdleIsOK

\* A first campaign starts in a consistent state.
LEMMA InitInv == ASSUME Measurable, Init PROVE Inv
<1>1. CorpusOK(<<>>, "fuzz") /\ FileOK(<<>>) /\ RecordsOK([k \in {} |-> 0])
    BY NothingIsOK
<1>2. phase = "fuzz" /\ pc \in [Workers -> {"done", "check"}] /\ \A w \in Workers : RunOK(NoRun, pc[w])
    BY StartsOK DEF Init
<1>3. <<>> \in Seq(Handlers)
    OBVIOUS
<1>4. Typed
    <2>1. pc \in [Workers -> Labels] /\ best_known \in [Workers -> Nat]
        BY <1>2 DEF Init, Labels, Measurable
    <2> QED
        BY <1>2, <1>3, <2>1, ShareIsNatural DEF Init, Typed
<1>5. BestOK(best)
    BY <1>1, SeedIs DEF Init
<1>6. CorpusOK(corpus, phase) /\ FileOK(file) /\ RecordsOK(records)
    BY <1>1, <1>2 DEF Init
<1>7. \A w \in Workers : RunOK(run[w], pc[w])
    BY <1>2 DEF Init
<1>8. PhaseOK
    BY <1>2 DEF PhaseOK
<1> QED
    BY <1>4, <1>5, <1>6, <1>7, <1>8 DEF Inv

\* A step of worker w that leaves the other workers alone keeps the invariant
\* if it keeps w's part of it.
LEMMA OneWorkerMoves ==
    ASSUME Inv, NEW w \in Workers, pc[w] \notin {"done", "failed"}, UNCHANGED main,
           Typed', BestOK(best'), CorpusOK(corpus', "fuzz"), RecordsOK(records'),
           \A v \in Workers \ {w} : pc'[v] = pc[v] /\ run'[v] = run[v],
           RunOK(run'[w], pc'[w])
    PROVE  Inv'
<1>1. phase = "fuzz" /\ phase' = "fuzz" /\ file' = file
    BY DEF Inv, PhaseOK, main
<1>2. \A v \in Workers : RunOK(run'[v], pc'[v])
    <2> TAKE v \in Workers
    <2>1. CASE v = w
        BY <2>1
    <2>2. CASE v # w
        BY <2>2, Zenon DEF Inv
    <2> QED
        BY <2>1, <2>2
<1>3. PhaseOK'
    BY <1>1 DEF PhaseOK
<1>4. CorpusOK(corpus', phase') /\ FileOK(file')
    BY <1>1 DEF Inv
<1> QED
    BY <1>2, <1>3, <1>4 DEF Inv

-----------------------------------------------------------------------------
(* Each step keeps the invariant.                                          *)

\* A worker goes to a label.
LEMMA GotoIs ==
    ASSUME Typed, NEW w \in Workers, NEW label \in Labels, Goto(w, label)
    PROVE  /\ pc' \in [Workers -> Labels] /\ pc'[w] = label
           /\ \A v \in Workers \ {w} : pc'[v] = pc[v]
BY DEF Typed, Goto

\* Its locals change.
LEMMA RunIs ==
    ASSUME Typed, NEW w \in Workers, NEW r, run' = [run EXCEPT ![w] = r]
    PROVE  /\ run' = [v \in Workers |-> run'[v]] /\ run'[w] = r
           /\ \A v \in Workers \ {w} : run'[v] = run[v]
BY DEF Typed

\* Check keeps the invariant.
LEMMA CheckInv == ASSUME Inv, NEW w \in Workers, Check(w) PROVE Inv'
<1>0. Typed /\ BestOK(best) /\ RecordsOK(records) /\ RunOK(run[w], pc[w]) /\ pc[w] = "check"
    BY DEF Inv, Check
<1>1. CorpusOK(corpus, "fuzz")
    BY <1>0 DEF Inv, PhaseOK
<1>2. /\ pc' \in [Workers -> Labels] /\ pc'[w] \in {"done", "pick"}
      /\ \A v \in Workers \ {w} : pc'[v] = pc[v]
    <2>1. Goto(w, "done") \/ Goto(w, "pick")
        BY DEF Check
    <2>2. "done" \in Labels /\ "pick" \in Labels
        BY DEF Labels
    <2> QED
        BY <1>0, <2>1, <2>2, GotoIs
<1>3. budget' \in [Workers -> Nat] /\ runs' \in Nat
    <2>1. budget \in [Workers -> Nat] /\ runs \in Nat
        BY <1>0 DEF Typed
    <2>2. \/ UNCHANGED <<runs, budget>>
          \/ runs' = runs + 1 /\ budget[w] > 0 /\ budget' = [budget EXCEPT ![w] = @ - 1]
        BY DEF Check
    <2> QED
        BY <2>1, <2>2
<1>4. UNCHANGED <<best, stop, timed_out, corpus, covered, records, best_known, run, main, faults>>
    BY DEF Check
<1>5. Typed'
    BY <1>0, <1>2, <1>3, <1>4 DEF Typed, main
<1>6. RunOK(run'[w], pc'[w])
    BY <1>0, <1>2, <1>4 DEF RunOK
<1>7. BestOK(best') /\ CorpusOK(corpus', "fuzz") /\ RecordsOK(records') /\ UNCHANGED main
    BY <1>0, <1>1, <1>4
<1>8. \A v \in Workers \ {w} : pc'[v] = pc[v] /\ run'[v] = run[v]
    BY <1>2, <1>4
<1> QED
    BY <1>0, <1>5, <1>6, <1>7, <1>8, OneWorkerMoves

\* What a run may start from.
BaseOK(b) ==
    /\ b.calls \in Seq(Handlers) /\ b.chain = FuzzedWorld(b.calls) /\ b.value \in Nat

\* A run may start from the initial state.
LEMMA InitialBaseIsOK == ASSUME Measurable PROVE BaseOK(InitialBase)
<1>1. <<>> \in Seq(Handlers)
    OBVIOUS
<1> QED
    BY <1>1, NoCalls DEF BaseOK, InitialBase, Measurable

\* Starting a run from a base whose snapshot is its state keeps the invariant.
LEMMA StartInv ==
    ASSUME Inv, NEW w \in Workers, pc[w] = "pick", Goto(w, "call"),
           UNCHANGED <<shared, budget, best_known, main, faults>>,
           NEW b, BaseOK(b), NEW pending \in Seq(Handlers) \ {<<>>},
           Len(b.calls) + Len(pending) <= MaxCalls,
           Start(w, b, pending)
    PROVE  Inv'
<1>0. Typed /\ BestOK(best) /\ RecordsOK(records)
    BY DEF Inv
<1>1. CorpusOK(corpus, "fuzz")
    BY DEF Inv, PhaseOK
<1>2. /\ pc' \in [Workers -> Labels] /\ pc'[w] = "call"
      /\ \A v \in Workers \ {w} : pc'[v] = pc[v]
    <2>1. "call" \in Labels
        BY DEF Labels
    <2> QED
        BY <1>0, <2>1, GotoIs
<1> DEFINE r == [calls |-> b.calls, pending |-> pending, chain |-> b.chain, prev |-> b.value,
                 prefixes |-> <<>>]
<1>3. /\ run' = [v \in Workers |-> run'[v]] /\ run'[w] = r
      /\ \A v \in Workers \ {w} : run'[v] = run[v]
    <2>1. run' = [run EXCEPT ![w] = r]
        BY DEF Start
    <2> HIDE DEF r
    <2> QED
        BY <1>0, <2>1, RunIs
<1>4. RunOK(r, "call")
    <2>1. DOMAIN <<>> = {}
        OBVIOUS
    <2> QED
        BY <2>1, EmptyList DEF RunOK, BaseOK
<1> HIDE DEF r
<1>5. UNCHANGED <<best, runs, stop, timed_out, corpus, covered, records>>
    BY DEF shared
<1>6. Typed'
    BY <1>0, <1>2, <1>3, <1>5 DEF Typed, main
<1>7. BestOK(best') /\ CorpusOK(corpus', "fuzz") /\ RecordsOK(records') /\ UNCHANGED main
    BY <1>0, <1>1, <1>5
<1>8. RunOK(run'[w], pc'[w])
    BY <1>2, <1>3, <1>4
<1>9. \A v \in Workers \ {w} : pc'[v] = pc[v] /\ run'[v] = run[v]
    BY <1>2, <1>3
<1> QED
    BY <1>6, <1>7, <1>8, <1>9, OneWorkerMoves

\* Pick keeps the invariant.
LEMMA PickInv == ASSUME Measurable, Inv, NEW w \in Workers, Pick(w) PROVE Inv'
<1>0. /\ pc[w] = "pick" /\ Goto(w, "call")
      /\ UNCHANGED <<shared, budget, best_known, main, faults>>
    BY DEF Pick
<1>1. ASSUME NEW b, BaseOK(b), NEW pending \in Seq(Handlers) \ {<<>>},
             Len(b.calls) + Len(pending) <= MaxCalls, Start(w, b, pending)
      PROVE  Inv'
    BY <1>0, <1>1, StartInv
<1>2. BaseOK(InitialBase) /\ Len(InitialBase.calls) = 0
    <2>1. Len(<<>>) = 0
        OBVIOUS
    <2> QED
        BY <2>1, InitialBaseIsOK DEF InitialBase
<1>3. ASSUME NEW s \in RandomSequences, Start(w, InitialBase, s)
      PROVE  Inv'
    <2>1. PICK n \in 1 .. MaxCalls : s \in [1 .. n -> Handlers]
        BY DEF RandomSequences
    <2>2. n \in Nat /\ s \in Seq(Handlers) /\ Len(s) = n /\ n <= MaxCalls /\ n # 0
        BY <2>1, LimitIsPositive
    <2>3. s # <<>>
        BY <2>2
    <2>4. Len(InitialBase.calls) + Len(s) <= MaxCalls
        BY <1>2, <2>2
    <2> QED
        BY <1>1, <1>2, <1>3, <2>2, <2>3, <2>4
<1>4. ASSUME NEW b \in {BestBase} \cup CorpusBases PROVE BaseOK(b) /\ Len(b.calls) <= MaxCalls
    <2>1. BaseOK(InitialBase) /\ Len(InitialBase.calls) <= MaxCalls
        BY <1>2, LimitIsPositive
    <2>2. CASE b = BestBase
        <3>1. BestOK(best)
            BY DEF Inv
        <3>2. best.calls # <<>> => BaseOK(best) /\ Len(best.calls) <= MaxCalls
            BY <3>1 DEF BaseOK, BestOK
        <3> QED
            BY <2>1, <2>2, <3>2 DEF BestBase
    <2>3. CASE b \in CorpusBases
        <3>1. CASE b = InitialBase
            BY <2>1, <3>1
        <3>2. CASE b # InitialBase
            <4>1. b \in Range(corpus)
                BY <2>3, <3>2 DEF CorpusBases
            <4>2. PICK i \in DOMAIN corpus : b = corpus[i]
                BY <4>1 DEF Range
            <4>3. Coherent(b)
                BY <4>2 DEF Inv, CorpusOK
            <4> QED
                BY <4>3 DEF Coherent, Promised, BaseOK
        <3> QED
            BY <3>1, <3>2
    <2> QED
        BY <2>2, <2>3
<1>5. ASSUME NEW b \in {BestBase} \cup CorpusBases, NEW c \in Handlers, Reuse(w, b, c)
      PROVE  Inv'
    <2>1. BaseOK(b) /\ Len(b.calls) <= MaxCalls /\ b.calls \in Seq(Handlers) /\ Len(b.calls) \in Nat
        BY <1>4 DEF BaseOK
    <2>2. CASE Len(b.calls) < MaxCalls /\ Start(w, b, <<c>>)
        <3>1. <<c>> \in Seq(Handlers) \ {<<>>} /\ Len(<<c>>) = 1
            OBVIOUS
        <3>2. Len(b.calls) + Len(<<c>>) <= MaxCalls
            BY <2>1, <2>2, <3>1, LimitIsPositive
        <3> QED
            BY <1>1, <2>1, <2>2, <3>1, <3>2
    <2>3. ASSUME NEW pos \in DOMAIN b.calls, Start(w, InitialBase, [b.calls EXCEPT ![pos] = c])
          PROVE  Inv'
        <3> DEFINE ds == b.calls
                   es == [ds EXCEPT ![pos] = c]
        <3>1. es \in Seq(Handlers) /\ Len(es) = Len(ds) /\ Len(ds) # 0
            BY <2>1, <2>3
        <3>2. es # <<>>
            BY <3>1
        <3>3. Len(InitialBase.calls) + Len(es) <= MaxCalls
            BY <1>2, <2>1, <3>1
        <3>4. Start(w, InitialBase, es)
            BY <2>3
        <3> HIDE DEF es
        <3> QED
            BY <1>1, <1>2, <3>1, <3>2, <3>3, <3>4
    <2> QED
        BY <1>5, <2>2, <2>3 DEF Reuse
<1> QED
    BY <1>3, <1>5 DEF Pick

\* ExecCall keeps the invariant: the chain follows the calls, the prefix is measured on it.
LEMMA ExecCallInv == ASSUME PlainHarness, Inv, NEW w \in Workers, ExecCall(w) PROVE Inv'
<1> DEFINE r == run[w]
           c == Head(r.pending)
           x == Exec(r.chain, <<c>>)
           v == Measure(x.world)
           p == [calls |-> Append(r.calls, c), value |-> IF v = NoValue THEN 0 ELSE v,
                 chain |-> x.world, new_edges |-> Cardinality(Points(x.results) \ covered),
                 activity |-> 0, interesting |-> FALSE, measured |-> v # NoValue]
           s == [calls |-> Append(r.calls, c), pending |-> Tail(r.pending), chain |-> x.world,
                 prev |-> r.prev, prefixes |-> Append(r.prefixes, p)]
<1>0. Typed /\ BestOK(best) /\ RecordsOK(records) /\ pc[w] = "call" /\ RunOK(r, "call")
    BY DEF Inv, ExecCall
<1>1. CorpusOK(corpus, "fuzz")
    BY <1>0 DEF Inv, PhaseOK
<1>2. /\ pc' \in [Workers -> Labels] /\ pc'[w] = "observe"
      /\ \A u \in Workers \ {w} : pc'[u] = pc[u]
    <2>1. "observe" \in Labels /\ Goto(w, "observe")
        BY DEF Labels, ExecCall
    <2> QED
        BY <1>0, <2>1, GotoIs
<1>3. /\ run' = [u \in Workers |-> run'[u]] /\ run'[w] = s
      /\ \A u \in Workers \ {w} : run'[u] = run[u]
    <2>1. run' = [run EXCEPT ![w] = s]
        BY DEF ExecCall
    <2> HIDE DEF s
    <2> QED
        BY <1>0, <2>1, RunIs
<1>4. /\ c \in Handlers /\ Tail(r.pending) \in Seq(Handlers)
      /\ Len(Tail(r.pending)) = Len(r.pending) - 1 /\ Len(r.pending) \in Nat \ {0}
    BY <1>0 DEF RunOK
<1>5. /\ Append(r.calls, c) \in Seq(Handlers) \ {<<>>} /\ Len(Append(r.calls, c)) = Len(r.calls) + 1
      /\ Len(r.calls) \in Nat /\ r.calls \in Seq(Handlers)
    BY <1>0, <1>4 DEF RunOK
<1>6. x.world = FuzzedWorld(Append(r.calls, c))
    BY <1>0, <1>4, <1>5, CallMore DEF RunOK
<1>7. /\ Len(Append(r.calls, c)) + Len(Tail(r.pending)) <= MaxCalls
      /\ Len(Append(r.calls, c)) <= MaxCalls
    <2> DEFINE m == Len(r.calls)
               n == Len(r.pending)
    <2>1. m + n <= MaxCalls /\ m \in Nat /\ n \in Nat \ {0} /\ MaxCalls \in Nat
        BY <1>0, <1>4, <1>5, LimitIsPositive DEF RunOK
    <2>2. Len(Append(r.calls, c)) = m + 1 /\ Len(Tail(r.pending)) = n - 1
        BY <1>4, <1>5
    <2> HIDE DEF m, n
    <2>3. (m + 1) + (n - 1) <= MaxCalls /\ m + 1 <= MaxCalls
        BY <2>1
    <2> QED
        BY <2>2, <2>3
<1>8. v \in Nat \cup {NoValue}
    BY DEF PlainHarness
<1>9. v = ValueOf(Append(r.calls, c))
    <2>1. Exec(Genesis, Append(r.calls, c)).world = FuzzedWorld(Append(r.calls, c))
        BY <1>5, Replay
    <2> QED
        BY <1>6, <2>1 DEF ValueOf
<1>10. Cardinality(Points(x.results) \ covered) \in Nat
    <2>1. <<c>> \in Seq(Handlers)
        BY <1>4
    <2>2. IsFiniteSet(Points(x.results))
        BY <2>1, Replay
    <2> QED
        BY <2>2, FS_Difference, FS_CardinalityType
<1> HIDE DEF c, x, v
<1>11. PrefixOK(p)
    BY <1>5, <1>6, <1>7, <1>8, <1>9, <1>10 DEF PrefixOK
<1> HIDE DEF p
<1>12. RunOK(s, "observe")
    <2> DEFINE ps == Append(r.prefixes, p)
    <2>1. IsList(r.prefixes) /\ \A i \in DOMAIN r.prefixes : PrefixOK(r.prefixes[i])
        BY <1>0 DEF RunOK
    <2>2. /\ IsList(ps) /\ DOMAIN ps = 1 .. Len(r.prefixes) + 1 /\ Len(r.prefixes) \in Nat
          /\ DOMAIN r.prefixes = 1 .. Len(r.prefixes)
          /\ \A i \in 1 .. Len(r.prefixes) : ps[i] = r.prefixes[i]
          /\ ps[Len(r.prefixes) + 1] = p
        BY <2>1, ListAppend, ListLength
    <2> HIDE DEF ps
    <2>3. \A i \in DOMAIN ps : PrefixOK(ps[i])
        BY <1>11, <2>1, <2>2
    <2>4. ps # <<>>
        BY <2>2
    <2>5. s = [calls |-> Append(r.calls, c), pending |-> Tail(r.pending), chain |-> x.world,
               prev |-> r.prev, prefixes |-> ps]
        BY DEF ps
    <2>6. r.prev \in Nat
        BY <1>0 DEF RunOK
    <2> HIDE DEF s
    <2> QED
        BY <1>4, <1>5, <1>6, <1>7, <2>2, <2>3, <2>4, <2>5, <2>6 DEF RunOK
<1> HIDE DEF s
<1>13. UNCHANGED <<best, runs, stop, timed_out, corpus, records, budget, best_known, main, faults>>
    BY DEF ExecCall
<1>14. Typed'
    BY <1>0, <1>2, <1>3, <1>13 DEF Typed, main
<1>15. BestOK(best') /\ CorpusOK(corpus', "fuzz") /\ RecordsOK(records') /\ UNCHANGED main
    BY <1>0, <1>1, <1>13
<1>16. RunOK(run'[w], pc'[w])
    BY <1>2, <1>3, <1>12
<1>17. \A u \in Workers \ {w} : pc'[u] = pc[u] /\ run'[u] = run[u]
    BY <1>2, <1>3
<1> QED
    BY <1>0, <1>14, <1>15, <1>16, <1>17, OneWorkerMoves

\* ExecFault keeps the invariant.
LEMMA ExecFaultInv == ASSUME Measurable, Inv, NEW w \in Workers, ExecFault(w) PROVE Inv'
<1>0. Typed /\ BestOK(best) /\ RecordsOK(records) /\ pc[w] = "call"
    BY DEF Inv, ExecFault
<1>1. CorpusOK(corpus, "fuzz")
    BY <1>0 DEF Inv, PhaseOK
<1>2. /\ pc' \in [Workers -> Labels] /\ pc'[w] = "failed"
      /\ \A u \in Workers \ {w} : pc'[u] = pc[u]
    <2>1. "failed" \in Labels /\ Goto(w, "failed")
        BY DEF Labels, ExecFault
    <2> QED
        BY <1>0, <2>1, GotoIs
<1>3. /\ run' = [u \in Workers |-> run'[u]] /\ run'[w] = NoRun
      /\ \A u \in Workers \ {w} : run'[u] = run[u]
    BY <1>0, RunIs DEF ExecFault
<1>4. UNCHANGED <<best, runs, stop, timed_out, corpus, covered, records, budget, best_known, main>>
    BY DEF ExecFault, shared
<1>5. Typed'
    BY <1>0, <1>2, <1>3, <1>4 DEF Typed, main
<1>6. BestOK(best') /\ CorpusOK(corpus', "fuzz") /\ RecordsOK(records') /\ UNCHANGED main
    BY <1>0, <1>1, <1>4
<1>7. RunOK(run'[w], pc'[w])
    BY <1>2, <1>3, IdleIsOK
<1>8. \A u \in Workers \ {w} : pc'[u] = pc[u] /\ run'[u] = run[u]
    BY <1>2, <1>3
<1> QED
    BY <1>0, <1>5, <1>6, <1>7, <1>8, OneWorkerMoves

\* The records stay ordered.
LEMMA ObservedIs ==
    ASSUME NEW rs, RecordsOK(rs), NEW class, NEW delta \in Int
    PROVE  RecordsOK(Observed(rs, class, delta))
<1>1. CASE delta = 0
    BY <1>1 DEF Observed
<1>2. CASE delta # 0
    <2> DEFINE e == Extremes(rs, class, delta)
               new == [k \in DOMAIN rs \cup {class} |-> IF k = class THEN e ELSE rs[k]]
    <2>1. Observed(rs, class, delta) = new
        BY <1>2 DEF Observed
    <2>2. e.min \in Int /\ e.max \in Int /\ e.min <= e.max
        <3>1. CASE class \in DOMAIN rs
            <4>1. rs[class].min \in Int /\ rs[class].max \in Int /\ rs[class].min <= rs[class].max
                BY <3>1 DEF RecordsOK
            <4> QED
                BY <3>1, <4>1 DEF Extremes, Smaller, Larger
        <3>2. CASE class \notin DOMAIN rs
            BY <3>2 DEF Extremes
        <3> QED
            BY <3>1, <3>2
    <2> HIDE DEF e
    <2>3. RecordsOK(new)
        BY <2>2 DEF RecordsOK
    <2> QED
        BY <2>1, <2>3
<1> QED
    BY <1>1, <1>2

\* Updating a record of a known shape.
LEMMA PrefixUpdated ==
    ASSUME NEW p, PrefixOK(p), NEW a, NEW b
    PROVE  [p EXCEPT !.activity = a, !.interesting = b] =
               [calls |-> p.calls, value |-> p.value, chain |-> p.chain, new_edges |-> p.new_edges,
                activity |-> a, interesting |-> b, measured |-> p.measured]
<1> DEFINE q == [p EXCEPT !.activity = a, !.interesting = b]
           Fields == {"calls", "value", "chain", "new_edges", "activity", "interesting", "measured"}
<1>1. p = [calls |-> p.calls, value |-> p.value, chain |-> p.chain, new_edges |-> p.new_edges,
           activity |-> p.activity, interesting |-> p.interesting, measured |-> p.measured]
    BY DEF PrefixOK
<1>2. DOMAIN p = Fields
    BY <1>1
<1>3. q = [f \in Fields |-> IF f = "interesting" THEN b ELSE IF f = "activity" THEN a ELSE p[f]]
    BY <1>2
<1> HIDE DEF q
<1>4. q = [calls |-> p.calls, value |-> p.value, chain |-> p.chain, new_edges |-> p.new_edges,
           activity |-> a, interesting |-> b, measured |-> p.measured]
    BY <1>3
<1> QED
    BY <1>4 DEF q

\* So is a worker's run.
LEMMA RunUpdated ==
    ASSUME NEW r, NEW at, RunOK(r, at), NEW a, NEW b
    PROVE  /\ [r EXCEPT !.prev = a, !.prefixes = b] =
                  [calls |-> r.calls, pending |-> r.pending, chain |-> r.chain, prev |-> a, prefixes |-> b]
           /\ [r EXCEPT !.prefixes = b] =
                  [calls |-> r.calls, pending |-> r.pending, chain |-> r.chain, prev |-> r.prev,
                   prefixes |-> b]
<1> DEFINE q == [r EXCEPT !.prev = a, !.prefixes = b]
           t == [r EXCEPT !.prefixes = b]
           Fields == {"calls", "pending", "chain", "prev", "prefixes"}
<1>1. r = [calls |-> r.calls, pending |-> r.pending, chain |-> r.chain, prev |-> r.prev,
           prefixes |-> r.prefixes]
    BY DEF RunOK
<1>2. DOMAIN r = Fields
    BY <1>1
<1>3. /\ q = [f \in Fields |-> IF f = "prefixes" THEN b ELSE IF f = "prev" THEN a ELSE r[f]]
      /\ t = [f \in Fields |-> IF f = "prefixes" THEN b ELSE r[f]]
    BY <1>2
<1> HIDE DEF q, t
<1>4. /\ q = [calls |-> r.calls, pending |-> r.pending, chain |-> r.chain, prev |-> a, prefixes |-> b]
      /\ t = [calls |-> r.calls, pending |-> r.pending, chain |-> r.chain, prev |-> r.prev,
              prefixes |-> b]
    BY <1>3
<1> QED
    BY <1>4 DEF q, t

\* Observe keeps the invariant.
LEMMA ObserveInv == ASSUME Inv, NEW w \in Workers, Observe(w) PROVE Inv'
<1> DEFINE r == run[w]
           p == Last(r.prefixes)
           delta == p.value - r.prev
           class == Class(Front(p.calls), Last(p.calls))
           interesting == \/ p.new_edges > 0
                          \/ p.value > best_known[w]
                          \/ Novel(records, class, delta, r.prev < Initial)
           q == [p EXCEPT !.activity = Activity(delta), !.interesting = interesting]
           ps == Append(Front(r.prefixes), q)
           s == [r EXCEPT !.prev = p.value, !.prefixes = ps]
           label == IF r.pending = <<>> THEN "consider" ELSE "call"
<1>0. Typed /\ BestOK(best) /\ RecordsOK(records) /\ pc[w] = "observe" /\ RunOK(r, "observe")
    BY DEF Inv, Observe
<1>1. CorpusOK(corpus, "fuzz")
    BY <1>0 DEF Inv, PhaseOK
<1>2. /\ pc' \in [Workers -> Labels] /\ pc'[w] = label
      /\ \A u \in Workers \ {w} : pc'[u] = pc[u]
    <2>1. label \in Labels /\ Goto(w, label)
        BY DEF Labels, Observe
    <2> HIDE DEF label
    <2> QED
        BY <1>0, <2>1, GotoIs
<1>3. /\ run' = [u \in Workers |-> run'[u]] /\ run'[w] = s
      /\ \A u \in Workers \ {w} : run'[u] = run[u]
    <2>1. run' = [run EXCEPT ![w] = s]
        BY DEF Observe
    <2> HIDE DEF s
    <2> QED
        BY <1>0, <2>1, RunIs
<1>4. /\ records' = Observed(records, class, delta)
      /\ best_known' = [best_known EXCEPT ![w] = Larger(best_known[w], p.value)]
      /\ UNCHANGED <<best, runs, stop, timed_out, corpus, covered, budget, main, faults>>
    BY DEF Observe
<1> HIDE DEF interesting, class
<1>5. /\ IsList(r.prefixes) /\ r.prefixes # <<>> /\ r.prev \in Nat
      /\ \A i \in DOMAIN r.prefixes : PrefixOK(r.prefixes[i])
    BY <1>0 DEF RunOK
<1>6. /\ Len(r.prefixes) \in Nat \ {0} /\ DOMAIN r.prefixes = 1 .. Len(r.prefixes)
      /\ IsList(Front(r.prefixes)) /\ Len(Front(r.prefixes)) = Len(r.prefixes) - 1
      /\ \A i \in 1 .. Len(r.prefixes) - 1 : Front(r.prefixes)[i] = r.prefixes[i]
      /\ p = r.prefixes[Len(r.prefixes)]
    BY <1>5, ListEnds
<1>7. PrefixOK(p)
    BY <1>5, <1>6
<1> HIDE DEF p
<1>8. p.value \in Nat /\ delta \in Int
    BY <1>5, <1>7 DEF PrefixOK
<1>9. Activity(delta) \in Nat
    BY <1>8, ActivityIsNat
<1> HIDE DEF delta
<1>10. PrefixOK(q) /\ q.value = p.value /\ q.measured = p.measured
    <2>1. q = [calls |-> p.calls, value |-> p.value, chain |-> p.chain, new_edges |-> p.new_edges,
               activity |-> Activity(delta), interesting |-> interesting, measured |-> p.measured]
        BY <1>7, PrefixUpdated
    <2> HIDE DEF q
    <2> QED
        BY <1>7, <1>9, <2>1 DEF PrefixOK
<1> HIDE DEF q
<1>11. IsList(ps) /\ ps # <<>> /\ \A i \in DOMAIN ps : PrefixOK(ps[i])
    <2> DEFINE f == Front(r.prefixes)
               n == Len(r.prefixes)
    <2>1. /\ IsList(ps) /\ Len(ps) = Len(f) + 1
          /\ \A i \in 1 .. Len(f) : ps[i] = f[i]
          /\ ps[Len(f) + 1] = q
        BY <1>6, ListAppend
    <2>2. DOMAIN ps = 1 .. Len(ps)
        BY <2>1, ListLength
    <2> HIDE DEF ps, f
    <2>3. /\ n \in Nat \ {0} /\ DOMAIN ps = 1 .. n /\ ps[n] = q
          /\ \A i \in 1 .. n - 1 : ps[i] = r.prefixes[i]
        BY <1>6, <2>1, <2>2 DEF f
    <2> HIDE DEF n
    <2>4. \A i \in 1 .. n - 1 : PrefixOK(ps[i])
        BY <1>5, <1>6, <2>3 DEF n
    <2>5. \A i \in DOMAIN ps : PrefixOK(ps[i])
        BY <1>10, <2>3, <2>4
    <2>6. ps # <<>>
        BY <2>3
    <2> QED
        BY <2>1, <2>5, <2>6
<1> HIDE DEF ps
<1>12. RunOK(s, label)
    <2>1. s = [calls |-> r.calls, pending |-> r.pending, chain |-> r.chain, prev |-> p.value,
               prefixes |-> ps]
        BY <1>0, RunUpdated
    <2> HIDE DEF s
    <2>2. RunOK(r, "observe")
        BY <1>0
    <2> HIDE DEF r
    <2> QED
        BY <1>8, <1>11, <2>1, <2>2 DEF RunOK
<1> HIDE DEF s, label
<1>13. best_known' \in [Workers -> Nat]
    <2>1. best_known \in [Workers -> Nat]
        BY <1>0 DEF Typed
    <2>2. Larger(best_known[w], p.value) \in Nat
        BY <1>8, <2>1 DEF Larger
    <2> QED
        BY <1>4, <2>1, <2>2
<1>14. Typed'
    BY <1>0, <1>2, <1>3, <1>4, <1>13 DEF Typed, main
<1>15. BestOK(best') /\ CorpusOK(corpus', "fuzz") /\ RecordsOK(records') /\ UNCHANGED main
    BY <1>0, <1>1, <1>4, <1>8, ObservedIs
<1>16. RunOK(run'[w], pc'[w])
    BY <1>2, <1>3, <1>12
<1>17. \A u \in Workers \ {w} : pc'[u] = pc[u] /\ run'[u] = run[u]
    BY <1>2, <1>3
<1> QED
    BY <1>0, <1>14, <1>15, <1>16, <1>17, OneWorkerMoves

\* The prefixes kept are the measured ones that were asked for.
LEMMA KeptIs ==
    ASSUME NEW ps, IsList(ps), NEW improved
    PROVE  /\ IsList(Kept(ps, improved))
           /\ \A i \in DOMAIN Kept(ps, improved) :
                 \E k \in DOMAIN ps : Kept(ps, improved)[i] = ps[k] /\ ps[k].measured
<1> DEFINE K == {i \in DOMAIN ps : ps[i].measured /\ (improved \/ ps[i].interesting)}
           e == ElementsAt(ps, K)
<1>1. PICK T : ps \in Seq(T)
    BY DEF IsList
<1>2. K \in SUBSET DOMAIN ps
    OBVIOUS
<1>3. Kept(ps, improved) = e
    BY DEF Kept
<1>4. /\ e \in Seq(T)
      /\ \A i \in DOMAIN e : \E k \in K : e[i] = ps[k]
    <2> HIDE DEF K
    <2> QED
        BY <1>1, <1>2, ElementsAre
<1> HIDE DEF e
<1>5. IsList(e)
    BY <1>4 DEF IsList
<1> QED
    BY <1>3, <1>4, <1>5

\* When the sequence is the new best, every measured prefix is.
LEMMA AllKept ==
    ASSUME NEW ps, IsList(ps), NEW k \in DOMAIN ps, ps[k].measured
    PROVE  \E i \in DOMAIN Kept(ps, TRUE) : Kept(ps, TRUE)[i] = ps[k]
<1> DEFINE K == {i \in DOMAIN ps : ps[i].measured /\ (TRUE \/ ps[i].interesting)}
<1>1. PICK T : ps \in Seq(T)
    BY DEF IsList
<1>2. K \in SUBSET DOMAIN ps /\ k \in K
    OBVIOUS
<1>3. Kept(ps, TRUE) = ElementsAt(ps, K)
    BY DEF Kept
<1> HIDE DEF K
<1>4. \A j \in K : \E i \in DOMAIN ElementsAt(ps, K) : ElementsAt(ps, K)[i] = ps[j]
    BY <1>1, <1>2, ElementsAre
<1>5. \E i \in DOMAIN ElementsAt(ps, K) : ElementsAt(ps, K)[i] = ps[k]
    BY <1>2, <1>4, Zenon
<1> QED
    BY <1>3, <1>5, Zenon

\* Consider keeps the invariant: what becomes the best was measured.
LEMMA ConsiderInv == ASSUME Inv, NEW w \in Workers, Consider(w) PROVE Inv'
<1> DEFINE r == run[w]
           p == Last(r.prefixes)
           improved == p.measured /\ Improves(best, p)
           ps == Kept(r.prefixes, improved)
           s == [r EXCEPT !.prefixes = ps]
           label == IF improved /\ ReachedBy(p.value) THEN "stop" ELSE "keep"
<1>0. Typed /\ BestOK(best) /\ RecordsOK(records) /\ pc[w] = "consider" /\ RunOK(r, "consider")
    BY DEF Inv, Consider
<1>1. CorpusOK(corpus, "fuzz")
    BY <1>0 DEF Inv, PhaseOK
<1>2. /\ pc' \in [Workers -> Labels] /\ pc'[w] = label
      /\ \A u \in Workers \ {w} : pc'[u] = pc[u]
    <2>1. label \in Labels /\ Goto(w, label)
        BY DEF Labels, Consider
    <2> HIDE DEF label
    <2> QED
        BY <1>0, <2>1, GotoIs
<1>3. /\ run' = [u \in Workers |-> run'[u]] /\ run'[w] = s
      /\ \A u \in Workers \ {w} : run'[u] = run[u]
    <2>1. run' = [run EXCEPT ![w] = s]
        BY DEF Consider
    <2> HIDE DEF s
    <2> QED
        BY <1>0, <2>1, RunIs
<1>4. /\ best' = IF improved THEN [value |-> p.value, calls |-> p.calls, chain |-> p.chain] ELSE best
      /\ UNCHANGED <<runs, stop, timed_out, corpus, covered, records, budget, best_known, main, faults>>
    BY DEF Consider
<1>5. /\ IsList(r.prefixes) /\ r.prefixes # <<>>
      /\ \A i \in DOMAIN r.prefixes : PrefixOK(r.prefixes[i])
    BY <1>0 DEF RunOK
<1>6. PrefixOK(p)
    <2>1. p = r.prefixes[Len(r.prefixes)] /\ Len(r.prefixes) \in DOMAIN r.prefixes
        BY <1>5, ListEnds
    <2> QED
        BY <1>5, <2>1
<1>7. /\ IsList(ps)
      /\ \A i \in DOMAIN ps : \E k \in DOMAIN r.prefixes : ps[i] = r.prefixes[k] /\ r.prefixes[k].measured
    BY <1>5, KeptIs
<1> HIDE DEF p
<1>8. BestOK(best')
    <2>1. CASE improved
        <3>1. p.measured /\ best' = [value |-> p.value, calls |-> p.calls, chain |-> p.chain]
            BY <1>4, <2>1
        <3> QED
            BY <1>6, <3>1 DEF PrefixOK, BestOK
    <2>2. CASE ~improved
        BY <1>0, <1>4, <2>2
    <2> QED
        BY <2>1, <2>2
<1> HIDE DEF ps
<1>9. RunOK(s, label)
    <2>1. s = [calls |-> r.calls, pending |-> r.pending, chain |-> r.chain, prev |-> r.prev,
               prefixes |-> ps]
        BY <1>0, RunUpdated
    <2> HIDE DEF s
    <2>2. RunOK(r, "consider") /\ label \in {"stop", "keep"}
        BY <1>0
    <2>3. \A i \in DOMAIN ps : PrefixOK(ps[i]) /\ ps[i].measured
        BY <1>5, <1>7
    <2> HIDE DEF r, label
    <2> QED
        BY <1>7, <2>1, <2>2, <2>3 DEF RunOK
<1> HIDE DEF s, label
<1>10. Typed'
    BY <1>0, <1>2, <1>3, <1>4 DEF Typed, main
<1>11. CorpusOK(corpus', "fuzz") /\ RecordsOK(records') /\ UNCHANGED main
    BY <1>0, <1>1, <1>4
<1>12. RunOK(run'[w], pc'[w])
    BY <1>2, <1>3, <1>9
<1>13. \A u \in Workers \ {w} : pc'[u] = pc[u] /\ run'[u] = run[u]
    BY <1>2, <1>3
<1> QED
    BY <1>0, <1>8, <1>10, <1>11, <1>12, <1>13, OneWorkerMoves

\* ReachTarget keeps the invariant.
LEMMA ReachTargetInv == ASSUME Inv, NEW w \in Workers, ReachTarget(w) PROVE Inv'
<1>0. Typed /\ BestOK(best) /\ RecordsOK(records) /\ pc[w] = "stop" /\ RunOK(run[w], "stop")
    BY DEF Inv, ReachTarget
<1>1. CorpusOK(corpus, "fuzz")
    BY <1>0 DEF Inv, PhaseOK
<1>2. /\ pc' \in [Workers -> Labels] /\ pc'[w] = "keep"
      /\ \A u \in Workers \ {w} : pc'[u] = pc[u]
    <2>1. "keep" \in Labels /\ Goto(w, "keep")
        BY DEF Labels, ReachTarget
    <2> QED
        BY <1>0, <2>1, GotoIs
<1>3. /\ stop' = TRUE
      /\ UNCHANGED <<best, runs, timed_out, corpus, covered, records, budget, best_known, run, main, faults>>
    BY DEF ReachTarget
<1>4. Typed'
    BY <1>0, <1>2, <1>3 DEF Typed, main
<1>5. RunOK(run'[w], pc'[w])
    BY <1>0, <1>2, <1>3 DEF RunOK
<1>6. BestOK(best') /\ CorpusOK(corpus', "fuzz") /\ RecordsOK(records') /\ UNCHANGED main
    BY <1>0, <1>1, <1>3
<1>7. \A u \in Workers \ {w} : pc'[u] = pc[u] /\ run'[u] = run[u]
    BY <1>2, <1>3
<1> QED
    BY <1>0, <1>4, <1>5, <1>6, <1>7, OneWorkerMoves

\* A measured prefix is an exact entry.
LEMMA EntryOfPrefix ==
    ASSUME NEW p, PrefixOK(p), p.measured
    PROVE  Exact(EntryOf(p)) /\ Weighed(EntryOf(p)) /\ EntryOf(p).value = p.value
BY DEF PrefixOK, EntryOf, Exact, Coherent, Promised, Weighed

\* A corpus stays what it is when an entry is added.
LEMMA AddedIsOK ==
    ASSUME NEW c, NEW at, CorpusOK(c, at), NEW e, Weighed(e), Coherent(e), at = "fuzz" => Exact(e)
    PROVE  /\ CorpusOK(Added(c, e), at)
           /\ \A v \in Nat : Holds(c, v) \/ e.value >= v => Holds(Added(c, e), v)
<1> DEFINE a == Added(c, e)
<1>1. /\ Entries(a) /\ Len(a) <= MaxEntries
      /\ \A i \in DOMAIN a : a[i] = e \/ \E j \in DOMAIN c : a[i] = c[j]
      /\ \A v \in Nat : Holds(c, v) \/ e.value >= v => Holds(a, v)
    BY AddedIs DEF CorpusOK
<1> HIDE DEF a
<1>2. \A j \in DOMAIN c : Coherent(c[j]) /\ (at = "fuzz" => Exact(c[j]))
    BY DEF CorpusOK
<1>3. \A i \in DOMAIN a : Coherent(a[i]) /\ (at = "fuzz" => Exact(a[i]))
    BY <1>1, <1>2
<1>4. CorpusOK(a, at)
    BY <1>1, <1>3 DEF CorpusOK
<1> QED
    BY <1>1, <1>4 DEF a

\* Keep keeps the invariant: what is added was measured.
LEMMA KeepInv == ASSUME Measurable, Inv, NEW w \in Workers, Keep(w) PROVE Inv'
<1> DEFINE r == run[w]
           ps == r.prefixes
<1>0. Typed /\ BestOK(best) /\ RecordsOK(records) /\ pc[w] = "keep" /\ RunOK(r, "keep")
    BY DEF Inv, Keep
<1>1. CorpusOK(corpus, "fuzz")
    BY <1>0 DEF Inv, PhaseOK
<1>2. UNCHANGED <<best, runs, stop, timed_out, covered, records, budget, best_known, main, faults>>
    BY DEF Keep
<1>3. IsList(ps) /\ \A i \in DOMAIN ps : PrefixOK(ps[i]) /\ ps[i].measured
    BY <1>0 DEF RunOK
<1>4. CASE ps # <<>>
    <2> DEFINE s == [r EXCEPT !.prefixes = Tail(ps)]
    <2>1. /\ corpus' = Added(corpus, EntryOf(Head(ps)))
          /\ run' = [run EXCEPT ![w] = s] /\ pc' = pc
        BY <1>4 DEF Keep
    <2>2. /\ Len(ps) \in Nat \ {0} /\ DOMAIN ps = 1 .. Len(ps) /\ Head(ps) = ps[1]
          /\ IsList(Tail(ps)) /\ DOMAIN Tail(ps) = 1 .. Len(ps) - 1
          /\ \A i \in 1 .. Len(ps) - 1 : Tail(ps)[i] = ps[i + 1]
        BY <1>3, <1>4, ListEnds
    <2>3. PrefixOK(Head(ps)) /\ Head(ps).measured
        BY <1>3, <2>2
    <2>4. CorpusOK(corpus', "fuzz")
        <3>1. LET e == EntryOf(Head(ps)) IN Exact(e) /\ Coherent(e) /\ Weighed(e)
            BY <2>3, EntryOfPrefix DEF Exact
        <3> QED
            BY <1>1, <2>1, <3>1, AddedIsOK
    <2>5. RunOK(s, "keep")
        <3> DEFINE ts == Tail(ps)
        <3>1. s = [calls |-> r.calls, pending |-> r.pending, chain |-> r.chain, prev |-> r.prev,
                   prefixes |-> ts]
            BY <1>0, RunUpdated
        <3>2. \A i \in DOMAIN ts : PrefixOK(ts[i]) /\ ts[i].measured
            <4> SUFFICES ASSUME NEW i \in DOMAIN ts PROVE PrefixOK(ts[i]) /\ ts[i].measured
                OBVIOUS
            <4>1. i + 1 \in DOMAIN ps /\ ts[i] = ps[i + 1]
                BY <2>2
            <4> QED
                BY <1>3, <4>1
        <3>3. IsList(ts)
            BY <2>2
        <3>4. RunOK(r, "keep")
            BY <1>0
        <3> HIDE DEF s, ts, r
        <3> QED
            BY <3>1, <3>2, <3>3, <3>4 DEF RunOK
    <2> HIDE DEF s
    <2>6. /\ run' = [u \in Workers |-> run'[u]] /\ run'[w] = s
          /\ \A u \in Workers \ {w} : run'[u] = run[u]
        BY <1>0, <2>1, RunIs
    <2>7. Typed'
        BY <1>0, <1>2, <2>1, <2>6 DEF Typed, main
    <2>8. RunOK(run'[w], pc'[w])
        BY <1>0, <2>1, <2>5, <2>6
    <2>9. \A u \in Workers \ {w} : pc'[u] = pc[u] /\ run'[u] = run[u]
        BY <2>1, <2>6
    <2>10. BestOK(best') /\ RecordsOK(records') /\ UNCHANGED main
        BY <1>0, <1>2
    <2> QED
        BY <1>0, <2>4, <2>7, <2>8, <2>9, <2>10, OneWorkerMoves
<1>5. CASE ps = <<>>
    <2>1. run' = [run EXCEPT ![w] = NoRun] /\ Goto(w, "check") /\ corpus' = corpus
        BY <1>5 DEF Keep
    <2>2. /\ pc' \in [Workers -> Labels] /\ pc'[w] = "check"
          /\ \A u \in Workers \ {w} : pc'[u] = pc[u]
        <3>1. "check" \in Labels
            BY DEF Labels
        <3> QED
            BY <1>0, <2>1, <3>1, GotoIs
    <2>3. /\ run' = [u \in Workers |-> run'[u]] /\ run'[w] = NoRun
          /\ \A u \in Workers \ {w} : run'[u] = run[u]
        BY <1>0, <2>1, RunIs
    <2>4. Typed'
        BY <1>0, <1>2, <2>2, <2>3 DEF Typed, main
    <2>5. RunOK(run'[w], pc'[w])
        BY <2>2, <2>3, IdleIsOK
    <2>6. \A u \in Workers \ {w} : pc'[u] = pc[u] /\ run'[u] = run[u]
        BY <2>2, <2>3
    <2>7. BestOK(best') /\ CorpusOK(corpus', "fuzz") /\ RecordsOK(records') /\ UNCHANGED main
        BY <1>0, <1>1, <1>2, <2>1
    <2> QED
        BY <1>0, <2>4, <2>5, <2>6, <2>7, OneWorkerMoves
<1> QED
    BY <1>4, <1>5

\* What is saved of a corpus.
LEMMA PersistedIs ==
    ASSUME NEW c, NEW at, CorpusOK(c, at)
    PROVE  /\ FileOK(Persisted(c))
           /\ \A v : Holds(c, v) => Holds(Persisted(c), v)
<1> DEFINE f == Persisted(c)
<1>1. IsList(c) /\ \A i \in DOMAIN c : Promised(c[i])
    BY DEF CorpusOK, Entries, Coherent
<1>2. f = [i \in DOMAIN c |-> f[i]]
    BY DEF Persisted
<1>3. \A i \in DOMAIN c : f[i] = [calls |-> c[i].calls, value |-> c[i].value, new_edges |-> c[i].new_edges]
    BY DEF Persisted
<1> HIDE DEF f
<1>4. IsList(f)
    BY <1>1, <1>2, ListReplace
<1>5. DOMAIN f = DOMAIN c
    BY <1>2
<1>6. \A i \in DOMAIN f : Promised(f[i]) /\ f[i].value = c[i].value
    <2> TAKE i \in DOMAIN f
    <2>1. Promised(c[i]) /\ f[i] = [calls |-> c[i].calls, value |-> c[i].value, new_edges |-> c[i].new_edges]
        BY <1>1, <1>3, <1>5
    <2> QED
        BY <2>1 DEF Promised
<1>7. \A v : Holds(c, v) => Holds(f, v)
    BY <1>5, <1>6 DEF Holds
<1> QED
    BY <1>4, <1>6, <1>7 DEF f, FileOK

\* Join keeps the invariant.
LEMMA JoinInv == ASSUME Inv, Join PROVE Inv'
<1>0. Inv /\ phase = "fuzz" /\ UNCHANGED <<shared, local, shrunk, faults, campaign>>
    BY DEF Join
<1>1. UNCHANGED <<best, runs, stop, timed_out, corpus, covered, records, pc, budget, best_known, run, shrunk>>
    BY <1>0 DEF shared, local
<1>2. \A w \in Workers : pc[w] \in {"done", "failed"}
    BY DEF Join
<1>3. \/ phase' = "failed" /\ file' = Persisted(corpus)
      \/ /\ \A w \in Workers : pc[w] = "done"
         /\ phase' \in {"save", "shrink"} /\ (phase' = "shrink" => best.calls # <<>>)
         /\ file' = file
    BY DEF Join
<1>4. Typed'
    BY <1>0, <1>1, <1>3 DEF Inv, Typed
<1>5. CorpusOK(corpus', phase')
    <2>1. CorpusOK(corpus, "fuzz") /\ phase' # "fuzz"
        BY <1>0, <1>3 DEF Inv
    <2> QED
        BY <1>1, <2>1 DEF CorpusOK
<1>6. FileOK(file')
    <2>1. FileOK(file) /\ FileOK(Persisted(corpus))
        BY <1>0, PersistedIs DEF Inv
    <2> QED
        BY <1>3, <2>1
<1>7. PhaseOK'
    BY <1>1, <1>2, <1>3 DEF PhaseOK
<1>8. BestOK(best') /\ RecordsOK(records') /\ \A w \in Workers : RunOK(run'[w], pc'[w])
    BY <1>0, <1>1 DEF Inv
<1> QED
    BY <1>4, <1>5, <1>6, <1>7, <1>8 DEF Inv

\* Shrinking returns a sequence that reaches the best value.
LEMMA ShrunkIs ==
    ASSUME PlainHarness, BestOK(best), best.calls # <<>>,
           NEW s \in Shrinkings(best.calls, best.value)
    PROVE  /\ s \in Seq(Handlers) \ {<<>>} /\ Len(s) <= MaxCalls
           /\ ValueOf(s) \in Nat /\ best.value <= ValueOf(s)
<1>0. /\ best.calls \in Seq(Handlers) /\ Len(best.calls) <= MaxCalls /\ best.value \in Nat
      /\ ValueOf(best.calls) = best.value
    BY DEF BestOK
<1>1. CASE s = best.calls
    BY <1>0, <1>1
<1>2. CASE s # best.calls
    <2>1. PICK K \in (SUBSET DOMAIN best.calls) \ {{}} : s = ElementsAt(best.calls, K) /\ Preserves(s, best.value)
        BY <1>2 DEF Shrinkings
    <2>2. /\ s \in Seq(Handlers) /\ Len(s) <= Len(best.calls)
          /\ \A k \in K : \E i \in DOMAIN s : s[i] = best.calls[k]
        BY <1>0, <2>1, ElementsAre
    <2>3. s # <<>>
        BY <2>1, <2>2
    <2>4. ValueOf(s) \in Nat /\ best.value <= ValueOf(s)
        <3>1. ValueOf(s) \in Nat \cup {NoValue}
            BY DEF PlainHarness, ValueOf
        <3>2. ValueOf(s) # NoValue /\ ValueOf(s) >= best.value
            BY <2>1 DEF Preserves
        <3> QED
            BY <1>0, <3>1, <3>2
    <2>5. Len(s) <= MaxCalls
        <3>1. Len(s) \in Nat /\ Len(best.calls) \in Nat /\ MaxCalls \in Nat
            BY <1>0, <2>2, LimitIsPositive
        <3> QED
            BY <1>0, <2>2, <3>1
    <2> QED
        BY <2>2, <2>3, <2>4, <2>5
<1> QED
    BY <1>1, <1>2

\* Shrink keeps the invariant.
LEMMA ShrinkInv == ASSUME PlainHarness, Inv, Shrink PROVE Inv'
<1>0. /\ phase = "shrink" /\ phase' = "keep" /\ shrunk' \in Shrinkings(best.calls, best.value)
      /\ UNCHANGED <<best, runs, stop, timed_out, corpus, covered, records, pc, budget, best_known, run, file>>
    BY DEF Shrink, shared, local
<1>1. BestOK(best) /\ best.calls # <<>> /\ \A w \in Workers : pc[w] = "done"
    BY <1>0 DEF Inv, PhaseOK
<1>2. /\ shrunk' \in Seq(Handlers) \ {<<>>} /\ Len(shrunk') <= MaxCalls
      /\ ValueOf(shrunk') \in Nat /\ best.value <= ValueOf(shrunk')
    BY <1>0, <1>1, ShrunkIs
<1>3. Typed'
    BY <1>0, <1>2 DEF Inv, Typed
<1>4. CorpusOK(corpus', phase')
    BY <1>0 DEF Inv, CorpusOK
<1>5. PhaseOK'
    BY <1>0, <1>1, <1>2 DEF PhaseOK
<1>6. FileOK(file') /\ BestOK(best') /\ RecordsOK(records') /\ \A w \in Workers : RunOK(run'[w], pc'[w])
    BY <1>0 DEF Inv
<1> QED
    BY <1>3, <1>4, <1>5, <1>6 DEF Inv

\* MainFault keeps the invariant.
LEMMA MainFaultInv == ASSUME Inv, MainFault PROVE Inv'
<1>0. /\ phase \in {"shrink", "keep"} /\ phase' = "failed"
      /\ UNCHANGED <<best, runs, stop, timed_out, corpus, covered, records, pc, budget, best_known, run,
                     file, shrunk>>
    BY DEF MainFault, shared, local
<1>1. \A w \in Workers : pc[w] = "done"
    BY <1>0 DEF Inv, PhaseOK
<1>2. Typed'
    BY <1>0 DEF Inv, Typed
<1>3. CorpusOK(corpus', phase')
    BY <1>0 DEF Inv, CorpusOK
<1>4. PhaseOK'
    BY <1>0, <1>1 DEF PhaseOK
<1>5. FileOK(file') /\ BestOK(best') /\ RecordsOK(records') /\ \A w \in Workers : RunOK(run'[w], pc'[w])
    BY <1>0 DEF Inv
<1> QED
    BY <1>2, <1>3, <1>4, <1>5 DEF Inv

\* The coverage gain the shrunk sequence inherits is a number.
LEMMA InheritedIsNat == ASSUME Inv PROVE InheritedEdges \in Nat
<1> DEFINE same == {i \in DOMAIN corpus : corpus[i].calls = best.calls}
<1>0. IsList(corpus) /\ \A i \in DOMAIN corpus : corpus[i].new_edges \in Nat
    BY DEF Inv, CorpusOK, Entries, Weighed
<1>1. same \in SUBSET Nat
    BY <1>0, ListLength
<1>2. CASE same = {}
    BY <1>2 DEF InheritedEdges
<1>3. CASE same # {}
    <2> DEFINE k == CHOOSE i \in same : \A j \in same : i <= j
    <2>1. InheritedEdges = corpus[k].new_edges
        BY <1>3 DEF InheritedEdges
    <2>2. k \in same
        <3> HIDE DEF same
        <3>1. \E i \in same : \A j \in same : i <= j
            BY <1>1, <1>3, LeastNatural
        <3> QED
            BY <3>1
    <2> HIDE DEF k
    <2> QED
        BY <1>0, <2>1, <2>2
<1> QED
    BY <1>2, <1>3

\* The shrunk sequence enters the corpus with a value it reaches.
LEMMA KeepShrunkAdds ==
    ASSUME PlainHarness, Inv, KeepShrunk
    PROVE  /\ CorpusOK(corpus', "save")
           /\ \A v \in Nat : Holds(corpus, v) => Holds(corpus', v)
<1> DEFINE e == [calls |-> shrunk, value |-> best.value, activity |-> 0, new_edges |-> InheritedEdges,
                 chain |-> Exec(Genesis, shrunk).world]
<1>0. phase = "keep" /\ corpus' = Added(corpus, e)
    BY DEF KeepShrunk
<1>1. /\ shrunk \in Seq(Handlers) \ {<<>>} /\ Len(shrunk) <= MaxCalls
      /\ ValueOf(shrunk) \in Nat /\ best.value <= ValueOf(shrunk) /\ best.value \in Nat
    BY <1>0 DEF Inv, Typed, PhaseOK, BestOK
<1>2. Exec(Genesis, shrunk).world = FuzzedWorld(shrunk)
    BY <1>1, Replay
<1>3. Coherent(e) /\ Weighed(e)
    BY <1>1, <1>2, InheritedIsNat DEF Coherent, Promised, Weighed
<1> HIDE DEF e
<1>4. CorpusOK(corpus, "save")
    BY <1>0 DEF Inv, CorpusOK
<1> QED
    BY <1>0, <1>3, <1>4, AddedIsOK

\* KeepShrunk keeps the invariant.
LEMMA KeepShrunkInv == ASSUME PlainHarness, Inv, KeepShrunk PROVE Inv'
<1>0. /\ phase = "keep" /\ phase' = "save"
      /\ UNCHANGED <<best, runs, stop, timed_out, covered, records, pc, budget, best_known, run, shrunk, file>>
    BY DEF KeepShrunk, local
<1>1. \A w \in Workers : pc[w] = "done"
    BY <1>0 DEF Inv, PhaseOK
<1>2. Typed'
    BY <1>0 DEF Inv, Typed
<1>3. CorpusOK(corpus', phase')
    BY <1>0, KeepShrunkAdds
<1>4. PhaseOK'
    BY <1>0, <1>1 DEF PhaseOK
<1>5. FileOK(file') /\ BestOK(best') /\ RecordsOK(records') /\ \A w \in Workers : RunOK(run'[w], pc'[w])
    BY <1>0 DEF Inv
<1> QED
    BY <1>2, <1>3, <1>4, <1>5 DEF Inv

\* Save keeps the invariant.
LEMMA SaveInv == ASSUME Inv, Save PROVE Inv'
<1>0. /\ phase = "save" /\ phase' = "done" /\ file' = Persisted(corpus)
      /\ UNCHANGED <<best, runs, stop, timed_out, corpus, covered, records, pc, budget, best_known, run, shrunk>>
    BY DEF Save, shared, local
<1>1. \A w \in Workers : pc[w] = "done"
    BY <1>0 DEF Inv, PhaseOK
<1>2. Typed'
    BY <1>0 DEF Inv, Typed
<1>3. CorpusOK(corpus', phase')
    BY <1>0 DEF Inv, CorpusOK
<1>4. PhaseOK'
    BY <1>0, <1>1 DEF PhaseOK
<1>5. FileOK(file')
    BY <1>0, PersistedIs DEF Inv
<1>6. BestOK(best') /\ RecordsOK(records') /\ \A w \in Workers : RunOK(run'[w], pc'[w])
    BY <1>0 DEF Inv
<1> QED
    BY <1>2, <1>3, <1>4, <1>5, <1>6 DEF Inv

\* What the next campaign makes of the file: an exact corpus, with a sequence
\* as good as any the file holds.
LEMMA HandedOver ==
    ASSUME PlainHarness, NEW saved, FileOK(saved)
    PROVE  /\ CorpusOK(Replayed(Loaded(saved)).corpus, "fuzz")
           /\ \A v \in Nat : Holds(saved, v) => Holds(Replayed(Loaded(saved)).corpus, v)
<1> DEFINE l == Loaded(saved)
           c == Replayed(l).corpus
<1>1. IsList(saved) /\ \A i \in DOMAIN saved : Promised(saved[i])
    BY DEF FileOK
<1>2. /\ Entries(l) /\ \A i \in DOMAIN l : Promised(l[i])
      /\ \A i \in DOMAIN saved : Holds(l, saved[i].value)
    BY <1>1, LoadedIs
<1> HIDE DEF l
<1>3. /\ Entries(c) /\ Len(c) <= MaxEntries
      /\ \A i \in DOMAIN c : Exact(c[i])
      /\ \A i \in DOMAIN l : Holds(c, l[i].value)
    BY <1>2, ReplayedIs DEF Entries
<1> HIDE DEF c
<1>4. CorpusOK(c, "fuzz")
    BY <1>3 DEF CorpusOK, Exact
<1>5. ASSUME NEW v \in Nat, Holds(saved, v) PROVE Holds(c, v)
    <2>1. PICK i \in DOMAIN saved : saved[i].value >= v
        BY <1>5 DEF Holds
    <2>2. PICK j \in DOMAIN l : l[j].value >= saved[i].value
        BY <1>2 DEF Holds
    <2>3. PICK k \in DOMAIN c : c[k].value >= l[j].value
        BY <1>3 DEF Holds
    <2>4. saved[i].value \in Nat /\ l[j].value \in Nat /\ c[k].value \in Nat
        BY <1>1, <1>2, <1>3 DEF Promised, Exact, Coherent
    <2>5. c[k].value >= v
        BY <2>1, <2>2, <2>3, <2>4
    <2> QED
        BY <2>5 DEF Holds
<1> QED
    BY <1>4, <1>5 DEF c, l

\* NextCampaign starts in a consistent state again.
LEMMA NextCampaignInv == ASSUME PlainHarness, Measurable, Inv, NextCampaign PROVE Inv'
<1> DEFINE c == Replayed(Loaded(file)).corpus
<1>0. /\ corpus' = c /\ best' = SeedBest(c) /\ pc' = FirstPc(SeedBest(c))
      /\ runs' = 0 /\ stop' = FALSE /\ timed_out' = FALSE
      /\ records' = [k \in {} |-> 0]
      /\ budget' = [w \in Workers |-> SplitRuns(w)]
      /\ best_known' = [w \in Workers |-> Initial]
      /\ run' = [w \in Workers |-> NoRun]
      /\ phase' = FirstPhase /\ shrunk' = <<>> /\ file' = file
    BY DEF NextCampaign
<1>1. CorpusOK(c, "fuzz")
    BY HandedOver DEF Inv
<1> HIDE DEF c
<1>2. phase' = "fuzz" /\ pc' \in [Workers -> {"done", "check"}] /\ \A w \in Workers : RunOK(NoRun, pc'[w])
    BY <1>0, StartsOK
<1>3. <<>> \in Seq(Handlers)
    OBVIOUS
<1>4. Typed'
    <2>1. pc' \in [Workers -> Labels] /\ best_known' \in [Workers -> Nat]
        BY <1>0, <1>2 DEF Labels, Measurable
    <2> QED
        BY <1>0, <1>2, <1>3, <2>1, ShareIsNatural DEF Typed
<1>5. BestOK(best')
    BY <1>0, <1>1, SeedIs
<1>6. CorpusOK(corpus', phase') /\ FileOK(file') /\ RecordsOK(records')
    BY <1>0, <1>1, <1>2, NothingIsOK DEF Inv
<1>7. \A w \in Workers : RunOK(run'[w], pc'[w])
    BY <1>0, <1>2
<1>8. PhaseOK'
    BY <1>2 DEF PhaseOK
<1> QED
    BY <1>4, <1>5, <1>6, <1>7, <1>8 DEF Inv

\* Every step keeps the invariant.
LEMMA NextInv == ASSUME PlainHarness, Measurable, Inv, [Next]_vars PROVE Inv'
<1>1. ASSUME NEW w \in Workers, WorkerStep(w) PROVE Inv'
    BY <1>1, CheckInv, PickInv, ExecCallInv, ExecFaultInv, ObserveInv, ConsiderInv, ReachTargetInv,
       KeepInv DEF WorkerStep
<1>2. CASE MainStep
    BY <1>2, JoinInv, ShrinkInv, MainFaultInv, KeepShrunkInv, SaveInv DEF MainStep
<1>3. CASE NextCampaign
    BY <1>3, NextCampaignInv
<1>4. ASSUME UNCHANGED <<best, runs, stop, corpus, covered, records, local, main>>, timed_out' \in BOOLEAN
      PROVE  Inv'
    <2>1. UNCHANGED <<pc, budget, best_known, run, phase, shrunk, file>>
        BY <1>4 DEF local, main
    <2>2. Typed' /\ PhaseOK'
        BY <1>4, <2>1 DEF Inv, Typed, PhaseOK
    <2> QED
        BY <1>4, <2>1, <2>2 DEF Inv
<1>5. CASE Timeout
    BY <1>4, <1>5 DEF Timeout
<1>6. CASE UNCHANGED vars
    BY <1>4, <1>6 DEF vars, shared, Inv, Typed
<1> QED
    BY <1>1, <1>2, <1>3, <1>5, <1>6 DEF Next, Finished

-----------------------------------------------------------------------------
(* The result is not lost.                                                 *)

\* A worker is about to add a prefix worth v to the corpus.
InHand(at, r, v) ==
    at \in {"stop", "keep"} /\ \E i \in DOMAIN r.prefixes : r.prefixes[i].value >= v

Held ==
    best.calls # <<>> =>
        Holds(corpus, best.value) \/ \E w \in Workers : InHand(pc[w], run[w], best.value)

FileHolds ==
    best.calls # <<>> /\ (phase = "done" \/ (phase = "failed" /\ \E w \in Workers : pc[w] = "failed")) =>
        Holds(file, best.value)

\* A worker's step is its own.
LEMMA WorkerFrame ==
    ASSUME Typed, NEW w \in Workers, WorkerStep(w)
    PROVE  /\ \A u \in Workers \ {w} : pc'[u] = pc[u] /\ run'[u] = run[u]
           /\ pc[w] \in Labels \ {"done", "failed"}
           /\ UNCHANGED <<main, timed_out>>
<1>1. CASE Check(w)
    BY <1>1 DEF Typed, Check, Goto, Labels
<1>2. CASE Pick(w)
    <2>1. \E r : run' = [run EXCEPT ![w] = r]
        BY <1>2 DEF Pick, Reuse, Start
    <2>2. Goto(w, "call") /\ pc[w] = "pick" /\ UNCHANGED <<main, timed_out>>
        BY <1>2 DEF Pick, shared
    <2> QED
        BY <2>1, <2>2 DEF Typed, Goto, Labels
<1>3. CASE ExecCall(w)
    <2>1. \E r : run' = [run EXCEPT ![w] = r]
        BY <1>3 DEF ExecCall
    <2>2. Goto(w, "observe") /\ pc[w] = "call" /\ UNCHANGED <<main, timed_out>>
        BY <1>3 DEF ExecCall
    <2> QED
        BY <2>1, <2>2 DEF Typed, Goto, Labels
<1>4. CASE ExecFault(w)
    <2>1. \E r : run' = [run EXCEPT ![w] = r]
        BY <1>4 DEF ExecFault
    <2>2. Goto(w, "failed") /\ pc[w] = "call" /\ UNCHANGED <<main, timed_out>>
        BY <1>4 DEF ExecFault, shared
    <2> QED
        BY <2>1, <2>2 DEF Typed, Goto, Labels
<1>5. CASE Observe(w)
    <2>1. \E r : run' = [run EXCEPT ![w] = r]
        BY <1>5 DEF Observe
    <2>2. (\E label : Goto(w, label)) /\ pc[w] = "observe" /\ UNCHANGED <<main, timed_out>>
        BY <1>5 DEF Observe
    <2> QED
        BY <2>1, <2>2 DEF Typed, Goto, Labels
<1>6. CASE Consider(w)
    <2>1. \E r : run' = [run EXCEPT ![w] = r]
        BY <1>6 DEF Consider
    <2>2. (\E label : Goto(w, label)) /\ pc[w] = "consider" /\ UNCHANGED <<main, timed_out>>
        BY <1>6 DEF Consider
    <2> QED
        BY <2>1, <2>2 DEF Typed, Goto, Labels
<1>7. CASE ReachTarget(w)
    BY <1>7 DEF Typed, ReachTarget, Goto, Labels
<1>8. CASE Keep(w)
    <2>1. \E r : run' = [run EXCEPT ![w] = r]
        BY <1>8 DEF Keep
    <2>2. (\E label : Goto(w, label)) \/ pc' = pc
        BY <1>8 DEF Keep
    <2>3. pc[w] = "keep" /\ UNCHANGED <<main, timed_out>>
        BY <1>8 DEF Keep
    <2> QED
        BY <2>1, <2>2, <2>3 DEF Typed, Goto, Labels
<1> QED
    BY <1>1, <1>2, <1>3, <1>4, <1>5, <1>6, <1>7, <1>8 DEF WorkerStep

\* Most steps change neither the best nor the corpus and are not taken by a
\* worker that has something in hand.
LEMMA BestStays ==
    ASSUME NEW w \in Workers,
           \/ Check(w) \/ Pick(w) \/ ExecCall(w) \/ ExecFault(w) \/ Observe(w)
    PROVE  UNCHANGED <<best, corpus, stop>> /\ pc[w] \notin {"stop", "keep"}
BY DEF Check, Pick, ExecCall, ExecFault, Observe, shared

\* A worker that replaces the best has it in hand until the corpus has it.
LEMMA WorkerHeld == ASSUME Inv, Held, NEW w \in Workers, WorkerStep(w) PROVE Held'
<1>0. Typed /\ BestOK(best) /\ RunOK(run[w], pc[w])
    BY DEF Inv
<1>1. /\ \A u \in Workers \ {w} : pc'[u] = pc[u] /\ run'[u] = run[u]
      /\ pc[w] \in Labels \ {"done", "failed"}
      /\ UNCHANGED <<main, timed_out>>
    BY <1>0, WorkerFrame
<1>2. ASSUME best' = best, corpus' = corpus, pc[w] \notin {"stop", "keep"} PROVE Held'
    <2> SUFFICES ASSUME best.calls # <<>>, ~Holds(corpus, best.value)
                 PROVE  \E u \in Workers : InHand(pc'[u], run'[u], best.value)
        BY <1>2 DEF Held
    <2>1. PICK u \in Workers : InHand(pc[u], run[u], best.value)
        BY DEF Held
    <2>2. u # w
        BY <1>2, <2>1 DEF InHand
    <2> QED
        BY <1>1, <2>1, <2>2
<1>3. CASE Check(w) \/ Pick(w) \/ ExecCall(w) \/ ExecFault(w) \/ Observe(w)
    BY <1>2, <1>3, BestStays
<1>4. CASE Consider(w)
    <2> DEFINE r == run[w]
               p == Last(r.prefixes)
               improved == p.measured /\ Improves(best, p)
               ps == Kept(r.prefixes, improved)
               label == IF improved /\ ReachedBy(p.value) THEN "stop" ELSE "keep"
    <2>1. /\ best' = IF improved THEN [value |-> p.value, calls |-> p.calls, chain |-> p.chain] ELSE best
          /\ run' = [run EXCEPT ![w] = [r EXCEPT !.prefixes = ps]]
          /\ Goto(w, label) /\ pc[w] = "consider" /\ corpus' = corpus
        BY <1>4 DEF Consider
    <2>2. CASE ~improved
        BY <1>2, <2>1, <2>2
    <2>3. CASE improved
        <3>1. IsList(r.prefixes) /\ r.prefixes # <<>> /\ RunOK(r, "consider")
            BY <1>0, <2>1 DEF RunOK
        <3>2. p = r.prefixes[Len(r.prefixes)] /\ Len(r.prefixes) \in DOMAIN r.prefixes
            BY <3>1, ListEnds
        <3>3. PICK i \in DOMAIN ps : ps[i] = p
            <4>1. r.prefixes[Len(r.prefixes)].measured
                BY <2>3, <3>2
            <4>2. improved = TRUE
                BY <2>3
            <4>3. ps = Kept(r.prefixes, TRUE)
                BY <4>2
            <4> HIDE DEF ps, p
            <4> QED
                BY <3>1, <3>2, <4>1, <4>3, AllKept
        <3>4. p.value \in Nat
            BY <3>1, <3>2 DEF RunOK, PrefixOK
        <3> HIDE DEF p, ps
        <3>5. run'[w] = [r EXCEPT !.prefixes = ps]
            BY <1>0, <2>1 DEF Typed
        <3>6. run'[w].prefixes = ps
            <4>1. [r EXCEPT !.prefixes = ps] = [calls |-> r.calls, pending |-> r.pending, chain |-> r.chain,
                                                prev |-> r.prev, prefixes |-> ps]
                BY <3>1, RunUpdated
            <4> QED
                BY <3>5, <4>1
        <3>7. pc'[w] \in {"stop", "keep"}
            BY <1>0, <2>1 DEF Typed, Goto
        <3>8. best'.value = p.value
            BY <2>1, <2>3
        <3>9. ps[i].value >= best'.value
            BY <3>3, <3>4, <3>8
        <3>10. InHand(pc'[w], run'[w], best'.value)
            BY <3>6, <3>7, <3>9 DEF InHand
        <3> QED
            BY <3>10 DEF Held
    <2> QED
        BY <2>2, <2>3
<1>5. CASE ReachTarget(w)
    <2>1. best' = best /\ corpus' = corpus /\ run' = run /\ pc'[w] = "keep" /\ pc[w] = "stop"
        BY <1>0, <1>5 DEF ReachTarget, Goto, Typed
    <2> SUFFICES ASSUME best.calls # <<>>, ~Holds(corpus, best.value)
                 PROVE  \E u \in Workers : InHand(pc'[u], run'[u], best.value)
        BY <2>1 DEF Held
    <2>2. PICK u \in Workers : InHand(pc[u], run[u], best.value)
        BY DEF Held
    <2> QED
        BY <1>1, <2>1, <2>2 DEF InHand
<1>6. CASE Keep(w)
    <2> DEFINE r == run[w]
               ps == r.prefixes
    <2>0. RunOK(r, "keep") /\ pc[w] = "keep" /\ best' = best /\ CorpusOK(corpus, "fuzz") /\ best.value \in Nat
        BY <1>0, <1>6 DEF Keep, Inv, PhaseOK, BestOK
    <2>1. IsList(ps) /\ \A i \in DOMAIN ps : PrefixOK(ps[i]) /\ ps[i].measured
        BY <2>0 DEF RunOK
    <2> SUFFICES ASSUME best.calls # <<>>
                 PROVE  Holds(corpus', best.value) \/ \E u \in Workers : InHand(pc'[u], run'[u], best.value)
        BY <2>0 DEF Held
    <2>2. CASE ps = <<>>
        <3>1. corpus' = corpus
            BY <1>6, <2>2 DEF Keep
        <3>2. ~InHand(pc[w], run[w], best.value)
            BY <2>2 DEF InHand
        <3> QED
            BY <1>1, <3>1, <3>2 DEF Held
    <2>3. CASE ps # <<>>
        <3>1. /\ corpus' = Added(corpus, EntryOf(Head(ps)))
              /\ run' = [run EXCEPT ![w] = [r EXCEPT !.prefixes = Tail(ps)]] /\ pc' = pc
            BY <1>6, <2>3 DEF Keep
        <3>2. /\ Len(ps) \in Nat \ {0} /\ DOMAIN ps = 1 .. Len(ps) /\ Head(ps) = ps[1]
              /\ DOMAIN Tail(ps) = 1 .. Len(ps) - 1
              /\ \A i \in 1 .. Len(ps) - 1 : Tail(ps)[i] = ps[i + 1]
            BY <2>1, <2>3, ListEnds
        <3>3. run'[w].prefixes = Tail(ps)
            <4>1. run'[w] = [r EXCEPT !.prefixes = Tail(ps)]
                BY <1>0, <3>1 DEF Typed
            <4>2. [r EXCEPT !.prefixes = Tail(ps)] =
                     [calls |-> r.calls, pending |-> r.pending, chain |-> r.chain,
                      prev |-> r.prev, prefixes |-> Tail(ps)]
                BY <2>0, RunUpdated
            <4> QED
                BY <4>1, <4>2
        <3>4. \A v \in Nat : Holds(corpus, v) \/ Head(ps).value >= v => Holds(corpus', v)
            <4>1. PrefixOK(Head(ps)) /\ Head(ps).measured
                BY <2>1, <3>2
            <4>2. LET e == EntryOf(Head(ps)) IN Exact(e) /\ Coherent(e) /\ Weighed(e) /\ e.value = Head(ps).value
                BY <4>1, EntryOfPrefix DEF Exact
            <4> QED
                BY <2>0, <3>1, <4>2, AddedIsOK
        <3>5. CASE Holds(corpus, best.value)
            BY <2>0, <3>4, <3>5
        <3>6. ASSUME NEW u \in Workers \ {w}, InHand(pc[u], run[u], best.value)
              PROVE  InHand(pc'[u], run'[u], best.value)
            BY <1>1, <3>6
        <3>7. ASSUME InHand(pc[w], run[w], best.value)
              PROVE  Holds(corpus', best.value) \/ InHand(pc'[w], run'[w], best.value)
            <4>1. PICK i \in DOMAIN ps : ps[i].value >= best.value
                BY <3>7 DEF InHand
            <4>2. CASE i = 1
                BY <2>0, <3>2, <3>4, <4>1, <4>2
            <4>3. CASE i # 1
                <5>1. i - 1 \in DOMAIN Tail(ps) /\ (i - 1) + 1 = i
                    BY <3>2, <4>3
                <5>2. Tail(ps)[i - 1] = ps[i]
                    BY <3>2, <5>1
                <5>3. \E j \in DOMAIN Tail(ps) : Tail(ps)[j].value >= best.value
                    BY <4>1, <5>1, <5>2
                <5> QED
                    BY <2>0, <3>1, <3>3, <5>3 DEF InHand
            <4> QED
                BY <4>2, <4>3
        <3> QED
            BY <3>5, <3>6, <3>7 DEF Held
    <2> QED
        BY <2>2, <2>3
<1> QED
    BY <1>3, <1>4, <1>5, <1>6 DEF WorkerStep

\* Once every worker is done, only the corpus can hold the best.
LEMMA JoinedHolds ==
    ASSUME Held, best.calls # <<>>, \A w \in Workers : pc[w] \in {"done", "failed"}
    PROVE  Holds(corpus, best.value)
BY DEF Held, InHand

\* Every step keeps the best in the corpus or in hand, and a saved file has it.
LEMMA NextHeld ==
    ASSUME PlainHarness, Measurable, Inv, Held, FileHolds, [Next]_vars
    PROVE  Held' /\ FileHolds'
<1>0. Typed /\ PhaseOK /\ BestOK(best) /\ best.value \in Nat
    BY DEF Inv, BestOK
<1>1. ASSUME NEW w \in Workers, WorkerStep(w) PROVE Held' /\ FileHolds'
    <2>1. phase' = "fuzz"
        BY <1>0, <1>1, WorkerFrame DEF PhaseOK, main
    <2> QED
        BY <1>1, <2>1, WorkerHeld DEF FileHolds
<1>2. ASSUME UNCHANGED <<best, corpus, pc, run>> PROVE Held'
    BY <1>2 DEF Held
<1>3. CASE Join
    <2>1. UNCHANGED <<best, corpus, pc, run>> /\ \A w \in Workers : pc[w] \in {"done", "failed"}
        BY <1>3 DEF Join, shared, local
    <2>2. (phase' = "failed" /\ file' = Persisted(corpus)) \/ phase' \in {"save", "shrink"}
        BY <1>3 DEF Join
    <2>3. best.calls # <<>> => Holds(Persisted(corpus), best.value)
        BY <2>1, JoinedHolds, PersistedIs DEF Inv
    <2> QED
        BY <1>2, <2>1, <2>2, <2>3 DEF FileHolds
<1>4. CASE Shrink
    BY <1>2, <1>4 DEF Shrink, shared, local, FileHolds
<1>5. CASE MainFault
    <2>1. \A w \in Workers : pc[w] # "failed"
        BY <1>0, <1>5 DEF MainFault, PhaseOK
    <2>2. UNCHANGED <<best, corpus, pc, run>> /\ phase' = "failed"
        BY <1>5 DEF MainFault, shared, local
    <2> QED
        BY <1>2, <2>1, <2>2 DEF FileHolds
<1>6. CASE KeepShrunk
    <2>1. UNCHANGED <<best, pc, run>> /\ phase' = "save" /\ phase = "keep"
        BY <1>6 DEF KeepShrunk, local
    <2>2. \A v \in Nat : Holds(corpus, v) => Holds(corpus', v)
        BY <1>6, KeepShrunkAdds
    <2>3. best.calls # <<>> => Holds(corpus, best.value)
        BY <1>0, <2>1, JoinedHolds DEF PhaseOK
    <2> QED
        BY <1>0, <2>1, <2>2, <2>3 DEF Held, FileHolds
<1>7. CASE Save
    <2>1. UNCHANGED <<best, corpus, pc, run>> /\ phase = "save" /\ file' = Persisted(corpus)
        BY <1>7 DEF Save, shared, local
    <2>2. best.calls # <<>> => Holds(Persisted(corpus), best.value)
        BY <1>0, <2>1, JoinedHolds, PersistedIs DEF Inv, PhaseOK
    <2> QED
        BY <1>2, <2>1, <2>2 DEF FileHolds
<1>8. CASE NextCampaign
    <2> DEFINE c == Replayed(Loaded(file)).corpus
    <2>1. corpus' = c /\ best' = SeedBest(c) /\ phase' = "fuzz"
        BY <1>8, StartsOK DEF NextCampaign
    <2>2. CorpusOK(c, "fuzz")
        BY HandedOver DEF Inv
    <2> HIDE DEF c
    <2> QED
        BY <2>1, <2>2, SeedIs DEF Held, FileHolds
<1>9. CASE Timeout \/ UNCHANGED vars
    <2>1. UNCHANGED <<best, corpus, pc, run, phase, file>>
        BY <1>9 DEF Timeout, vars, shared, local, main
    <2> QED
        BY <1>2, <2>1 DEF FileHolds
<1> QED
    BY <1>1, <1>3, <1>4, <1>5, <1>6, <1>7, <1>8, <1>9 DEF Next, MainStep, Finished

-----------------------------------------------------------------------------
(* Stopping for the target.                                                *)

Asked ==
    /\ stop \/ (\E w \in Workers : pc[w] = "stop") => ReachedBy(best.value)
    /\ phase = "fuzz" /\ ReachedBy(best.value) =>
          \/ stop \/ \E w \in Workers : pc[w] = "stop"
          \/ runs = 0 /\ \A w \in Workers : pc[w] = "done"

\* A campaign that meets the target from the start does not fuzz.
LEMMA StartAsked ==
    ASSUME NEW b, FirstPhase = "fuzz"
    PROVE  /\ \A w \in Workers : FirstPc(b)[w] # "stop"
           /\ ReachedBy(b.value) => \A w \in Workers : FirstPc(b)[w] = "done"
BY DEF FirstPc

\* A worker's step asks to stop when, and only when, the target is reached.
LEMMA WorkerAsked == ASSUME Inv, Asked, NEW w \in Workers, WorkerStep(w) PROVE Asked'
<1>0. Typed /\ BestOK(best) /\ RunOK(run[w], pc[w])
    BY DEF Inv
<1>1. /\ \A u \in Workers \ {w} : pc'[u] = pc[u]
      /\ pc[w] # "done" /\ phase' = phase
    BY <1>0, WorkerFrame DEF main
<1>2. ASSUME best' = best, stop' = stop, pc[w] # "stop", pc'[w] # "stop" PROVE Asked'
    BY <1>1, <1>2 DEF Asked
<1>3. CASE Check(w) \/ Pick(w) \/ ExecCall(w) \/ ExecFault(w) \/ Observe(w)
    <2>1. pc'[w] # "stop"
        BY <1>0, <1>3 DEF Typed, Check, Pick, ExecCall, ExecFault, Observe, Goto
    <2> QED
        BY <1>2, <1>3, <2>1, BestStays
<1>4. CASE Consider(w)
    <2> DEFINE p == Last(run[w].prefixes)
               improved == p.measured /\ Improves(best, p)
               label == IF improved /\ ReachedBy(p.value) THEN "stop" ELSE "keep"
    <2>1. /\ best' = IF improved THEN [value |-> p.value, calls |-> p.calls, chain |-> p.chain] ELSE best
          /\ Goto(w, label) /\ pc[w] = "consider" /\ stop' = stop
        BY <1>4 DEF Consider
    <2>2. pc'[w] = label
        BY <1>0, <2>1 DEF Typed, Goto
    <2>3. CASE ~improved
        BY <1>2, <2>1, <2>2, <2>3
    <2>4. CASE improved
        <3>1. IsList(run[w].prefixes) /\ run[w].prefixes # <<>>
            BY <1>0, <2>1 DEF RunOK
        <3>2. p = run[w].prefixes[Len(run[w].prefixes)] /\ Len(run[w].prefixes) \in DOMAIN run[w].prefixes
            BY <3>1, ListEnds
        <3>3. p.value \in Nat /\ best.value \in Nat
            BY <1>0, <3>2 DEF RunOK, PrefixOK, BestOK
        <3> HIDE DEF p
        <3>4. p.value >= best.value
            BY <2>4, <3>3 DEF Improves
        <3>5. best'.value = p.value
            BY <2>1, <2>4
        <3>6. ReachedBy(best.value) => ReachedBy(best'.value)
            BY <3>3, <3>4, <3>5, CampaignAssumption DEF ReachedBy
        <3>7. CASE ReachedBy(p.value)
            <4>1. pc'[w] = "stop"
                BY <2>2, <2>4, <3>7
            <4> QED
                BY <3>5, <3>7, <4>1 DEF Asked
        <3>8. CASE ~ReachedBy(p.value)
            <4>1. ~ReachedBy(best.value)
                BY <3>5, <3>6, <3>8
            <4>2. ~stop /\ \A u \in Workers : pc[u] # "stop"
                BY <4>1 DEF Asked
            <4>3. pc'[w] = "keep"
                BY <2>2, <3>8
            <4> QED
                BY <1>1, <2>1, <3>5, <3>8, <4>2, <4>3 DEF Asked
        <3> QED
            BY <3>7, <3>8
    <2> QED
        BY <2>3, <2>4
<1>5. CASE ReachTarget(w)
    <2>1. stop' = TRUE /\ best' = best /\ pc[w] = "stop"
        BY <1>5 DEF ReachTarget
    <2> QED
        BY <2>1 DEF Asked
<1>6. CASE Keep(w)
    <2>1. pc'[w] # "stop" /\ best' = best /\ stop' = stop /\ pc[w] = "keep"
        BY <1>0, <1>6 DEF Keep, Goto, Typed
    <2> QED
        BY <1>2, <2>1
<1> QED
    BY <1>3, <1>4, <1>5, <1>6 DEF WorkerStep

\* So does every step.
LEMMA NextAsked ==
    ASSUME Measurable, Inv, Asked, [Next]_vars PROVE Asked'
<1>1. ASSUME NEW w \in Workers, WorkerStep(w) PROVE Asked'
    BY <1>1, WorkerAsked
<1>2. CASE MainStep
    <2>1. UNCHANGED <<best, stop, pc>> /\ phase' # "fuzz"
        BY <1>2 DEF MainStep, Join, Shrink, MainFault, KeepShrunk, Save, shared, local
    <2> QED
        BY <2>1 DEF Asked
<1>3. CASE NextCampaign
    <2>1. pc' = FirstPc(best') /\ stop' = FALSE /\ runs' = 0 /\ FirstPhase = "fuzz"
        BY <1>3, StartsOK DEF NextCampaign
    <2> QED
        BY <2>1, StartAsked DEF Asked
<1>4. CASE Timeout \/ UNCHANGED vars
    <2>1. UNCHANGED <<best, stop, pc, phase, runs>>
        BY <1>4 DEF Timeout, vars, shared, local, main
    <2> QED
        BY <2>1 DEF Asked
<1> QED
    BY <1>1, <1>2, <1>3, <1>4 DEF Next, Finished

-----------------------------------------------------------------------------
(* The run budget.                                                         *)

Left == SumTo(budget, Cardinality(Workers))

Accounted == runs + Left = MaxRuns

\* split_runs hands out exactly the budget.
LEMMA SharesAddUp ==
    ASSUME NEW shares, shares = [w \in Workers |-> SplitRuns(w)]
    PROVE  SumTo(shares, Cardinality(Workers)) = MaxRuns
<1> DEFINE n == Cardinality(Workers)
           q == MaxRuns \div n
           r == MaxRuns % n
<1>1. n \in Nat \ {0} /\ Workers = 0 .. n - 1 /\ MaxRuns \in Nat
    BY CampaignAssumption
<1>2. shares = [w \in 0 .. n - 1 |-> q + (IF w < r THEN 1 ELSE 0)]
    BY <1>1 DEF SplitRuns
<1> HIDE DEF n
<1>3. q \in Nat /\ r \in 0 .. n - 1 /\ MaxRuns = n * q + r
    BY <1>1
<1> HIDE DEF q, r
<1>4. shares \in [0 .. n - 1 -> Nat] /\ r \in 0 .. n /\ n \in Nat
    BY <1>1, <1>2, <1>3
<1>5. \A w \in 0 .. n - 1 : shares[w] = q + (IF w < r THEN 1 ELSE 0)
    BY <1>2
<1>6. SumTo(shares, n) = n * q + r
    BY <1>3, <1>4, <1>5, SumOfShares
<1> QED
    BY <1>3, <1>6 DEF n

\* A campaign starts with the whole budget.
LEMMA StartAccounted ==
    ASSUME NEW shares, shares = [w \in Workers |-> SplitRuns(w)]
    PROVE  0 + SumTo(shares, Cardinality(Workers)) = MaxRuns
BY SharesAddUp, CampaignAssumption

\* A run is counted when it is taken from a worker's share.
LEMMA NextAccounted == ASSUME Inv, Accounted, [Next]_vars PROVE Accounted'
<1>0. budget \in [Workers -> Nat] /\ runs \in Nat
    BY DEF Inv, Typed
<1>1. CASE UNCHANGED <<runs, budget>>
    BY <1>1 DEF Accounted, Left
<1>2. ASSUME NEW w \in Workers, budget[w] > 0, runs' = runs + 1, budget' = [budget EXCEPT ![w] = @ - 1]
      PROVE  Accounted'
    <2> DEFINE n == Cardinality(Workers)
    <2>1. n \in Nat /\ Workers = 0 .. n - 1
        BY CampaignAssumption
    <2> HIDE DEF n
    <2>2. SumTo(budget', n) = SumTo(budget, n) - 1
        BY <1>0, <1>2, <2>1, SumLowered
    <2>3. SumTo(budget, n) \in Nat
        BY <1>0, <2>1, SumSteps
    <2>4. runs + SumTo(budget, n) = MaxRuns
        BY DEF Accounted, Left, n
    <2>5. runs' + SumTo(budget', n) = MaxRuns
        BY <1>0, <1>2, <2>2, <2>3, <2>4
    <2> QED
        BY <2>5 DEF Accounted, Left, n
<1>3. CASE NextCampaign
    <2>1. runs' = 0 /\ budget' = [w \in Workers |-> SplitRuns(w)]
        BY <1>3 DEF NextCampaign
    <2> QED
        BY <2>1, StartAccounted DEF Accounted, Left
<1>4. \/ UNCHANGED <<runs, budget>> \/ NextCampaign
      \/ \E w \in Workers : budget[w] > 0 /\ runs' = runs + 1 /\ budget' = [budget EXCEPT ![w] = @ - 1]
    <2>1. ASSUME NEW w \in Workers, Check(w)
          PROVE  \/ UNCHANGED <<runs, budget>>
                 \/ budget[w] > 0 /\ runs' = runs + 1 /\ budget' = [budget EXCEPT ![w] = @ - 1]
        BY <2>1 DEF Check
    <2>2. ASSUME NEW w \in Workers, WorkerStep(w), ~Check(w)
          PROVE  UNCHANGED <<runs, budget>>
        BY <2>2 DEF WorkerStep, Pick, ExecCall, ExecFault, Observe, Consider, ReachTarget, Keep, shared
    <2>3. ASSUME MainStep PROVE UNCHANGED <<runs, budget>>
        BY <2>3 DEF MainStep, Join, Shrink, MainFault, KeepShrunk, Save, shared, local
    <2> QED
        BY <2>1, <2>2, <2>3 DEF Next, Timeout, Finished, vars, shared, local
<1> QED
    BY <1>1, <1>2, <1>3, <1>4

\* The runs never exceed the budget.
LEMMA RunsAreBounded == ASSUME Inv, Accounted PROVE runs \in 0 .. MaxRuns
<1> DEFINE n == Cardinality(Workers)
<1>1. budget \in [0 .. n - 1 -> Nat] /\ runs \in Nat /\ n \in Nat /\ MaxRuns \in Nat
    BY CampaignAssumption DEF Inv, Typed
<1> HIDE DEF n
<1>2. SumTo(budget, n) \in Nat
    BY <1>1, SumSteps
<1>3. runs + SumTo(budget, n) = MaxRuns
    BY DEF Accounted, Left, n
<1> QED
    BY <1>1, <1>2, <1>3

-----------------------------------------------------------------------------
(* The command that fails because value() reverts at once.                 *)

Refused ==
    /\ best = [value |-> Initial, calls |-> <<>>, chain |-> NoChain]
    /\ runs = 0 /\ stop = FALSE /\ timed_out = FALSE
    /\ corpus = <<>> /\ file = <<>> /\ shrunk = <<>>
    /\ records = [k \in {} |-> 0]
    /\ pc = [w \in Workers |-> "done"]
    /\ budget = [w \in Workers |-> SplitRuns(w)]
    /\ best_known = [w \in Workers |-> Initial]
    /\ run = [w \in Workers |-> NoRun]
    /\ phase = "failed"

\* No worker starts then.
LEMMA RefusedStart ==
    ASSUME Initial = NoValue, NEW b
    PROVE  FirstPhase = "failed" /\ FirstPc(b) = [w \in Workers |-> "done"]
BY DEF FirstPhase, FirstPc

\* An empty file gives an empty corpus.
LEMMA NothingHandedOver == Replayed(Loaded(<<>>)).corpus = <<>>
<1> DEFINE none == <<>>
<1>1. Len(none) = 0
    OBVIOUS
<1> HIDE DEF none
<1>2. Loaded(none) = <<>>
    BY <1>1, LoadSteps
<1>3. Replayed(none) = NothingReplayed
    BY <1>1, ReplaySteps
<1>4. NothingReplayed.corpus = <<>>
    BY DEF NothingReplayed
<1> QED
    BY <1>2, <1>3, <1>4 DEF none

\* Such a command changes nothing, nor does the next.
LEMMA NextRefused ==
    ASSUME Initial = NoValue, Refused, [Next]_vars PROVE Refused'
<1>1. ASSUME NEW w \in Workers, WorkerStep(w) PROVE FALSE
    <2>1. pc[w] = "done"
        BY DEF Refused
    <2> QED
        BY <1>1, <2>1 DEF WorkerStep, Check, Pick, ExecCall, ExecFault, Observe, Consider, ReachTarget, Keep
<1>2. ~MainStep /\ ~Timeout
    BY DEF Refused, MainStep, Join, Shrink, MainFault, KeepShrunk, Save, Timeout
<1>3. CASE NextCampaign
    <2> DEFINE c == Replayed(Loaded(file)).corpus
    <2>1. /\ corpus' = c /\ best' = SeedBest(c) /\ pc' = FirstPc(SeedBest(c))
          /\ runs' = 0 /\ stop' = FALSE /\ timed_out' = FALSE
          /\ records' = [k \in {} |-> 0]
          /\ budget' = [w \in Workers |-> SplitRuns(w)]
          /\ best_known' = [w \in Workers |-> Initial]
          /\ run' = [w \in Workers |-> NoRun]
          /\ phase' = FirstPhase /\ shrunk' = <<>> /\ file' = file
        BY <1>3 DEF NextCampaign
    <2>2. c = <<>>
        BY NothingHandedOver DEF Refused
    <2> HIDE DEF c
    <2>3. SeedBest(c) = [value |-> Initial, calls |-> <<>>, chain |-> NoChain]
        BY <2>2 DEF SeedBest
    <2>4. file' = <<>> /\ pc' = [w \in Workers |-> "done"] /\ phase' = "failed"
        BY <2>1, RefusedStart DEF Refused
    <2> QED
        BY <2>1, <2>2, <2>3, <2>4 DEF Refused
<1>4. CASE UNCHANGED vars
    BY <1>4 DEF Refused, vars, shared, local, main
<1> QED
    BY <1>1, <1>2, <1>3, <1>4 DEF Next, Finished

\* It keeps the promises, having made none.
LEMMA RefusedIsSound == ASSUME Initial = NoValue, Refused PROVE CampaignSound
<1>1. Len(<<>>) = 0 /\ DOMAIN <<>> = {} /\ <<>> \in Seq(Handlers)
    OBVIOUS
<1>2. TypeOK
    <2>1. best.value \in Values /\ best.calls \in Sequences /\ shrunk \in Sequences
        BY <1>1 DEF Refused, Values, Sequences
    <2>2. runs \in 0 .. MaxRuns /\ stop \in BOOLEAN /\ timed_out \in BOOLEAN
        BY CampaignAssumption DEF Refused
    <2>3. Len(corpus) <= MaxEntries /\ AllMeasured(corpus) /\ AllMeasured(file)
        BY <1>1, MaxEntriesAssumption DEF Refused, AllMeasured
    <2>4. \A k \in DOMAIN records : records[k].min <= records[k].max
        BY DEF Refused
    <2>5. pc \in [Workers -> Labels] /\ budget \in [Workers -> Nat] /\ best_known \in [Workers -> Values]
        BY ShareIsNatural DEF Refused, Labels, Values
    <2>6. \A w \in Workers : Len(run[w].calls) + Len(run[w].pending) <= MaxCalls
        BY <1>1, LimitIsPositive DEF Refused, NoRun
    <2>7. phase \in {"fuzz", "shrink", "keep", "save", "done", "failed"}
        BY DEF Refused
    <2> QED
        BY <2>1, <2>2, <2>3, <2>4, <2>5, <2>6, <2>7 DEF TypeOK, Labels
<1>3. SnapshotCoherent
    BY <1>1 DEF Refused, SnapshotCoherent
<1>4. BestReproduces /\ CorpusHoldsBest
    BY DEF Refused, BestReproduces, CorpusHoldsBest
<1>5. TargetSignalled
    BY DEF Refused, TargetSignalled
<1> QED
    BY <1>2, <1>3, <1>4, <1>5 DEF CampaignSound

-----------------------------------------------------------------------------
(* The theorems.                                                           *)

\* The inductive invariant of max campaigns.
Campaigns ==
    \/ Measurable /\ Inv /\ Held /\ FileHolds /\ Asked /\ Accounted
    \/ Initial = NoValue /\ Refused

\* A first campaign satisfies the invariant.
LEMMA InitCampaigns == ASSUME PlainHarness, Init PROVE Campaigns
<1>1. CASE Initial = NoValue
    <2>1. SeedBest(<<>>) = [value |-> Initial, calls |-> <<>>, chain |-> NoChain]
        BY DEF SeedBest
    <2>2. phase = "failed" /\ pc = [w \in Workers |-> "done"]
        BY <1>1, RefusedStart DEF Init
    <2>3. Refused
        BY <2>1, <2>2 DEF Init, Refused
    <2> QED
        BY <1>1, <2>3 DEF Campaigns
<1>2. CASE Measurable
    <2>1. Inv
        BY <1>2, InitInv
    <2>2. best.calls = <<>>
        BY DEF Init, SeedBest
    <2>3. FirstPhase = "fuzz"
        BY <1>2, StartsOK
    <2>4. Asked
        BY <2>3, StartAsked DEF Init, Asked
    <2>5. Accounted
        BY StartAccounted DEF Init, Accounted, Left
    <2> QED
        BY <1>2, <2>1, <2>2, <2>4, <2>5 DEF Campaigns, Held, FileHolds
<1> QED
    BY <1>1, <1>2 DEF PlainHarness, Measurable, Initial

\* Every step keeps the invariant.
LEMMA NextCampaigns == ASSUME PlainHarness, Campaigns, [Next]_vars PROVE Campaigns'
<1>1. CASE Measurable /\ Inv /\ Held /\ FileHolds /\ Asked /\ Accounted
    BY <1>1, NextInv, NextHeld, NextAsked, NextAccounted DEF Campaigns
<1>2. CASE Initial = NoValue /\ Refused
    BY <1>2, NextRefused DEF Campaigns
<1> QED
    BY <1>1, <1>2 DEF Campaigns

\* Whatever the workers, the deadline and the failures do, the state of a
\* campaign is consistent, and so is what it hands to the next.
THEOREM CampaignInv ==
    ASSUME PlainHarness PROVE Spec => []Campaigns
<1>1. Init => Campaigns
    BY InitCampaigns
<1>2. Campaigns /\ [Next]_vars => Campaigns'
    BY NextCampaigns
<1> QED
    BY <1>1, <1>2, PTL DEF Spec

\* The invariant gives the types,
LEMMA InvGivesType == ASSUME Inv, Accounted PROVE TypeOK
<1>0. Typed /\ BestOK(best) /\ RecordsOK(records)
    BY DEF Inv
<1>1. AllMeasured(corpus) /\ AllMeasured(file) /\ Len(corpus) <= MaxEntries
    BY DEF Inv, CorpusOK, FileOK, Coherent, Promised, AllMeasured, Sequences
<1>2. \A w \in Workers : Len(run[w].calls) + Len(run[w].pending) <= MaxCalls
    BY DEF Inv, RunOK
<1>3. best.value \in Values /\ best.calls \in Sequences /\ shrunk \in Sequences
    BY <1>0 DEF BestOK, Typed, Values, Sequences
<1>4. best_known \in [Workers -> Values]
    BY <1>0 DEF Typed, Values
<1>5. \A k \in DOMAIN records : records[k].min <= records[k].max
    BY <1>0 DEF RecordsOK
<1> QED
    BY <1>0, <1>1, <1>2, <1>3, <1>4, <1>5, RunsAreBounded DEF TypeOK, Typed, Labels

\* the coherence of the snapshots,
LEMMA InvGivesCoherence == ASSUME PlainHarness, Inv PROVE SnapshotCoherent
<1> SUFFICES ASSUME NEW i \in DOMAIN corpus
             PROVE  /\ corpus[i].chain = FuzzedWorld(corpus[i].calls)
                    /\ phase = "fuzz" => corpus[i].value = Measure(corpus[i].chain)
    BY DEF SnapshotCoherent
<1>1. Coherent(corpus[i]) /\ (phase = "fuzz" => Exact(corpus[i]))
    BY DEF Inv, CorpusOK
<1>2. corpus[i].calls \in Seq(Handlers) /\ corpus[i].chain = FuzzedWorld(corpus[i].calls)
    BY <1>1 DEF Coherent, Promised
<1>3. Exec(Genesis, corpus[i].calls).world = corpus[i].chain
    BY <1>2, Replay
<1> QED
    BY <1>1, <1>2, <1>3 DEF Exact, ValueOf

\* and a corpus entry as good as the best.
LEMMA HeldGivesTop == ASSUME Inv, Held PROVE CorpusHoldsBest
<1> SUFFICES ASSUME \A w \in Workers : pc[w] \notin {"stop", "keep"}, best.calls # <<>>
             PROVE  TopValue(corpus) >= best.value
    BY DEF CorpusHoldsBest
<1>1. PICK i \in DOMAIN corpus : corpus[i].value >= best.value
    BY DEF Held, InHand, Holds
<1>2. Entries(corpus) /\ best.value \in Nat
    BY DEF Inv, CorpusOK, BestOK
<1>3. corpus[i].value \in Nat /\ TopValue(corpus) \in Nat /\ corpus[i].value <= TopValue(corpus)
    BY <1>2, TopIs DEF Entries, Weighed
<1> QED
    BY <1>1, <1>2, <1>3

\* A max campaign keeps its promises (CampaignSound): memoized snapshots are
\* the states of their sequences and carry their values, the best sequence
\* reproduces, the corpus holds a sequence as good, fuzzing stops for the
\* target value only, and the run budget is never exceeded.
THEOREM CampaignIsSound ==
    ASSUME PlainHarness PROVE Spec => []CampaignSound
<1>1. ASSUME Measurable, Inv, Held, Asked, Accounted PROVE CampaignSound
    <2>1. TypeOK /\ SnapshotCoherent /\ CorpusHoldsBest
        BY <1>1, InvGivesType, InvGivesCoherence, HeldGivesTop
    <2>2. BestReproduces
        BY <1>1 DEF Inv, BestOK, BestReproduces
    <2>3. TargetSignalled
        BY <1>1 DEF Asked, TargetSignalled
    <2> QED
        BY <2>1, <2>2, <2>3 DEF CampaignSound
<1>2. Campaigns => CampaignSound
    BY <1>1, RefusedIsSound DEF Campaigns
<1> QED
    BY <1>2, CampaignInv, PTL

\* The next campaign's best is at least the best that was saved.
LEMMA BestIsHandedOver ==
    ASSUME PlainHarness, Campaigns, NextCampaign, best.calls # <<>>,
           phase = "done" \/ \E w \in Workers : pc[w] = "failed"
    PROVE  best'.value >= best.value
<1>1. Measurable /\ Inv /\ FileHolds
    BY DEF Campaigns, Refused
<1> DEFINE c == Replayed(Loaded(file)).corpus
<1>2. best' = SeedBest(c) /\ phase \in {"done", "failed"}
    BY DEF NextCampaign
<1>3. Holds(file, best.value) /\ best.value \in Nat
    BY <1>1, <1>2 DEF FileHolds, Inv, BestOK
<1>4. CorpusOK(c, "fuzz") /\ Holds(c, best.value)
    BY <1>1, <1>3, HandedOver DEF Inv
<1> HIDE DEF c
<1>5. SeedBest(c).value >= best.value
    BY <1>1, <1>3, <1>4, SeedIs
<1> QED
    BY <1>2, <1>5

\* Only NextCampaign counts campaigns.
LEMMA OnlyNextCampaign ==
    ASSUME [Next]_vars, campaign' # campaign PROVE NextCampaign
<1>1. ASSUME NEW w \in Workers, WorkerStep(w) PROVE campaign' = campaign
    BY <1>1 DEF WorkerStep, Check, Pick, ExecCall, ExecFault, Observe, Consider, ReachTarget, Keep, main
<1>2. MainStep => campaign' = campaign
    BY DEF MainStep, Join, Shrink, MainFault, KeepShrunk, Save
<1> QED
    BY <1>1, <1>2 DEF Next, Timeout, Finished, vars, main

\* The next campaign starts from a value at least as high as the one the last
\* campaign found (BestSurvives), even if a worker failed, whatever the corpus
\* evicted while fuzzing, loading and replaying.
THEOREM TheBestSurvives ==
    ASSUME PlainHarness PROVE Spec => BestSurvives
<1>1. Campaigns /\ [Next]_vars =>
         [/\ campaign' # campaign
          /\ best.calls # <<>>
          /\ phase = "done" \/ \E w \in Workers : pc[w] = "failed"
          => best'.value >= best.value]_vars
    BY OnlyNextCampaign, BestIsHandedOver
<1> QED
    BY <1>1, CampaignInv, PTL DEF Spec, BestSurvives
=============================================================================
