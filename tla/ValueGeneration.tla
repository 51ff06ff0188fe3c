-------------------------- MODULE ValueGeneration ---------------------------
(***************************************************************************)
(* The arguments of fuzzed calls: the literals of the harness sources      *)
(* (src/tester/corpus/literal.rs), the values `ripfuzz test` draws from    *)
(* them (src/tester/corpus/rvg.rs) and those of `ripfuzz max`              *)
(* (src/maxer/call.rs).                                                    *)
(*                                                                         *)
(* The word is scaled down: ByteBits and WordBytes are 8 and 32 in the     *)
(* code.  Pools are sets, since how often a literal is in one only changes *)
(* how likely it is drawn; a draw is any outcome the random numbers allow. *)
(* Arrays and tuples repeat the draw of their elements, and any text or    *)
(* byte string is a legal argument: of these only the literals are kept.   *)
(*                                                                         *)
(* A literal is [kind, path, ...]: path is the way to it from the source   *)
(* unit, a sequence of [node, part]; a number has whole, frac, fracLen,    *)
(* exp and factor (0: no subdenomination), a string its bytes.             *)
(***************************************************************************)
EXTENDS Integers, Sequences, FiniteSets, SequencesExt, FiniteSetsExt

CONSTANTS
    ByteBits, WordBytes, AddressLength,
    Radix,          \* ten
    Large           \* 10_000_000_000_000_000_000

VARIABLES
    literals,        \* the literals of the compiled sources
    pools,          \* LiteralExtractor
    drawn           \* the last argument generated

valueVars == <<literals, pools, drawn>>

WordBits == ByteBits * WordBytes
Modulus == 2^WordBits
Unknown == -1       \* a literal that is not understood
NoExp == -100
NoDraw == [by |-> "nobody"]
-----------------------------------------------------------------------------
(* literal.rs: the walk over the AST *)

\* What the visitors descend into; a node that is not listed is skipped.
VisitedParts ==
    [SourceUnit |-> {"contract", "function", "variable"}, Contract |-> {"function", "variable"},
     Function |-> {"body"}, Variable |-> {"value"}, Block |-> {"statement"},
     UncheckedBlock |-> {"statement"}, ExpressionStatement |-> {"expression"},
     Return |-> {"expression"}, If |-> {"condition", "true_body", "false_body"},
     For |-> {"initialization", "condition", "loop", "body"}, While |-> {"condition", "body"},
     DoWhile |-> {"condition", "body"}, VariableStatement |-> {"initial_value"}, Emit |-> {"call"}]
VisitedOperands ==
    [Assignment |-> {"left", "right"}, BinaryOperation |-> {"left", "right"},
     Conditional |-> {"condition", "true", "false"}, IndexAccess |-> {"base", "index"},
     IndexRangeAccess |-> {"base", "start"}, MemberAccess |-> {"expression"},
     Tuple |-> {"component"}, UnaryOperation |-> {"operand"}]
VisitedCallParts ==
    [FunctionCall |-> {"callee", "argument"}, CallOptions |-> {"expression", "option"}]

Descends(step) ==
    \E visits \in {VisitedParts, VisitedOperands, VisitedCallParts} :
        step.node \in DOMAIN visits /\ step.part \in visits[step.node]
Visited(l) == \A step \in Range(l.path) : Descends(step)
-----------------------------------------------------------------------------
(* literal.rs: what a literal adds to the pools *)

Digits(l) == l.whole * Radix^l.fracLen + l.frac

\* apply_subdenomination: the digits must have no exponent.
WithUnit(l) ==
    IF l.exp # NoExp THEN Unknown
    ELSE ((Digits(l) * l.factor) % Modulus) \div Radix^l.fracLen

\* parse_number_literal: scientific notation has no negative exponent, and a
\* fraction is read in scientific notation only.
WithoutUnit(l) ==
    IF l.exp = NoExp THEN (IF l.fracLen > 0 THEN Unknown ELSE l.whole)
    ELSE IF l.exp < 0 THEN Unknown
    ELSE ((Digits(l) * Radix^l.exp) % Modulus) \div Radix^l.fracLen

NumberOf(l) == IF l.factor > 0 THEN WithUnit(l) ELSE WithoutUnit(l)

BitLength(v) == CHOOSE n \in 0..WordBits : v < 2^n /\ \A m \in 0..(n - 1) : v >= 2^m
ByteLength(bits) == Max({1, (bits + ByteBits - 1) \div ByteBits})

\* push_uint, push_int, push_fixed_bytes: every size from the smallest on
UintSizes(v) == ByteLength(BitLength(v))..WordBytes
Magnitude256(i) == IF i < 0 THEN -i ELSE i
\* Mutant of IntSizes: a sign bit for every value.
IntSizes_SignBit(i) ==
    IF i = 0 THEN 1..WordBytes ELSE ByteLength(BitLength(Magnitude256(i)) + 1)..WordBytes
IntSizes(i) ==
    LET bits == BitLength(Magnitude256(i))
    IN  (IF i = 0 THEN 1
         ELSE IF i < 0 /\ Magnitude256(i) = 2^(bits - 1) THEN ByteLength(bits)
         ELSE ByteLength(bits + 1))..WordBytes
FixedSizes(size) == size..WordBytes

BytesOf(v) == [i \in 1..WordBytes |-> (v \div 2^(ByteBits * (WordBytes - i))) % 2^ByteBits]
Number(bytes) == FoldLeft(LAMBDA n, b : n * 2^ByteBits + b, 0, bytes)
LeadingCount(bytes, b) == Min({i \in 0..WordBytes : i = WordBytes \/ bytes[i + 1] # b})

\* u256_to_be_bytes_trimmed
TrimmedUint(v) ==
    LET zeros == LeadingCount(BytesOf(v), 0)
    IN  IF zeros = WordBytes THEN <<0>> ELSE SubSeq(BytesOf(v), zeros + 1, WordBytes)

\* i256_to_be_bytes_trimmed: a negative number keeps its sign bit.
TrimmedInt(i) ==
    LET raw == BytesOf(i % Modulus)
        ones == LeadingCount(raw, 2^ByteBits - 1)
        start == IF ones = WordBytes THEN WordBytes - 1
                 ELSE IF raw[ones + 1] < 2^(ByteBits - 1) THEN Max({0, ones - 1})
                 ELSE ones
    IN  IF i < 0 THEN SubSeq(raw, start + 1, WordBytes) ELSE TrimmedUint(i)

NoPools == [uints |-> {}, ints |-> {}, fixed |-> {}, addresses |-> {}, byteStrings |-> {},
            strings |-> {}]

\* The integers of a word: itself and, when it fits a signed word, the same
\* number and its negation.
Integers256(u, size) ==
    LET signed == IF u < Modulus \div 2 THEN {u, -u} ELSE {}
    IN  [NoPools EXCEPT
            !.uints = {<<u, n>> : n \in UintSizes(u)},
            !.ints = UNION {{<<i, n>> : n \in IntSizes(i)} : i \in signed},
            !.fixed = {<<u, n>> : n \in FixedSizes(size)},
            !.byteStrings = {TrimmedUint(u)} \union {TrimmedInt(i) : i \in signed}]

AddressBytesOf(a) == SubSeq(BytesOf(a), WordBytes - AddressLength + 1, WordBytes)

\* extract_literal on a number
FromNumber(u) ==
    LET fits == u < 2^(ByteBits * AddressLength)
        found == Integers256(u, Len(TrimmedUint(u)))
    IN  [found EXCEPT !.addresses = IF fits THEN {u} ELSE {},
                      !.byteStrings = @ \union (IF fits THEN {AddressBytesOf(u)} ELSE {})]

\* extract_literal on a hex string
FromHexString(bytes) ==
    LET found == IF Len(bytes) > WordBytes THEN NoPools
                 ELSE Integers256(Number(bytes), Max({1, Len(bytes)}))
        padded == IF Len(bytes) > WordBytes THEN bytes
                  ELSE [i \in 1..WordBytes |-> IF i <= Len(bytes) THEN bytes[i] ELSE 0]
    IN  [found EXCEPT !.addresses = IF Len(bytes) = AddressLength THEN {Number(bytes)} ELSE {},
                      !.byteStrings = @ \union {bytes, padded}]

\* extract_literal; the pool of Booleans is left out, nothing draws from it.
Extracted(l) ==
    IF l.kind = "number" THEN (IF NumberOf(l) = Unknown THEN NoPools ELSE FromNumber(NumberOf(l)))
    ELSE IF l.kind = "hex" THEN FromHexString(l.bytes)
    ELSE [NoPools EXCEPT !.strings = {l.bytes}, !.byteStrings = {l.bytes}]

Joined(p, q) == [pool \in DOMAIN p |-> p[pool] \union q[pool]]

\* LiteralExtractor::from_output
FromOutput(sources) == FoldSet(Joined, NoPools, {Extracted(l) : l \in {m \in sources : Visited(m)}})
-----------------------------------------------------------------------------
(* rvg.rs; an integer argument is an integer, one of bytesN a word *)

MaxFor(bits) == 2^bits - 1
SignBit(bits) == 2^(bits - 1)
MaxPositive(bits) == SignBit(bits) - 1
FromRaw(raw) == IF raw < Modulus \div 2 THEN raw ELSE raw - Modulus
SignExtend(raw, bits) ==
    LET v == raw % 2^bits
    IN  FromRaw(IF v < SignBit(bits) THEN v ELSE v + (Modulus - 2^bits))

Bits(type) == ByteBits * type.size
Words == 0..(Modulus - 1)

\* The first byte is `first`, or the size bytes are 0xFF with the last one
\* `below` less.
FirstByte(first) == first * 2^(WordBits - ByteBits)
Ones(size, below) == (2^(ByteBits * size) - 1 - below) * 2^(WordBits - ByteBits * size)

UintDraws(bits, pool, from) ==
    CASE from = "literal" -> {v \in pool : v <= MaxFor(bits)}
      [] from = "edge" -> {0, 1} \union {Max({0, MaxFor(bits) - k}) : k \in 0..3}
      [] from = "uniform" -> {w % 2^bits : w \in Words}
IntDraws(bits, pool, from) ==
    CASE from = "literal" ->
           {i \in pool : SignExtend(SignBit(bits), bits) <= i /\ i <= MaxPositive(bits)}
      [] from = "edge" ->
           {SignExtend(raw, bits) : raw \in {SignBit(bits), SignBit(bits) + 1, MaxFor(bits), 0, 1,
                                             MaxPositive(bits) - 1, MaxPositive(bits)}}
      [] from = "uniform" -> {SignExtend(w, bits) : w \in Words}
FixedDraws(size, pool, from) ==
    CASE from = "literal" -> {(v * 2^(WordBits - ByteBits * size)) % Modulus : v \in pool}
      [] from = "edge" -> {0, FirstByte(1)} \union {Ones(size, k) : k \in 0..3}
      [] from = "uniform" -> Words
AddressDraws(pool, from) ==
    CASE from = "literal" -> pool
      [] from = "edge" -> {0, 2^(ByteBits * (AddressLength - 1))}
                          \union {2^(ByteBits * AddressLength) - 1 - k : k \in 0..3}
      [] from = "uniform" -> 0..(2^(ByteBits * AddressLength) - 1)

Sized(pool, size) == {e[1] : e \in {f \in pool : f[2] = size}}

\* RandomValueGenerator::value
Draws(type, from) ==
    CASE type.kind = "uint" -> UintDraws(Bits(type), Sized(pools.uints, type.size), from)
      [] type.kind = "int" -> IntDraws(Bits(type), Sized(pools.ints, type.size), from)
      [] type.kind = "fixed" -> FixedDraws(type.size, Sized(pools.fixed, type.size), from)
      [] type.kind = "address" -> AddressDraws(pools.addresses, from)
-----------------------------------------------------------------------------
(* maxer/call.rs *)

BoundaryUint(bits) == {v % 2^bits : v \in {0, 1, 2, MaxFor(bits), MaxFor(bits) \div 2, Large}}
RandomUint(bits) == BoundaryUint(bits) \union {w % 2^bits : w \in Words}

\* random_value: a signed integer of any size is a whole random word.
MaxDraws(type) ==
    CASE type.kind = "uint" -> RandomUint(Bits(type))
      [] type.kind = "int" -> {FromRaw(w) : w \in RandomUint(WordBits)}
      [] type.kind = "fixed" -> {v * 2^(WordBits - Bits(type)) : v \in 0..MaxFor(Bits(type))}
      [] type.kind = "address" -> 0..MaxFor(ByteBits * AddressLength)
-----------------------------------------------------------------------------
(* Steps *)

ValuesIdle == literals = {} /\ pools = NoPools /\ drawn = NoDraw

ExtractLiterals(sources) ==
    /\ drawn = NoDraw
    /\ literals' = sources
    /\ pools' = FromOutput(sources)
    /\ UNCHANGED drawn

\* Call::random of `test` and of `max`, for one argument
DrawForTest(type, from) ==
    /\ \E v \in Draws(type, from) : drawn' = [by |-> "test", type |-> type, from |-> from, value |-> v]
    /\ UNCHANGED <<literals, pools>>
DrawForMax(type) ==
    /\ \E v \in MaxDraws(type) : drawn' = [by |-> "max", type |-> type, from |-> "random", value |-> v]
    /\ UNCHANGED <<literals, pools>>
-----------------------------------------------------------------------------
(* Properties *)

\* The values Solidity accepts for a type.
Legal(type) ==
    CASE type.kind = "uint" -> 0..(2^Bits(type) - 1)
      [] type.kind = "int" -> (-(2^(Bits(type) - 1)))..(2^(Bits(type) - 1) - 1)
      [] type.kind = "fixed" -> {w \in Words : w % 2^(WordBits - Bits(type)) = 0}
      [] type.kind = "address" -> 0..(2^(ByteBits * AddressLength) - 1)

\* Two draws are known to leave the type: `max` does not cut signed
\* integers to their size, and a uniform bytesN has bytes behind its N, which
\* the ABI encoder drops or not.
Unmasked(d) ==
    \/ d.by = "max" /\ d.type.kind = "int" /\ d.type.size < WordBytes
    \/ d.from = "uniform" /\ d.type.kind = "fixed"

\* Where a literal of the sources is not seen.
BlindSpots ==
    {<<"IndexRangeAccess", "end">>, <<"Contract", "modifier">>, <<"Contract", "base">>,
     <<"Function", "modifier">>, <<"Revert", "error">>, <<"Try", "call">>, <<"Try", "clause">>,
     <<"Assembly", "value">>}
InSight(l) == \A step \in Range(l.path) : <<step.node, step.part>> \notin BlindSpots

\* Solidity's value of a number: a multiple of 1 / Radix^(fracLen + 2), so
\* that exponents down to -2 are exact.
Scaled(l) ==
    Digits(l) * (IF l.exp = NoExp THEN Radix^2 ELSE Radix^(l.exp + 2))
              * (IF l.factor > 0 THEN l.factor ELSE 1)
Whole(l) == Scaled(l) \div Radix^(l.fracLen + 2)
Integral(l) == Scaled(l) % Radix^(l.fracLen + 2) = 0

\* Numbers the parser does not read: an exponent with a unit or a negative
\* one, a plain fraction; or whose digits exceed the word on the way.
Understood(l) ==
    /\ l.exp = NoExp => l.fracLen = 0 \/ l.factor > 0
    /\ l.exp # NoExp => l.exp >= 0 /\ l.factor = 0
    /\ Scaled(l) < Modulus * Radix^2

IntTypes(v) == {n \in 1..WordBytes : -(2^(ByteBits * n - 1)) <= v /\ v < 2^(ByteBits * n - 1)}

\* Every literal a harness may compare with can be drawn exactly, at every
\* size of integer that holds it, negated too (the most negative word
\* excepted), as an address when it fits, and as bytes; and nothing is drawn
\* that the type does not have (literal.rs push_uint, push_int,
\* push_fixed_bytes and the trimmed bytes, rvg.rs uint, int, fixed_bytes,
\* sign_extend, maxer/call.rs random_uint).
LiteralsReachCalls ==
    /\ drawn # NoDraw /\ ~Unmasked(drawn) => drawn.value \in Legal(drawn.type)
    /\ \A l \in {m \in literals : InSight(m)} :
          /\ l.kind = "number" /\ Understood(l) /\ Integral(l) =>
                LET v == Whole(l)
                IN  /\ \A n \in 1..WordBytes : v < 2^(ByteBits * n) =>
                          v \in Draws([kind |-> "uint", size |-> n], "literal")
                    /\ \A i \in {v, -v} : -i # Modulus \div 2 => \A n \in IntTypes(i) :
                          i \in Draws([kind |-> "int", size |-> n], "literal")
                    /\ v < 2^(ByteBits * AddressLength) =>
                          v \in Draws([kind |-> "address", size |-> 0], "literal")
                    /\ \E b \in pools.byteStrings : Number(b) = v
                    /\ 0 < v /\ v < Modulus \div 2 => \E b \in pools.byteStrings :
                          Number(b) - 2^(ByteBits * Len(b)) = -v /\ Head(b) >= 2^(ByteBits - 1)
          /\ l.kind # "number" => l.bytes \in pools.byteStrings
          /\ l.kind = "hex" /\ Len(l.bytes) \in 1..WordBytes =>
                \E w \in Draws([kind |-> "fixed", size |-> Len(l.bytes)], "literal") :
                    SubSeq(BytesOf(w), 1, Len(l.bytes)) = l.bytes
=============================================================================
