----------------------------- MODULE MCCommands -----------------------------
(* Instances of the components that prepare a contract and describe a      *)
(* program or a run to the user.  They share nothing: a behaviour follows  *)
(* one of them.                                                            *)
EXTENDS FunctionSource, StorageNames, CoverageReport, StatsReport, TraceLabels, Deployment,
        ValueGeneration

vars == <<sourceVars, storageVars, coverageVars, statsVars, roots, deploymentVars, valueVars>>

-----------------------------------------------------------------------------
(* Declarations and code *)

Blank == [nt |-> "function", id |-> 0, name |-> "", kind |-> "contract", bases |-> <<>>,
          members |-> <<>>, params |-> "", fkind |-> "function", constructor |-> FALSE,
          vis |-> "public", implemented |-> TRUE, virtual |-> "yes", overrides |-> FALSE,
          selector |-> 0, mutability |-> "nonpayable", types |-> <<>>, mods |-> <<>>, body |-> <<>>]
Decl(nt, id, name) == [Blank EXCEPT !.nt = nt, !.id = id, !.name = name]
Code(k, ref, kids) == [k |-> k, ref |-> ref, kids |-> kids, types |-> <<>>, kind |-> "absent"]
Ident(ref) == Code("Identifier", ref, <<>>)
CallTo(ref) == Code("Call", 0, <<Ident(ref)>>)
TypeName(k, ref, kids) == [k |-> k, ref |-> ref, kids |-> kids]
User(ref) == TypeName("UserDefined", ref, <<>>)

\* Four contracts over every small inheritance graph: each leaves f out,
\* announces it or implements it.  g of the first calls f, and so does run of
\* the last through g; f of the third names that of the first.
FId(c) == 10 + c
FOf(c, defs) ==
    [Decl("function", FId(c), "f") EXCEPT
        !.implemented = (defs[c] = "body"), !.overrides = (c # 1), !.selector = 1,
        !.body = CASE defs[c] = "body" /\ c = 1 -> <<CallTo(21)>>
                   [] defs[c] = "body" /\ c = 3 /\ defs[1] = "body" ->
                          <<Code("Call", NoRef, <<Code("MemberAccess", FId(1), <<Ident(1)>>)>>)>>
                   [] OTHER -> <<>>]
RunOfLast == [Decl("function", 24, "run") EXCEPT !.selector = 3, !.body = <<CallTo(21)>>]
G(defs) == [Decl("function", 21, "g") EXCEPT
               !.selector = 2, !.body = IF defs[1] = "none" THEN <<>> ELSE <<CallTo(FId(1))>>]
Receive == [Decl("function", 22, "") EXCEPT !.fkind = "receive", !.vis = "external"]
Contract(c, bases, defs) ==
    [Decl("contract", c, "C") EXCEPT
        !.bases = bases,
        !.members = (IF defs[c] = "none" THEN <<>> ELSE <<FOf(c, defs)>>)
                    \o (CASE c = 1 -> <<G(defs), Receive>> [] c = 4 -> <<RunOfLast>> [] OTHER -> <<>>)]
Inherit(b, defs) ==
    <<Contract(1, <<>>, defs), Contract(2, b[1], defs), Contract(3, b[2], defs), Contract(4, b[3], defs)>>
Shapes ==
    {b \in {<<>>, <<1>>} \X {<<1>>, <<2>>, <<1, 2>>}
           \X {l \in ((1..3) \X (1..3)) \union {<<c>> : c \in 1..3} : IsInjective(l)} :
        \A c \in 3..4 : 1 \in Range(Linear(Inherit(b, [d \in 1..4 |-> "none"]), c))}
Heirs == {u \in {Inherit(b, defs) : b \in Shapes, defs \in [1..4 -> {"none", "decl", "body"}]} :
             \A c \in 2..4 : OverridesLegally(u, c, "f", "")}

\* One contract with a declaration of every kind; its function is made of
\* every kind of code, two levels deep.
Leaves == {Ident(37), CallTo(42), Code("MemberAccess", 35, <<Ident(37)>>)}
Pairs == {<<a, b>> : a \in Leaves, b \in {Ident(37), CallTo(42)}}
Plain == {Code(k, NoRef, p) : k \in WalksAll \union Statements, p \in Pairs}
Calls == {Code("Call", NoRef, <<callee, Ident(37)>>) :
             callee \in {Ident(42), Code("MemberAccess", 42, <<CallTo(42)>>),
                         [Code("New", NoRef, <<>>) EXCEPT !.types = <<User(43)>>],
                         Code("CallOptions", NoRef, <<Code("MemberAccess", 42, <<Ident(37)>>), Ident(37)>>),
                         Code("CallOptions", NoRef,
                              <<[Code("New", NoRef, <<>>) EXCEPT !.types = <<User(43)>>], CallTo(42)>>),
                         CallTo(42)}}
Others == {Code("IndexRange", NoRef, <<Ident(37), CallTo(42), Ident(37)>>),
           Code("Assembly", NoRef, <<Ident(37)>>),
           [Code("VariableDeclaration", NoRef, <<CallTo(42)>>) EXCEPT
               !.types = <<TypeName("Array", NoRef, <<User(31)>>), User(43)>>]}
Bodies == LET deep == Plain \union Calls \union Others
          IN  {<<e>> : e \in deep} \union {<<Code(k, NoRef, <<e>>)>> : k \in {"Conditional", "Try"}, e \in deep}
Guarded == [Code("modifier", 36, <<CallTo(42)>>) EXCEPT !.kind = "modifier"]
Program(code, guards) ==
    <<Decl("enum", 32, "E"),
      [Decl("struct", 31, "S") EXCEPT !.types = <<User(32)>>],
      Decl("valueType", 34, "V"),
      [Decl("error", 35, "X") EXCEPT !.types = <<User(34)>>],
      [Decl("function", 42, "free") EXCEPT !.types = <<User(32)>>],
      [Decl("contract", 43, "D") EXCEPT !.members = <<Decl("function", 44, "other")>>],
      [Decl("contract", 50, "C") EXCEPT
          !.members = <<[Decl("modifier", 36, "m") EXCEPT !.body = <<Ident(37)>>],
                        [Decl("variable", 37, "v") EXCEPT
                            !.vis = "internal",
                            !.types = <<TypeName("Mapping", NoRef, <<User(34), User(31)>>)>>],
                        [Decl("function", 51, "run") EXCEPT
                            !.selector = 3, !.body = code, !.mods = guards]>>]>>

SourceNext ==
    \/ \E u \in Heirs : \/ \E selector \in 1..3 : InspectSource(u, 4, selector)
                        \/ InspectFunctions(u, 4, Abi(u, 4))
    \/ \E code \in Bodies, guards \in {<<>>, <<Guarded>>, <<[Guarded EXCEPT !.kind = "absent"]>>} :
           InspectSource(Program(code, guards), 50, 3)
    \/ SourceStep
-----------------------------------------------------------------------------
(* Storage layouts *)

CONSTANTS MaxWrites    \* bound: writes in one trace

Value(bytes) == [k |-> "value", bytes |-> bytes]
Fixed(t, n) == [k |-> "fixed", base |-> t, len |-> n]
Dyn(t) == [k |-> "dyn", base |-> t]
Keyed(key, t) == [k |-> "mapping", key |-> key, base |-> t]
Mapping(t) == Keyed(Value(4), t)
Opaque(bytes) == [k |-> "opaque", bytes |-> bytes]
Field(name, t) == [name |-> name, type |-> t]

\* Solidity's packing of a list of variables.
Packed(fields) ==
    FoldLeft(LAMBDA acc, f :
               LET b == Bytes(f.type)
                   fits == Elementary(f.type) /\ acc.off + b <= Width
                   at == IF fits \/ acc.off = 0 THEN acc.at ELSE acc.at + 1
                   off == IF fits THEN acc.off ELSE 0
               IN  [vs |-> Append(acc.vs, [name |-> f.name, at |-> at, off |-> off, type |-> f.type]),
                    at |-> IF Elementary(f.type) THEN at ELSE at + CeilDiv(b, Width),
                    off |-> IF Elementary(f.type) THEN off + b ELSE 0],
             [vs |-> <<>>, at |-> 0, off |-> 0], fields).vs
Struct(fields) == [k |-> "struct", members |-> Packed(fields)]
Pair == Struct(<<Field("x", Value(4)), Field("y", Value(2)), Field("z", Value(1))>>)
Deep == Struct(<<Field("p", Value(2)), Field("in", Pair), Field("f", Fixed(Value(2), 3)),
                 Field("g", Fixed(Value(4), 2)), Field("d", Dyn(Value(4)))>>)
Veiled == Struct(<<Field("x", Value(4)), Field("e", Opaque(1)), Field("d", Dyn(Value(4)))>>)
Around == Struct(<<Field("x", Value(4)), Field("in", Veiled), Field("y", Value(4))>>)
Types == {Value(4), Pair, Deep, Mapping(Mapping(Value(2))), Fixed(Fixed(Value(4), 2), 2)}
         \union {Fixed(t, 2) : t \in {Value(4), Value(2), Pair, Deep}}
         \union {Dyn(t) : t \in {Value(4), Value(2), Pair, Deep}}
         \union {Mapping(t) : t \in {Value(4), Deep, Fixed(Value(4), 2), Fixed(Value(2), 3),
                                     Fixed(Pair, 2), Dyn(Value(4)), Dyn(Value(2)), Dyn(Pair)}}
         \union {Opaque(1), Dyn(Opaque(1)), Keyed(Opaque(1), Value(4)), Mapping(Opaque(1)),
                 Mapping(Fixed(Opaque(4), 2)), Mapping(Veiled), Fixed(Veiled, 2), Dyn(Around)}
Layouts == {Packed(<<Field("a", Value(1)), Field("b", Value(2)), Field("c", t)>>) : t \in Types}

StorageNext ==
    \/ \E l \in Layouts : OpenTrace(l)
    \/ /\ Cardinality(writes) < MaxWrites
       /\ \E loc \in AllLocations(storageLayout, 3) \ writes : Sstore(loc)
-----------------------------------------------------------------------------
(* A compilation unit of three contracts, two of the same size *)

CONSTANTS MaxDeployed, MaxExecuted    \* bounds: bytecodes, executed instructions

Ins(op, n, off, src) == [op |-> op, n |-> n, off |-> off, src |-> src]
Assembled(is, holes) ==
    [code |-> FoldLeft(LAMBDA c, i : c \o <<i.op>> \o [j \in 1..i.n |-> 7], <<>>, is),
     sizes |-> [i \in DOMAIN is |-> 1 + is[i].n],
     map |-> [i \in DOMAIN is |-> [off |-> is[i].off, src |-> is[i].src]],
     holes |-> holes]
TextLine(len, text) == [len |-> len, text |-> text]
File == <<TextLine(2, "code"), TextLine(3, "code"), TextLine(3, "code"), TextLine(1, "close"),
          TextLine(1, "comment"), TextLine(2, "code"), TextLine(2, "code"), TextLine(1, "close")>>
Token == [library |-> FALSE,
          deployed |-> Assembled(<<Ins(96, 1, 0, 1), Ins(91, 0, 2, 1), Ins(97, 2, 5, 1),
                                   Ins(91, 0, 10, 1), Ins(1, 0, 12, 1), Ins(0, 0, 8, 1)>>, {4, 5}),
          init |-> Assembled(<<Ins(96, 1, 3, 2), Ins(0, 0, 4, 2)>>, {})]
Vault == [library |-> FALSE,
          deployed |-> Assembled(<<Ins(91, 0, 10, 1), Ins(97, 2, 12, 1), Ins(96, 1, 0, -1),
                                   Ins(3, 0, 8, 1), Ins(91, 0, 3, 2), Ins(2, 0, 4, 2)>>, {2}),
          init |-> Assembled(<<>>, {})]
Lib == [library |-> TRUE,
        deployed |-> Assembled(<<Ins(Prefix, AddressBytes, 0, 2), Ins(0, 0, 3, 2)>>, {}),
        init |-> Assembled(<<Ins(0, 0, 0, 3)>>, {})]
Fn(kind, src, off, len) == [kind |-> kind, src |-> src, off |-> off, len |-> len, body |-> TRUE]
Unit(contracts) ==
    [sources |-> <<File, <<TextLine(3, "code"), TextLine(2, "code")>>, <<>>>>, contracts |-> contracts,
     functions |-> <<Fn("function", 1, 2, 7), Fn("function", 1, 10, 5), Fn("constructor", 2, 3, 2)>>,
     definitions |-> {[src |-> 1, off |-> 0], [src |-> 2, off |-> 0]}]

CoverageNext ==
    \/ \E contracts \in {<<Token, Vault, Lib>>, <<Vault, Token, Lib>>} : StartCampaign(Unit(contracts))
    \/ /\ compiled # <<>> /\ Len(deployed) < MaxDeployed
       /\ \E c \in 1..3, initcode \in BOOLEAN, filled \in {0, 9}, arguments \in {<<>>, <<1>>} :
              Deploy(c, initcode, filled, arguments)
    \/ \E id \in DOMAIN deployed :
           LET o == Object(deployed[id].contract, deployed[id].initcode)
           IN  \E k \in DOMAIN o.sizes :
                   /\ executed[id][TruePc(o, k)] = 0
                   /\ MapThenSumSet(LAMBDA i : Cardinality({pc \in DOMAIN executed[i] : executed[i][pc] > 0}),
                                    DOMAIN executed) < MaxExecuted
                   /\ Execute(id, k)
-----------------------------------------------------------------------------
(* Results of calls *)

Output(len, sel, decodes, id) == [halt |-> FALSE, len |-> len, sel |-> sel, decodes |-> decodes, id |-> id]
Outputs ==
    {[Output(0, "", FALSE, "") EXCEPT !.halt = TRUE], Output(0, "", FALSE, ""), Output(2, "", FALSE, "d"),
     Output(3, "", FALSE, "e")}
    \union {Output(4, sel, FALSE, "d") : sel \in {"Error", "Panic", "BrokenInvariantError", "Known", "Other"}}
    \union {Output(68, sel, TRUE, id) : id \in {"d", "e"}, sel \in {"Error", "Panic", "Known", "Other"}}
    \union {Output(68, "BrokenInvariantError", TRUE, id) : id \in {"", "I", "J"}}
MCFilters == {[kind |-> "revert", of |-> of] : of \in {"any", "Known", "BrokenInvariantError"}}
             \union {[kind |-> "panic", of |-> of] : of \in {"any", "d"}}
\* how long a call took does not depend on how it ended
NoData == Output(0, "", FALSE, "")
MCResults == {[success |-> FALSE, output |-> o, elapsed |-> 1] : o \in Outputs}
             \union {[success |-> ok, output |-> NoData, elapsed |-> ns] : ok \in BOOLEAN, ns \in {1, 4}}
-----------------------------------------------------------------------------
(* Frames; the code behind an address does not change *)

MCContextLabels == [a \in Places |-> IF a = 3 THEN "harness" ELSE ""]
NameOf(a) == IF a = 1 THEN "Token" ELSE ""
MCFrames ==
    {[kind |-> kind, addr |-> a, codeAddr |-> a, named |-> NameOf(a), deployed |-> "", label |-> <<>>] :
        kind \in {"call", "create"}, a \in Places}
    \union {[kind |-> "create", addr |-> a, codeAddr |-> a, named |-> "Token", deployed |-> d, label |-> <<>>] :
               <<a, d>> \in {<<1, "Token">>, <<NoAddress, "">>}}
    \union {[kind |-> "call", addr |-> 2, codeAddr |-> 1, named |-> NameOf(1), deployed |-> "", label |-> <<>>]}
    \union {[kind |-> "call", addr |-> 3, codeAddr |-> 3, named |-> "", deployed |-> "", label |-> <<a, text>>] :
               a \in Places, text \in {"alice", "bob"}}

\* What the theorem about the labels supposes holds of these frames.
ASSUME CodeStaysHere == CodeStays
-----------------------------------------------------------------------------
(* Programs with three libraries; m is not compiled *)

LibLists == {<<>>} \union {<<l>> : l \in {"a", "b"}} \union {<<"a", "b">>, <<"b", "a">>}
Programs ==
    {[id \in {"target", "a", "b", "c"} |->
        [links |-> CASE id = "target" -> t [] id = "b" -> b [] id = "c" -> c [] OTHER -> <<>>,
         empty |-> id \in e]] :
        t \in {<<>>, <<"a", "b", "c">>, <<"c", "b">>, <<"b", "a">>, <<"m">>, <<"c">>},
        b \in {<<>>, <<"a">>}, c \in LibLists, e \in {{}, {"a"}, {"target"}}}
Fun(name, args, mutability) == [name |-> name, args |-> args, mutability |-> mutability, returns |-> "uint256"]
Variants(name) == {<<>>} \union {<<Fun(name, n, mu)>> : n \in 0..1, mu \in {"nonpayable", "payable", "view"}}
                  \union {<<Fun(name, 0, "nonpayable"), Fun(name, 1, "nonpayable")>>,
                          <<Fun(name, 1, "nonpayable"), Fun(name, 0, "nonpayable")>>}
Abis(kind) ==
    {[constructor |-> c, functions |-> setup \o main] :
        c \in {<<>>, <<Fun("", 0, "nonpayable")>>, <<Fun("", 1, "payable")>>}, setup \in Variants("setup"),
        main \in Variants(CASE kind = "test" -> "invariant_" [] kind = "max" -> "value" [] OTHER -> "exec")}
SimpleAbi(kind) == [constructor |-> <<>>,
                    functions |-> <<Fun(CASE kind = "exec" -> "exec" [] kind = "max" -> "value" [] OTHER -> "run",
                                        0, IF kind = "max" THEN "view" ELSE "nonpayable")>>]
Alone == [id \in {"target"} |-> [links |-> <<>>, empty |-> FALSE]]
MCStarted ==
    UNION {{[kind |-> kind, program |-> program, abi |-> SimpleAbi(kind)] : program \in Programs}
           \union {[kind |-> kind, program |-> Alone, abi |-> abi] : abi \in Abis(kind)} :
              kind \in {"test", "max", "exec"}}
-----------------------------------------------------------------------------
(* Every number of the word, in every notation; strings of up to a word and *)
(* one byte more; a literal behind every two steps of the syntax tree       *)

Num(whole) == [kind |-> "number", path |-> <<>>, whole |-> whole, frac |-> 0, fracLen |-> 0,
               exp |-> NoExp, factor |-> 0]
Numbers ==
    {Num(w) : w \in 0..(Modulus - 1)}
    \union {[Num(w) EXCEPT !.exp = e, !.frac = f, !.fracLen = 1] : w \in 0..6, e \in {NoExp, -1, 0, 1, 2}, f \in {0, 5}}
    \union {[Num(w) EXCEPT !.exp = e, !.frac = f, !.fracLen = 1, !.factor = u] :
               w \in 0..3, e \in {NoExp, 1}, f \in {0, 5}, u \in {1, 4, 10}}
    \union {[Num(w) EXCEPT !.exp = 1, !.factor = u] : w \in 0..3, u \in {0, 4}}
Texts2 == UNION {[1..n -> 0..3] : n \in 0..2}
HexStrings == Texts2 \union [1..3 -> {0, 2, 3}] \union [1..4 -> {0, 3}]
Steps == {[node |-> s[1], part |-> s[2]] :
             s \in BlindSpots \union UNION {{<<n, p>> : p \in VisitedParts[n]} : n \in DOMAIN VisitedParts}
                              \union UNION {{<<n, p>> : p \in VisitedOperands[n]} : n \in DOMAIN VisitedOperands}
                              \union UNION {{<<n, p>> : p \in VisitedCallParts[n]} : n \in DOMAIN VisitedCallParts}}
HarnessSources ==
    {{n} : n \in Numbers}
    \union {{[kind |-> kind, path |-> <<>>, bytes |-> b]} : kind \in {"hex", "string"}, b \in HexStrings}
    \union {{[Num(9) EXCEPT !.path = p], Num(32)} : p \in Steps \X Steps}
ArgumentTypes == {[kind |-> kind, size |-> n] : kind \in {"uint", "int", "fixed"}, n \in 1..WordBytes}
                 \union {[kind |-> "address", size |-> 0]}
ValuesNext ==
    \/ literals = {} /\ \E sources \in HarnessSources : ExtractLiterals(sources)
    \/ \E type \in ArgumentTypes :
           \/ Cardinality(literals) = 1 /\ DrawForTest(type, "literal")
           \/ literals = {} /\ \E from \in {"edge", "uniform"} : DrawForTest(type, from)
           \/ literals = {} /\ DrawForMax(type)
-----------------------------------------------------------------------------
Init == SourceIdle /\ StorageIdle /\ CoverageIdle /\ StatsIdle /\ LabelsIdle /\ DeploymentIdle /\ ValuesIdle

NoSource == walk = "idle"
NoStorage == storageLayout = <<>>
NoCoverage == compiled = <<>>
NoStats == recorded = <<>>
NoTrace == roots = <<>>
NoDeployment == stage = "idle"
NoValues == literals = {} /\ drawn = NoDraw

Next ==
    \/ /\ NoStorage /\ NoCoverage /\ NoStats /\ NoTrace /\ NoDeployment /\ NoValues
       /\ SourceNext
       /\ UNCHANGED <<storageVars, coverageVars, statsVars, roots, deploymentVars, valueVars>>
    \/ /\ NoSource /\ NoCoverage /\ NoStats /\ NoTrace /\ NoDeployment /\ NoValues
       /\ StorageNext
       /\ UNCHANGED <<sourceVars, coverageVars, statsVars, roots, deploymentVars, valueVars>>
    \/ /\ NoSource /\ NoStorage /\ NoStats /\ NoTrace /\ NoDeployment /\ NoValues
       /\ CoverageNext
       /\ UNCHANGED <<sourceVars, storageVars, statsVars, roots, deploymentVars, valueVars>>
    \/ /\ NoSource /\ NoStorage /\ NoCoverage /\ NoTrace /\ NoDeployment /\ NoValues
       /\ StatsNext
       /\ UNCHANGED <<sourceVars, storageVars, coverageVars, roots, deploymentVars, valueVars>>
    \/ /\ NoSource /\ NoStorage /\ NoCoverage /\ NoStats /\ NoDeployment /\ NoValues
       /\ LabelsNext
       /\ UNCHANGED <<sourceVars, storageVars, coverageVars, statsVars, deploymentVars, valueVars>>
    \/ /\ NoSource /\ NoStorage /\ NoCoverage /\ NoStats /\ NoTrace /\ NoValues
       /\ DeploymentNext
       /\ UNCHANGED <<sourceVars, storageVars, coverageVars, statsVars, roots, valueVars>>
    \/ /\ NoSource /\ NoStorage /\ NoCoverage /\ NoStats /\ NoTrace /\ NoDeployment
       /\ ValuesNext
       /\ UNCHANGED <<sourceVars, storageVars, coverageVars, statsVars, roots, deploymentVars>>

Spec == Init /\ [][Next]_vars
=============================================================================
