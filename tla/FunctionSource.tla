--------------------------- MODULE FunctionSource ---------------------------
(***************************************************************************)
(* `ripfuzz inspect function-source` and `inspect external-functions`      *)
(* (src/inspectors/function_source.rs, external_functions.rs): which       *)
(* declaration a selector stands for in a contract with bases, and which   *)
(* declarations its code refers to.                                        *)
(*                                                                         *)
(* A compilation unit is the sequence of the top-level nodes of its ASTs.  *)
(* Text, byte ranges and layout are left out: sibling declarations do not  *)
(* overlap, so the range test of the walk selects the symbol's own node.   *)
(* The order of the report is left out too (it is sorted when printed).    *)
(*                                                                         *)
(*   contract  [nt, id, name, kind, bases, members]                        *)
(*   function  [nt, id, name, params, fkind, vis, implemented, virtual,    *)
(*              overrides, selector, types, mods, body, doc]               *)
(*   others    [nt, id, name, types, body, ...]                            *)
(*   code      [k, ref, kids, types]: an expression, a statement or the    *)
(*             invocation of a modifier; a callee is the first kid         *)
(***************************************************************************)
EXTENDS Naturals, Sequences, FiniteSets, SequencesExt, FiniteSetsExt

VARIABLES
    inspected,  \* [u, target, selector]: the arguments of the command
    queue,      \* resolve_recursive: symbols still to visit, the top last
    resolved,   \* the symbols of the report, in the order they were found
    walk,       \* "idle", "walking", "done" or "failed"
    listing     \* external-functions: what was listed of every ABI item

sourceVars == <<inspected, queue, resolved, walk, listing>>

NoRef == 0   \* referenced_declaration is None
-----------------------------------------------------------------------------
(* SymbolIndex *)

TopLevel(u, id) == \E i \in DOMAIN u : u[i].id = id
ContractNodes(u) == {u[i] : i \in {j \in DOMAIN u : u[j].nt = "contract"}}
MemberNodes(u) == UNION {Range(c.members) : c \in ContractNodes(u)}
Indexed(u) == {n \in Range(u) \union MemberNodes(u) : n.nt # "using"}

\* contract_id of an entry: a contract owns itself, a top-level node nothing
Owner(u, n) ==
    IF n.nt = "contract" THEN {n.id}
    ELSE {c.id : c \in {d \in ContractNodes(u) : n \in Range(d.members)}}

\* FunctionKind, inferred for old ASTs
FunctionKind(n) ==
    IF n.fkind # "absent" THEN n.fkind
    ELSE IF n.constructor THEN "constructor" ELSE IF n.name = "" THEN "fallback" ELSE "function"

\* virtual.unwrap_or(true) || overrides
Overridable(n) == n.virtual # "no" \/ n.overrides

Node(u, id) == CHOOSE n \in Indexed(u) : n.id = id
Ids(u) == {n.id : n \in Indexed(u)}

\* bases, in the order of the inheritance list
BasesOf(u, c) == SelectSeq(Node(u, c).bases, LAMBDA b : b # NoRef)
MembersOf(u, c) == IF c \in Ids(u) /\ Node(u, c).nt = "contract"
                   THEN SelectSeq(Node(u, c).members, LAMBDA n : n.nt # "using") ELSE <<>>

\* constructors: the implemented constructor of a contract
Constructors(u, c) ==
    {n.id : n \in {m \in Range(MembersOf(u, c)) :
                     m.nt = "function" /\ FunctionKind(m) = "constructor" /\ m.implemented}}

\* ancestors: the contract and its bases, breadth first
RECURSIVE Breadth(_, _, _)
Breadth(u, order, head) ==
    IF head > Len(order) THEN order
    ELSE Breadth(u, FoldLeft(LAMBDA o, b : IF b \in Range(o) THEN o ELSE Append(o, b),
                             order, BasesOf(u, order[head])), head + 1)
Ancestors(u, c) == Breadth(u, <<c>>, 1)

\* The members of the whole chain, most derived contract first.
ChainMembers(u, c) ==
    FoldLeft(LAMBDA ms, a : ms \o MembersOf(u, a), <<>>, Ancestors(u, c))
FirstMember(ms, Test(_)) ==
    LET good == SelectSeq(ms, Test) IN IF good = <<>> THEN {} ELSE {Head(good).id}
-----------------------------------------------------------------------------
(* resolve_root and the override table *)

ResolveRoot_LastFound(u, target, selector) ==
    FirstMember(Reverse(ChainMembers(u, target)),
                LAMBDA n : n.nt \in {"function", "variable"} /\ n.selector = selector)

\* The first declaration of the chain that carries the selector; none fails
\* with the list of those available.
ResolveRoot(u, target, selector) ==
    FirstMember(ChainMembers(u, target),
                LAMBDA n : n.nt \in {"function", "variable"} /\ n.selector = selector)

\* OverrideTable::build skips constructors and private functions
TableMember(n) == n.nt = "function" /\ FunctionKind(n) = "function" /\ n.vis # "private"

\* Mutant: a later declaration of the chain overwrites an earlier one.
MostDerived_LastKept(u, c, name, params) ==
    FirstMember(Reverse(ChainMembers(u, c)),
        LAMBDA n : TableMember(n) /\ n.implemented /\ n.name = name /\ n.params = params)

MostDerived(u, c, name, params) ==
    FirstMember(ChainMembers(u, c),
        LAMBDA n : TableMember(n) /\ n.implemented /\ n.name = name /\ n.params = params)

\* redirect: a call on the chain of c to a function that can be overridden
Redirect(u, c, id) ==
    IF c = NoRef \/ id \notin Ids(u) \/ Node(u, id).nt # "function" THEN {}
    ELSE LET n == Node(u, id)
         IN  IF ~\E o \in Owner(u, n) : /\ o \in Range(Ancestors(u, c))
                                        /\ \E m \in Range(MembersOf(u, o)) :
                                              /\ TableMember(m) /\ Overridable(m)
                                              /\ m.name = n.name /\ m.params = n.params
             THEN {} ELSE MostDerived(u, c, n.name, n.params) \ {id}

\* The table is built for the contract that declares the root, which is not
\* the inspected one when the root is inherited.
TableOf(u, root) == IF Owner(u, Node(u, root)) = {} THEN NoRef
                    ELSE CHOOSE c \in Owner(u, Node(u, root)) : TRUE
-----------------------------------------------------------------------------
(* RefWalk; a walk w is [u, table, self] *)

Add(w, id) == {id} \intersect (Ids(w.u) \ {w.self})
AddDispatchable(w, id) ==
    IF Redirect(w.u, w.table, id) # {} THEN Redirect(w.u, w.table, id) ELSE Add(w, id)

RECURSIVE TypeRefs(_, _)
TypeRefs(w, ts) ==
    UNION {CASE ts[i].k = "UserDefined" -> Add(w, ts[i].ref)
             [] ts[i].k \in {"Array", "Mapping", "FunctionType"} -> TypeRefs(w, ts[i].kids)
             [] OTHER -> {} : i \in DOMAIN ts}

WalksAll == {"Assignment", "Binary", "Unary", "Conditional", "Tuple", "IndexAccess"}
Statements == {"ExpressionStatement", "Block", "If", "For", "While", "DoWhile", "Return",
               "VariableDeclaration", "Revert", "Emit", "Try", "Unchecked"}

\* expression, statement: what is walked below a node that is no call.  Of
\* an index range the end is not; of the other kinds nothing is.
CodeKids(e) ==
    CASE e.k \in WalksAll \union Statements \union {"MemberAccess"} -> e.kids
      [] e.k = "IndexRange" -> SubSeq(e.kids, 1, 2)
      [] OTHER -> <<>>

\* function_call: what is walked of a callee; a new expression names a
\* contract, the other kinds are not descended into
CalleeKids(e) == IF e.k \in {"MemberAccess", "CallOptions"} THEN e.kids ELSE <<>>
CalleeRefs(w, e) ==
    CASE e.k = "MemberAccess" -> Add(w, e.ref)
      [] e.k = "Identifier" -> AddDispatchable(w, e.ref)
      [] e.k = "New" -> UNION {Add(w, t.ref) : t \in {s \in Range(e.types) : s.k = "UserDefined"}}
      [] OTHER -> {}

RECURSIVE CodeRefs(_, _)
CodeRefs(w, es) ==
    UNION {LET e == es[i]
           IN  CASE e.k = "Call" -> CalleeRefs(w, Head(e.kids))
                                    \union CodeRefs(w, CalleeKids(Head(e.kids)) \o Tail(e.kids))
                 [] e.k \in {"MemberAccess", "Identifier"} ->
                        Add(w, e.ref) \union CodeRefs(w, CodeKids(e))
                 [] e.k = "VariableDeclaration" ->
                        TypeRefs(w, e.types) \union CodeRefs(w, CodeKids(e))
                 [] OTHER -> CodeRefs(w, CodeKids(e))
           : i \in DOMAIN es}

\* is_base_constructor: by the kind of the invocation, or by what it names
BaseConstructor(u, m) ==
    IF m.kind # "absent" THEN m.kind = "base"
    ELSE m.ref \in Ids(u) /\ Node(u, m.ref).nt = "contract"

\* modifier: the modifier, or the base and its constructor
ModifierRefs(w, m) ==
    Add(w, m.ref)
    \union (IF BaseConstructor(w.u, m) THEN UNION {Add(w, k) : k \in Constructors(w.u, m.ref)} ELSE {})
    \union CodeRefs(w, m.kids)

\* collect_references for the symbol's own node: a function without a body
\* contributes nothing, nor does an enum
References(u, table, id) ==
    LET n == Node(u, id)
        w == [u |-> u, table |-> table, self |-> id]
    IN  CASE n.nt = "function" ->
               IF ~n.implemented THEN {}
               ELSE TypeRefs(w, n.types) \union CodeRefs(w, n.body)
                    \union UNION {ModifierRefs(w, n.mods[i]) : i \in DOMAIN n.mods}
          [] n.nt \in {"modifier", "variable"} -> TypeRefs(w, n.types) \union CodeRefs(w, n.body)
          [] n.nt \in {"struct", "error", "event", "valueType"} -> TypeRefs(w, n.types)
          [] OTHER -> {}

\* resolve_recursive, one symbol of the queue: a contract shows its header
\* only and is not walked
Visit(u, table, id) == IF Node(u, id).nt = "contract" THEN {} ELSE References(u, table, id)
-----------------------------------------------------------------------------
(* ExternalFunctionsInspector *)

\* FunctionIndex: what can be called from outside, by name; a public
\* variable has an empty signature
Callable(n) == n.nt \in {"function", "variable"} /\ n.vis \in {"external", "public"}
               /\ (n.nt = "function" => FunctionKind(n) = "function")
Signature(n) == IF n.nt = "variable" THEN "" ELSE n.params

\* resolve: the exact signature on the chain, a getter on the chain, the
\* signature anywhere, the name anywhere
Resolve(u, target, name, key) ==
    LET named(ms) == SelectSeq(ms, LAMBDA n : Callable(n) /\ n.name = name)
        chain == named(ChainMembers(u, target))
        all == named(SetToSeq(MemberNodes(u)))
        first(ms, sig) == FirstMember(ms, LAMBDA n : Signature(n) = sig)
    IN  IF first(chain, key) # {} THEN first(chain, key)
        ELSE IF first(chain, "") # {} THEN first(chain, "")
        ELSE IF first(all, key) # {} THEN first(all, key)
        ELSE IF all = <<>> THEN {} ELSE {Head(all).id}

\* resolve_special
ResolveSpecial(u, target, kind) ==
    FirstMember(ChainMembers(u, target), LAMBDA n : n.nt = "function" /\ FunctionKind(n) = kind
                                                    /\ n.vis \in {"external", "public"})

\* is_callback, and the section of the report an ABI item is listed in
Callbacks == {"onERC721Received", "onERC1155Received", "onERC1155BatchReceived"}
Section(item) ==
    IF item.kind # "function" THEN "special"
    ELSE IF item.name \in Callbacks THEN "callback"
    ELSE IF item.mutability \in {"view", "pure"} THEN "view" ELSE "mutable"

\* inspect, one ABI item
Listed(u, target, item) ==
    [item |-> item, section |-> Section(item),
     source |-> IF item.kind = "function" THEN Resolve(u, target, item.name, item.params)
                ELSE ResolveSpecial(u, target, item.kind)]
-----------------------------------------------------------------------------
(* The command *)

SourceIdle == inspected = <<>> /\ queue = <<>> /\ resolved = <<>> /\ walk = "idle" /\ listing = {}

\* inspect, steps 1 to 3: an unknown selector ends the command
InspectSource(u, target, selector) ==
    /\ walk = "idle"
    /\ inspected' = [u |-> u, target |-> target, selector |-> selector]
    /\ queue' = SetToSeq(ResolveRoot(u, target, selector))
    /\ walk' = IF ResolveRoot(u, target, selector) = {} THEN "failed" ELSE "walking"
    /\ UNCHANGED <<resolved, listing>>

\* resolve_recursive, one turn of the loop
RootSymbol == CHOOSE id \in ResolveRoot(inspected.u, inspected.target, inspected.selector) : TRUE
VisitSymbol ==
    /\ walk = "walking" /\ queue # <<>>
    /\ LET id == Last(queue)
           found == Visit(inspected.u, TableOf(inspected.u, RootSymbol), id)
       IN  IF id \in Range(resolved)
           THEN queue' = Front(queue) /\ UNCHANGED resolved
           ELSE queue' = Front(queue) \o SetToSeq(found) /\ resolved' = Append(resolved, id)
    /\ UNCHANGED <<inspected, walk, listing>>

\* the rest of inspect: the report is rendered
RenderSource ==
    /\ walk = "walking" /\ queue = <<>>
    /\ walk' = "done"
    /\ UNCHANGED <<inspected, queue, resolved, listing>>

\* `inspect external-functions`; abi is the contract's ABI
InspectFunctions(u, target, abi) ==
    /\ walk = "idle"
    /\ inspected' = [u |-> u, target |-> target, selector |-> NoRef]
    /\ listing' = {Listed(u, target, item) : item \in abi}
    /\ walk' = "listed"
    /\ UNCHANGED <<queue, resolved>>

SourceStep == VisitSymbol \/ RenderSource
-----------------------------------------------------------------------------
(* Reference: Solidity's own rules *)

\* C3 linearization, most derived first; the inheritance list is written
\* from most base-like to most derived.  <<>> when there is none.
RECURSIVE Merge(_, _)
Merge(lists, done) ==
    LET left == SelectSeq(lists, LAMBDA l : l # <<>>)
        good == SelectSeq(left, LAMBDA l : ~\E i \in DOMAIN left : Head(l) \in Range(Tail(left[i])))
    IN  IF left = <<>> THEN done
        ELSE IF good = <<>> THEN <<>>
        ELSE Merge([i \in DOMAIN left |-> IF Head(left[i]) = Head(Head(good))
                                          THEN Tail(left[i]) ELSE left[i]],
                   Append(done, Head(Head(good))))
RECURSIVE Linear(_, _)
Linear(u, c) ==
    LET bases == Reverse(BasesOf(u, c))
        lists == [i \in DOMAIN bases |-> Linear(u, bases[i])]
    IN  IF <<>> \in Range(lists) THEN <<>> ELSE Merge(lists \o <<bases>>, <<c>>)

\* The members of a contract that declare a function, and the bases that do.
Declares(u, c, name, params) ==
    {m \in Range(MembersOf(u, c)) : /\ m.nt \in {"function", "variable"}
                                    /\ m.name = name /\ m.params = params /\ m.vis # "private"}
Definers(u, c, name, params) ==
    {a \in Range(Ancestors(u, c)) \ {c} : Declares(u, a, name, params) # {}}
RECURSIVE Inherited(_, _, _, _)
Inherited(u, c, name, params) ==
    UNION {IF Declares(u, b, name, params) # {} THEN {b} ELSE Inherited(u, b, name, params) :
              b \in Range(BasesOf(u, c))}
Implements(u, c, name, params) == \E m \in Declares(u, c, name, params) : m.implemented

\* What a base implements is not announced again, and a contract that inherits
\* a function from two sides declares it anew, unless one side only announces
\* what the other implements.
OverridesLegally(u, c, name, params) ==
    \/ /\ Declares(u, c, name, params) # {}
       /\ \/ Implements(u, c, name, params)
          \/ ~\E a \in Definers(u, c, name, params) : Implements(u, a, name, params)
    \/ /\ Declares(u, c, name, params) = {}
       /\ Cardinality(Inherited(u, c, name, params)) <= 1
    \/ \E b, x \in Definers(u, c, name, params) :
           /\ Declares(u, c, name, params) = {}
           /\ Definers(u, c, name, params) = {b, x} /\ b # x
           /\ ~Implements(u, b, name, params) /\ b \in Range(Ancestors(u, x))

\* What a call of name(params) on a contract c runs.
Runs(u, c, name, params) ==
    LET order == Linear(u, c)
        first == SelectSeq(order, LAMBDA a : Implements(u, a, name, params))
    IN  IF first = <<>> THEN {}
        ELSE {m.id : m \in {n \in Declares(u, Head(first), name, params) : n.implemented}}

\* What an unqualified call that names a declaration runs.
Dispatched(u, c, id) ==
    LET n == Node(u, id)
        virtual == /\ n.nt = "function" /\ FunctionKind(n) = "function" /\ n.vis # "private"
                   /\ Overridable(n) /\ Owner(u, n) \subseteq Range(Linear(u, c)) /\ Owner(u, n) # {}
    IN  IF virtual /\ Runs(u, c, n.name, n.params) # {} THEN Runs(u, c, n.name, n.params) ELSE {id}

RECURSIVE TypeNames(_)
TypeNames(ts) == UNION {{ts[i].ref} \union TypeNames(ts[i].kids) : i \in DOMAIN ts}

\* What the walk is known not to look at: the end of an index range, what
\* stands behind a callee of an unusual kind, a contract created with call
\* options, inline assembly, the types of catch clauses, the signature of a
\* function without a body.
Unseen(e) ==
    CASE e.k = "IndexRange" -> {3}
      [] e.k = "Call" -> IF Head(e.kids).k \in {"Identifier", "MemberAccess", "New", "CallOptions"}
                         THEN {} ELSE {1}
      [] e.k = "CallOptions" -> IF Head(e.kids).k = "New" THEN {1} ELSE {}
      [] e.k = "Assembly" -> DOMAIN e.kids
      [] OTHER -> {}

\* The ABI of a contract (external: solc).
Abi(u, c) ==
    {[name |-> m.name, params |-> m.params, kind |-> FunctionKind(m), mutability |-> m.mutability] :
        m \in {n \in UNION {Range(MembersOf(u, a)) : a \in Range(Linear(u, c))} :
                 n.nt \in {"function", "variable"} /\ n.vis \in {"external", "public"}
                 /\ FunctionKind(n) # "constructor"}}

\* Every declaration the text of a piece of code names.
RECURSIVE CodeNames(_, _, _)
CodeNames(u, c, es) ==
    UNION {LET e == es[i]
               callee(j) == e.k = "Call" /\ j = 1 /\ e.kids[j].k = "Identifier" /\ e.kids[j].ref \in Ids(u)
           IN  {e.ref} \union TypeNames(e.types)
               \union UNION {IF callee(j) THEN Dispatched(u, c, e.kids[j].ref)
                             ELSE CodeNames(u, c, <<e.kids[j]>>) : j \in DOMAIN e.kids \ Unseen(e)}
           : i \in DOMAIN es}
NodeNames(u, c, id) ==
    LET n == Node(u, id)
        bases == {m.ref : m \in {o \in Range(n.mods) : BaseConstructor(u, o)}}
    IN  IF n.nt = "contract" \/ ~n.implemented THEN {}
        ELSE Ids(u) \intersect (TypeNames(n.types) \union CodeNames(u, c, n.body \o n.mods)
                                \union UNION {Constructors(u, b) : b \in bases})
RECURSIVE Reached(_, _, _)
Reached(u, c, ids) ==
    LET more == ids \union UNION {NodeNames(u, c, id) : id \in ids}
    IN  IF more = ids THEN ids ELSE Reached(u, c, more)
-----------------------------------------------------------------------------
(* Properties *)

\* No override between the contract that declares the root and the inspected
\* one changes what a call runs.
RootSeesOverrides(u, target, root) ==
    \A owner \in Owner(u, Node(u, root)) \ {target} : \A id \in Ids(u) :
        Dispatched(u, owner, id) = Dispatched(u, target, id)

\* The finished report holds every declaration the function's code reaches,
\* through whatever nesting of constructs, with unqualified calls, those in
\* the code of bases too, led to what Solidity's linearization of the
\* inspected contract makes them run; nothing else, and nothing twice.  A root
\* the contract inherits is excepted where what overrides its calls is not
\* known to the contract that declares it, whose table the code takes
\* (function_source.rs resolve_recursive, OverrideTable, RefWalk).
ReportComplete ==
    walk = "done" =>
        LET u == inspected.u
            t == inspected.target
        IN  /\ RootSeesOverrides(u, t, RootSymbol) => Range(resolved) = Reached(u, t, {RootSymbol})
            /\ IsInjective(resolved)

\* Both commands resolve an external function of a contract to the one its
\* bytecode runs, although they search the bases breadth first, unless a
\* base that only announces the function is found before; a receive or
\* fallback function is found like any other (resolve_root,
\* FunctionIndex::resolve, resolve_special).
ResolvedIsRun ==
    LET u == inspected.u
        t == inspected.target
        IsRun(ids, name, params) == \A id \in ids : Node(u, id).implemented /\ Runs(u, t, name, params) # {}
                                          => Runs(u, t, name, params) = {id}
    IN  /\ walk \in {"walking", "done"} =>
               IsRun({RootSymbol}, Node(u, RootSymbol).name, Node(u, RootSymbol).params)
        /\ walk = "listed" =>
               \A l \in listing : l.source # {} /\ IsRun(l.source, l.item.name, l.item.params)
=============================================================================
