---------------------------- MODULE StorageNames ----------------------------
(***************************************************************************)
(* How an execution trace names the storage slots a call wrote             *)
(* (src/evm/trace/context.rs, MappingSlots and the storage section of      *)
(* src/evm/trace/mod.rs): the layout solc reports, the hashes the trace    *)
(* inspector saw the code compute, and a slot go in, a variable path and   *)
(* its type come out.                                                      *)
(*                                                                         *)
(* A slot is [area, at]: the contract's own slots are area Root, every     *)
(* Keccak hash opens an area of its own, <<"map", key, slot>> or           *)
(* <<"array", slot>>.  Hashes do not collide and lie far apart, so that a  *)
(* comparison of slots of two areas never finds one within an array of     *)
(* the other.  A path is a sequence of <<name>>, <<"index", i>>,           *)
(* <<"key", k>>.  A type is                                                *)
(*   [k |-> "value", bytes], [k |-> "opaque", bytes],                      *)
(*   [k |-> "fixed", base, len], [k |-> "dyn", base],                      *)
(*   [k |-> "mapping", key, base],                                         *)
(*   [k |-> "struct", members] with members [name, at, off, type].         *)
(* An opaque type is elementary, but none StorageType::parse knows: an     *)
(* enum, a payable address, a function or a user-defined value type.       *)
(***************************************************************************)
EXTENDS Naturals, Sequences, FiniteSets, SequencesExt, FiniteSetsExt

CONSTANTS
    Width,      \* bytes of a slot
    Nearby,     \* insert_nearby: how far above a hash a write still counts
    DynLimit    \* the longest dynamic array that is believed

VARIABLES
    storageLayout,  \* the layout of the contract, <<>> before the trace
    seenSha3,       \* MappingSlots.seen_sha3: the mapping hashes computed so far
    mappingSlots,   \* the mapping slots recorded, a subset of them
    arrayStarts,    \* array_starts: the array hashes computed so far
    writes          \* the locations written so far, as Solidity sees them

storageVars == <<storageLayout, seenSha3, mappingSlots, arrayStarts, writes>>

Root == <<"root">>
Slot(area, at) == [area |-> area, at |-> at]
Plus(s, n) == Slot(s.area, s.at + n)
MapArea(key, s) == <<"map", key, s>>
ArrayArea(s) == <<"array", s>>
CeilDiv(a, b) == (a + b - 1) \div b
-----------------------------------------------------------------------------
(* The layout (external: solc's rules) *)

Elementary(t) == t.k \in {"value", "opaque"}

RECURSIVE Bytes(_)
Bytes(t) ==
    CASE Elementary(t) -> t.bytes
      [] t.k = "fixed" -> Width * (IF Bytes(t.base) > Width \div 2
                                   THEN t.len * CeilDiv(Bytes(t.base), Width)
                                   ELSE CeilDiv(t.len, Width \div Bytes(t.base)))
      [] t.k = "struct" -> Width * (Max({m.at + CeilDiv(Bytes(m.type), Width) :
                                            m \in Range(t.members)}))
      [] OTHER -> Width
-----------------------------------------------------------------------------
(* parse_storage_layout; a layout is a sequence of [name, at, off, type] *)

\* StorageType::parse gives nothing for an opaque type or an array of them.
RECURSIVE Parses(_)
Parses(t) == t.k # "opaque" /\ (t.k \in {"fixed", "dyn"} => Parses(t.base))

\* One variable that does not parse, and the contract has no layout.
ParsedLayout(layout) == IF \A v \in Range(layout) : Parses(v.type) THEN layout ELSE <<>>

Names(layout, s) ==
    IF s.area # Root THEN <<>> ELSE SelectSeq(layout, LAMBDA v : v.at = s.at)

\* parse_struct_fields: the members, those of nested structs in their place;
\* one member that does not parse, and the struct has no fields.
RECURSIVE Flat(_, _, _)
Flat(members, prefix, base) ==
    LET nested(m) == IF m.type.k # "struct" THEN <<>>
                     ELSE Flat(m.type.members, Append(prefix, <<m.name>>), base + m.at)
        field(m) == [path |-> Append(prefix, <<m.name>>), at |-> base + m.at, type |-> m.type]
    IN  IF \E m \in Range(members) : ~Parses(m.type) THEN <<>>
        ELSE FoldLeft(LAMBDA fs, m : fs \o (IF nested(m) = <<>> THEN <<field(m)>> ELSE nested(m)),
                      <<>>, members)
BaseOf(t) == IF t.k \in {"fixed", "dyn"} THEN t.base ELSE t
StructFields(t) == IF BaseOf(t).k = "struct" THEN Flat(BaseOf(t).members, <<>>, 0) ELSE <<>>

\* StorageType::slot_size: anything but an elementary type is a slot
SlotSize(t) == IF t.k = "value" THEN t.bytes ELSE Width

\* element_byte_slots, of an array or of the value of a mapping
ElementSlots(t) == CeilDiv(Bytes(BaseOf(t)), Width)

\* resolve_mapping_value_type: through nested mappings; a type that does not
\* parse is taken for a mapping
RECURSIVE ValueType(_)
ValueType(t) == IF t.k = "mapping" THEN ValueType(t.base) ELSE t
StoredType(t) == IF Parses(ValueType(t)) THEN ValueType(t) ELSE [k |-> "mapping"]

\* the label of an entry: every key is parsed, one that cannot be leaves the
\* slot without a name
RECURSIVE KeysParse(_)
KeysParse(t) == t.k = "mapping" => Parses(t.key) /\ KeysParse(t.base)

\* ArrayInfo
Arrays(layout) ==
    {[path |-> <<<<v.name>>>>, type |-> v.type,
      start |-> IF v.type.k = "fixed" THEN Slot(Root, v.at)
                ELSE Slot(ArrayArea(Slot(Root, v.at)), 0)] :
        v \in {w \in Range(layout) : w.type.k \in {"fixed", "dyn"}}}
\* MappingInfo of a base slot
Mappings(layout, s) ==
    {v \in Range(layout) : v.type.k = "mapping" /\ Slot(Root, v.at) = s}
EntryNames(v, names) == IF KeysParse(v.type) THEN names ELSE {}
-----------------------------------------------------------------------------
(* MappingSlots: seen is seen_sha3, [result, key, parent]; the keys known  *)
(* are those of known, a subset of it                                      *)

\* insert: the hash of a slot, and of the slots it was derived from
RECURSIVE Insert(_, _, _)
Insert(seen, known, s) ==
    LET new == {h \in seen : h.result = s} \ known
    IN  IF new = {} THEN known
        ELSE Insert(seen, known \union new, (CHOOSE h \in new : TRUE).parent)

InsertNearby(seen, known, s) ==
    IF \E h \in seen : h.result = s THEN Insert(seen, known, s)
    ELSE LET near == {h \in seen : h.result.area = s.area /\ s.at >= h.result.at
                                   /\ s.at - h.result.at < Nearby}
         IN  IF near = {} THEN known ELSE Insert(seen, known, (CHOOSE h \in near : TRUE).result)

\* key_chain and base_slot
RECURSIVE KeyChain(_, _)
KeyChain(known, s) ==
    LET h == CHOOSE g \in known : g.result = s
    IN  IF \E g \in known : g.result = h.parent
        THEN Append(KeyChain(known, h.parent), <<"key", h.key>>) ELSE <<<<"key", h.key>>>>
RECURSIVE BaseSlot(_, _)
BaseSlot(known, s) ==
    LET h == CHOOSE g \in known : g.result = s
    IN  IF \E g \in known : g.result = h.parent THEN BaseSlot(known, h.parent) ELSE h.parent
-----------------------------------------------------------------------------
(* resolve_storage_name: a set with the path, empty for a slot that is not *)
(* named                                                                   *)

Index(i) == <<"index", i>>

\* a name of the layout
NamePath(v) ==
    CASE v.type.k = "fixed" -> <<<<v.name>>, Index(0)>>
      [] v.type.k = "dyn" -> <<<<v.name>>, <<"length">>>>
      [] OTHER -> <<<<v.name>>>>

\* The path of the struct field at an offset, below a path.
FieldAt(fields, at, path) ==
    LET hits == SelectSeq(fields, LAMBDA f : f.at = at)
    IN  {path \o (IF hits = <<>> THEN <<>> ELSE Head(hits).path)}

\* the arrays of the layout a slot can be an element of, most specific one
InArray(a, s) ==
    /\ s.area = a.start.area /\ s.at >= a.start.at
    /\ LET i == (s.at - a.start.at) \div ElementSlots(a.type)
       IN  IF a.type.k = "fixed" THEN i < a.type.len ELSE i < DynLimit
BestArray(layout, s) ==
    LET in == {a \in Arrays(layout) : InArray(a, s)}
    IN  {a \in in : \A b \in in : b.start.at <= a.start.at}
ElementIndex(a, s) == (s.at - a.start.at) \div ElementSlots(a.type)
ArrayElement(a, s) ==
    FieldAt(StructFields(a.type), (s.at - a.start.at) % ElementSlots(a.type),
            Append(a.path, Index(ElementIndex(a, s))))

\* the slot is the hash of a mapping entry
DirectEntry(v, known, s) ==
    LET t == ValueType(v.type)
        label == <<<<v.name>>>> \o KeyChain(known, s)
    IN  EntryNames(v, IF StoredType(v.type).k = "dyn" THEN {Append(label, <<"length">>)}
                      ELSE FieldAt(StructFields(t), 0, label))

\* the fields that are arrays and cover an offset
ArrayFields(fields, at) ==
    SelectSeq(fields, LAMBDA f : f.type.k \in {"fixed", "dyn"} /\ at >= f.at
                                 /\ at < f.at + CeilDiv(Bytes(f.type), Width))
FixedField(fields, at, label) ==
    LET per(f) == Width \div SlotSize(f.type.base)
        hits == SelectSeq(ArrayFields(fields, at),
                          LAMBDA f : f.type.k = "fixed" /\ (at - f.at) * per(f) < f.type.len)
    IN  IF hits = <<>> THEN {}
        ELSE {label \o Head(hits).path \o <<Index((at - Head(hits).at) * per(Head(hits)))>>}

\* the slot is some way above the hash of a mapping entry
OffsetEntry(v, known, m, at) ==
    LET t == ValueType(v.type)
        stored == StoredType(v.type)
        label == <<<<v.name>>>> \o KeyChain(known, m)
        fields == StructFields(t)
        exact == SelectSeq(fields, LAMBDA f : f.at = at)
        i == at \div ElementSlots(t)
    IN  EntryNames(v,
            IF exact # <<>>
            THEN {label \o Head(exact).path
                  \o (IF Head(exact).type.k = "fixed" THEN <<Index(0)>> ELSE <<>>)}
            ELSE IF FixedField(fields, at, label) # {} THEN FixedField(fields, at, label)
            ELSE IF stored.k = "fixed" /\ i < t.len
            THEN FieldAt(fields, at % ElementSlots(t), Append(label, Index(i)))
            ELSE IF stored.k = "dyn" /\ at = 0 THEN {Append(label, <<"length">>)} ELSE {})

\* an element of a dynamic array that is the value of a mapping; the index
\* shown is the distance in slots
DynamicEntry(v, known, m, at) ==
    LET t == ValueType(v.type)
    IN  IF StoredType(v.type).k # "dyn" \/ at >= DynLimit THEN {}
        ELSE EntryNames(v, FieldAt(StructFields(t), at % ElementSlots(t),
                                   <<<<v.name>>>> \o KeyChain(known, m) \o <<Index(at)>>))

\* the dynamic array in a struct of an array of the layout whose data starts
\* there; starts is array_starts, [result, parent]
NestedArrays(layout, start) ==
    LET field(a) == SelectSeq(StructFields(a.type),
                              LAMBDA f : f.at = (start.parent.at - a.start.at) % ElementSlots(a.type))
    IN  {[array |-> a, field |-> Head(field(a))] :
            a \in {b \in BestArray(layout, start.parent) :
                      field(b) # <<>> /\ Head(field(b)).type.k = "dyn"}}
NestedIndex(n, start, s) ==
    (s.at - start.result.at) \div CeilDiv(SlotSize(n.field.type.base), Width)
NestedElement(layout, start, s) ==
    {Append(n.array.path, Index(ElementIndex(n.array, start.parent)))
     \o n.field.path \o <<Index(NestedIndex(n, start, s))>> :
        n \in {m \in NestedArrays(layout, start) : NestedIndex(m, start, s) < DynLimit}}

\* The tiers, in order.  Of several hashes in reach the code takes any one,
\* so does the model: the tier holds what each of them would give.
FirstTier(tiers) ==
    LET found == SelectSeq(tiers, LAMBDA tier : tier # {}) IN IF found = <<>> THEN {} ELSE Head(found)
MappingsOf(layout, known, h) == Mappings(layout, BaseSlot(known, h.result))
Direct(known, s) == {h \in known : h.result = s}
Below(known, s) == {h \in known : h.result.area = s.area /\ s.at >= h.result.at}
DataOf(known, s) == {h \in known : ArrayArea(h.result) = s.area}
Nested(seen, starts, s) == {a \in starts : /\ a.result.area = s.area /\ s.at >= a.result.at
                                           /\ ~\E h \in seen : h.result = a.parent}
ResolveName(layout, seen, known, starts, s) ==
    FirstTier(<<
        {NamePath(Head(Names(layout, s))) : n \in Range(Names(layout, s))},
        UNION {ArrayElement(a, s) : a \in BestArray(layout, s)},
        UNION {UNION {DirectEntry(v, known, s) : v \in MappingsOf(layout, known, h)} :
                  h \in Direct(known, s)},
        UNION {UNION {OffsetEntry(v, known, h.result, s.at - h.result.at) :
                         v \in MappingsOf(layout, known, h)} : h \in Below(known, s)},
        UNION {UNION {DynamicEntry(v, known, h.result, s.at) : v \in MappingsOf(layout, known, h)} :
                  h \in DataOf(known, s)},
        UNION {NestedElement(layout, a, s) : a \in Nested(seen, starts, s)}>>)
-----------------------------------------------------------------------------
(* resolve_storage_type: the same tiers once more, for the type the value  *)
(* is printed with                                                         *)

\* the type of a slot that is the whole of a variable or its first element
NameType(v) == IF v.type.k = "fixed" THEN v.type.base ELSE v.type
FieldType(fields, at, otherwise) ==
    LET hits == SelectSeq(fields, LAMBDA f : f.at = at)
    IN  IF hits = <<>> THEN otherwise ELSE Head(hits).type

\* unlike the name, without a look at the length of an array
OffsetType(v, at) ==
    LET t == ValueType(v.type)
        fields == StructFields(t)
        exact == SelectSeq(fields, LAMBDA f : f.at = at)
    IN  IF exact # <<>> THEN {BaseOf(Head(exact).type)}
        ELSE IF ArrayFields(fields, at) # <<>> THEN {Head(ArrayFields(fields, at)).type.base}
        ELSE IF StoredType(v.type).k = "fixed" THEN {FieldType(fields, at % ElementSlots(t), t.base)}
        ELSE IF StoredType(v.type).k = "dyn" /\ at = 0 THEN {t} ELSE {}
DynamicType(v, at) ==
    LET t == ValueType(v.type)
    IN  IF StoredType(v.type).k # "dyn" \/ at >= DynLimit THEN {}
        ELSE {FieldType(StructFields(t), at % ElementSlots(t), t.base)}
NestedType(layout, start, s) ==
    {n.field.type.base : n \in {m \in NestedArrays(layout, start) : NestedIndex(m, start, s) < DynLimit}}

ResolveType(layout, seen, known, starts, s) ==
    FirstTier(<<
        {NameType(Head(Names(layout, s))) : n \in Range(Names(layout, s))},
        {FieldType(StructFields(a.type), (s.at - a.start.at) % ElementSlots(a.type), a.type.base) :
            a \in BestArray(layout, s)},
        UNION {{StoredType(v.type) : v \in MappingsOf(layout, known, h)} : h \in Direct(known, s)},
        UNION {UNION {OffsetType(v, s.at - h.result.at) : v \in MappingsOf(layout, known, h)} :
                  h \in Below(known, s)},
        UNION {UNION {DynamicType(v, s.at) : v \in MappingsOf(layout, known, h)} :
                  h \in DataOf(known, s)},
        UNION {NestedType(layout, a, s) : a \in Nested(seen, starts, s)}>>)
-----------------------------------------------------------------------------
(* What a trace prints for a write *)

\* resolve_storage_changes: the variables of the slot whose bytes changed
Covers(v, b) == IF v.off = 0 /\ Bytes(v.type) >= Width THEN TRUE
                ELSE b >= v.off /\ b < v.off + Bytes(v.type)
PackedChanges(layout, s, changed) ==
    {[path |-> NamePath(v), types |-> {v.type}] :
        v \in {w \in Range(Names(layout, s)) : \E b \in changed : Covers(w, b)}}

\* write_frame: the name and, where there is one, the type; empty for the
\* bare slot
Shown(layout, seen, known, starts, s, changed) ==
    IF PackedChanges(layout, s, changed) # {} THEN PackedChanges(layout, s, changed)
    ELSE {[path |-> p, types |-> ResolveType(layout, seen, known, starts, s)] :
             p \in ResolveName(layout, seen, known, starts, s)}
-----------------------------------------------------------------------------
(* Reference: where Solidity keeps the variables.  A location is the place *)
(* of one value: its path, slot, offset, size and type, and the hashes the *)
(* code computes on the way to it.                                         *)

Hash(s, key) == [result |-> Slot(MapArea(key, s), 0), key |-> key, parent |-> s]
Start(s) == [result |-> Slot(ArrayArea(s), 0), parent |-> s]

RECURSIVE Locations(_, _, _, _, _, _, _)
Locations(t, s, off, path, maps, starts, n) ==
    LET packed == Bytes(t.base) <= Width \div 2
        per == Width \div Bytes(t.base)
        element(from, i, st) ==
            IF packed
            THEN Locations(t.base, Plus(from, i \div per), (i % per) * Bytes(t.base),
                           Append(path, Index(i)), maps, st, n)
            ELSE Locations(t.base, Plus(from, i * CeilDiv(Bytes(t.base), Width)), 0,
                           Append(path, Index(i)), maps, st, n)
    IN  CASE Elementary(t) ->
               {[path |-> path, slot |-> s, off |-> off, type |-> t, maps |-> maps,
                 starts |-> starts]}
          [] t.k = "struct" ->
               UNION {Locations(m.type, Plus(s, m.at), m.off, Append(path, <<m.name>>), maps,
                                starts, n) : m \in Range(t.members)}
          [] t.k = "fixed" -> UNION {element(s, i, starts) : i \in 0..(t.len - 1)}
          [] t.k = "dyn" ->
               {[path |-> Append(path, <<"length">>), slot |-> s, off |-> 0, type |-> t,
                 maps |-> maps, starts |-> starts]}
               \union UNION {element(Slot(ArrayArea(s), 0), i, starts \union {Start(s)}) :
                                i \in 0..(n - 1)}
          [] OTHER ->
               UNION {Locations(t.base, Slot(MapArea(key, s), 0), 0, Append(path, <<"key", key>>),
                                maps \union {Hash(s, key)}, starts, n) : key \in 1..2}

\* The locations of a layout, with n elements in every dynamic array.
AllLocations(layout, n) ==
    UNION {Locations(v.type, Slot(Root, v.at), v.off, <<<<v.name>>>>, {}, {}, n) : v \in Range(layout)}
-----------------------------------------------------------------------------
(* The trace: the inspector records the hashes and the writes as they come *)

StorageIdle ==
    /\ storageLayout = <<>> /\ writes = {}
    /\ seenSha3 = {} /\ mappingSlots = {} /\ arrayStarts = {}

OpenTrace(l) ==
    /\ storageLayout = <<>> /\ storageLayout' = l
    /\ UNCHANGED <<seenSha3, mappingSlots, arrayStarts, writes>>

\* TraceInspector::step: the code computes the hashes of a location and
\* writes it, insert_nearby follows the write
Sstore(loc) ==
    /\ writes' = writes \union {loc}
    /\ seenSha3' = seenSha3 \union loc.maps
    /\ arrayStarts' = arrayStarts \union loc.starts
    /\ mappingSlots' = InsertNearby(seenSha3', mappingSlots, loc.slot)
    /\ UNCHANGED storageLayout

\* What the finished trace prints for a write.
Printed(w) ==
    Shown(ParsedLayout(storageLayout), seenSha3, mappingSlots, arrayStarts, w.slot,
          w.off..(w.off + Bytes(w.type) - 1))
-----------------------------------------------------------------------------
(* Properties *)

VariableOf(w) == CHOOSE v \in Range(storageLayout) : <<v.name>> = w.path[1]

\* Types whose elements the trace is known to number by slot instead of by
\* element: packed elements, elements of several slots behind a mapping.
Misnumbered(t) ==
    LET v == ValueType(t)
    IN  v.k \in {"fixed", "dyn"} /\ (Bytes(v.base) <= Width \div 2
                                     \/ (t.k = "mapping" /\ (v.base.k = "struct" \/ ElementSlots(v) > 1)))
\* No part of a type is opaque.
RECURSIVE Transparent(_)
Transparent(t) ==
    CASE Elementary(t) -> Parses(t)
      [] t.k = "struct" -> \A m \in Range(t.members) : Transparent(m.type)
      [] t.k = "mapping" -> Transparent(t.key) /\ Transparent(t.base)
      [] OTHER -> Transparent(t.base)

\* Writes the trace is known to leave unnamed: beyond the first slot of a
\* struct, in a dynamic array behind a mapping, to a variable that has a part
\* of an opaque type, and every write to a contract with a variable, or an
\* array, of an opaque type.
Named(w) ==
    /\ VariableOf(w).type.k # "struct" /\ (w.maps = {} \/ w.starts = {})
    /\ ParsedLayout(storageLayout) # <<>> /\ Transparent(VariableOf(w).type)

\* Known to be printed with the type of the elements: the length of a dynamic
\* array in a struct behind a mapping.
TypedAsElement(w) == w.type.k = "dyn" /\ w.maps # {}

=============================================================================
