--------------------------- MODULE CoverageReport ---------------------------
(***************************************************************************)
(* The lcov report of a campaign (src/evm/coverage/reporter.rs,            *)
(* source_map.rs): the bytecodes that were executed are matched with the   *)
(* compiled contracts although libraries and immutables were filled in     *)
(* since, program counters become instructions, source map entries, lines  *)
(* and functions.                                                          *)
(*                                                                         *)
(* A compilation unit is [sources, contracts, functions, definitions]:     *)
(*   sources    by id: the lines of the file, [len, text], text one of     *)
(*              "code", "close", "blank", "comment"; <<>> is a file that   *)
(*              cannot be read.  An offset is a position in the file.      *)
(*   contracts  [library, deployed, init], the two bytecode objects each   *)
(*              [code, holes, map]: bytes, the positions of library        *)
(*              addresses and immutables, the source map, an entry         *)
(*              [off, src] per instruction with src -1 for none            *)
(*   functions  [kind, src, off, len, body]; definitions [src, off]        *)
(* solc's output maps are hash maps: contracts may come in any order.      *)
(***************************************************************************)
EXTENDS Integers, Sequences, FiniteSets, SequencesExt, FiniteSetsExt

VARIABLES
    compiled,   \* the compilation unit, <<>> before the campaign
    deployed,   \* the bytecodes seen: [contract, initcode, code] by CoverageId
    executed    \* raw_edges: how often each pc of them was executed

coverageVars == <<compiled, deployed, executed>>
-----------------------------------------------------------------------------
(* BytecodeIndex *)

Prefix == 115         \* PUSH20, the start of a library's runtime code
AddressBytes == 20

\* zero_out_positions; positions count from 0
Zeroed(code, holes) == [i \in DOMAIN code |-> IF i - 1 \in holes THEN 0 ELSE code[i]]

\* deployed_index_entry: link references, immutables and the address at the
\* start of a library are masked
DeployedEntry(c, contract) ==
    LET d == contract.deployed
        holes == d.holes \union (IF contract.library /\ Head(d.code) = Prefix
                                 THEN 1..AddressBytes ELSE {})
    IN  IF d.code = <<>> THEN <<>>
        ELSE <<[contract |-> c, initcode |-> FALSE, holes |-> holes, len |-> Len(d.code),
                hash |-> Zeroed(d.code, holes)]>>
\* initcode_index_entry: link references only
InitcodeEntry(c, contract) ==
    LET i == contract.init
    IN  IF i.code = <<>> THEN <<>>
        ELSE <<[contract |-> c, initcode |-> TRUE, holes |-> i.holes, len |-> Len(i.code),
                hash |-> Zeroed(i.code, i.holes)]>>
Entries(unit) ==
    FoldLeft(LAMBDA es, c : es \o DeployedEntry(c, unit.contracts[c]) \o InitcodeEntry(c, unit.contracts[c]),
             <<>>, [c \in DOMAIN unit.contracts |-> c])

\* BytecodeIndex::find works on one buffer: what an entry masked is put back
\* before the next one is tried
Restored_Not(masked, raw, holes) == masked
Restored(masked, raw, holes) == [i \in DOMAIN raw |-> IF i - 1 \in holes THEN raw[i] ELSE masked[i]]
Find(unit, raw) ==
    FoldLeft(LAMBDA acc, e :
               IF acc.found # {} \/ e.len # Len(raw) THEN acc
               ELSE LET masked == Zeroed(acc.buffer, e.holes)
                    IN  IF masked = e.hash THEN [acc EXCEPT !.found = {e}]
                        ELSE [acc EXCEPT !.buffer = Restored(masked, raw, e.holes)],
             [buffer |-> raw, found |-> {}], Entries(unit)).found
-----------------------------------------------------------------------------
(* From a program counter to a line *)

\* the operand bytes of an instruction
PushSize(op) == IF op \in 96..127 THEN op - 95 ELSE 0

\* build_pc_to_source_map: the program counters where instructions start
RECURSIVE StartsFrom(_, _)
StartsFrom(code, pc) ==
    IF pc >= Len(code) THEN <<>> ELSE <<pc>> \o StartsFrom(code, pc + 1 + PushSize(code[pc + 1]))
PcMap(object) ==
    LET starts == StartsFrom(object.code, 0)
    IN  {[pc |-> starts[i], off |-> object.map[i].off, src |-> object.map[i].src] :
            i \in DOMAIN starts \intersect DOMAIN object.map}

\* offset_to_line: a line holds its own end of line
RECURSIVE LineFrom(_, _, _)
LineFrom(lines, off, n) ==
    IF n = Len(lines) \/ off < lines[n].len THEN n ELSE LineFrom(lines, off - lines[n].len, n + 1)
Line(lines, off) == LineFrom(lines, off, 1)

Readable(unit, e) == e.src \in DOMAIN unit.sources /\ unit.sources[e.src] # <<>>
PlaceOf(unit, e) == <<e.src, Line(unit.sources[e.src], e.off)>>
-----------------------------------------------------------------------------
(* CoverageReporter::build; a place is a file and a line *)

\* the entry each bytecode seen was matched with
Matched(unit, seen, id) == Find(unit, seen[id].code)
ObjectOf(unit, e) == IF e.initcode THEN unit.contracts[e.contract].init
                     ELSE unit.contracts[e.contract].deployed
MatchedContracts(unit, seen) == {e.contract : e \in UNION {Matched(unit, seen, id) : id \in DOMAIN seen}}

\* step 5: the places of the instructions that were executed
LineHits(unit, seen, counts) ==
    UNION {UNION {{PlaceOf(unit, m) : m \in {n \in PcMap(ObjectOf(unit, e)) :
                                               counts[id][n.pc] > 0 /\ Readable(unit, n)}} :
                     e \in Matched(unit, seen, id)} : id \in DOMAIN seen}
\* populate_source_map_lines_from_deployed, and step 5
SourceMapLines(unit, seen, counts) ==
    UNION {{PlaceOf(unit, m) : m \in {n \in Range(unit.contracts[c].deployed.map) : Readable(unit, n)}} :
              c \in MatchedContracts(unit, seen)}
    \union LineHits(unit, seen, counts)

\* step 6
DefinitionLines(unit) == {PlaceOf(unit, d) : d \in {e \in unit.definitions : Readable(unit, e)}}
Executable(unit, place) ==
    unit.sources[place[1]][place[2]].text = "code" /\ place \notin DefinitionLines(unit)

\* collect_function_coverage: a function the source map knows, with the
\* count of the first instruction in its range
Covered(unit, seen, counts, f) ==
    /\ f.body /\ Readable(unit, f)
    /\ \E l \in Line(unit.sources[f.src], f.off)..Line(unit.sources[f.src], f.off + f.len) :
           <<f.src, l>> \in SourceMapLines(unit, seen, counts)
EntryPc(object, f) ==
    {m.pc : m \in {n \in PcMap(object) : n.src = f.src /\ n.off >= f.off /\ n.off < f.off + f.len}}
FunctionHits(unit, seen, counts, f) ==
    Max({0} \union UNION {{counts[id][Min(EntryPc(ObjectOf(unit, e), f))] :
                             e \in {g \in Matched(unit, seen, id) :
                                      /\ g.initcode = (f.kind = "constructor")
                                      /\ EntryPc(ObjectOf(unit, g), f) # {}}} : id \in DOMAIN seen})

\* steps 7 and 8: the DA entries, place and hit; the line a function starts
\* in is hit when the function was entered, the last one if there are several
Build(unit, seen, counts) ==
    LET functions == SelectSeq(unit.functions, LAMBDA f : Covered(unit, seen, counts, f))
        starts == {PlaceOf(unit, f) : f \in Range(functions)}
        at(place) == SelectSeq(functions, LAMBDA f : PlaceOf(unit, f) = place)
        hit(place) == IF place \in starts THEN FunctionHits(unit, seen, counts, Last(at(place))) > 0
                      ELSE place \in LineHits(unit, seen, counts)
    IN  {[place |-> p, hit |-> hit(p)] :
            p \in {q \in SourceMapLines(unit, seen, counts) : Executable(unit, q)} \union starts}
-----------------------------------------------------------------------------
(* The campaign, as the reporter sees it (external: the EVM) *)

CoverageIdle == compiled = <<>> /\ deployed = <<>> /\ executed = <<>>

StartCampaign(unit) == compiled = <<>> /\ compiled' = unit /\ UNCHANGED <<deployed, executed>>

Object(c, initcode) == IF initcode THEN compiled.contracts[c].init ELSE compiled.contracts[c].deployed

\* A contract is deployed: values fill the holes, and a library's own
\* address the one at its start; arguments follow an initcode.
Filled(c, initcode, value) ==
    LET o == Object(c, initcode)
        holes == o.holes \union (IF compiled.contracts[c].library /\ ~initcode THEN 1..AddressBytes ELSE {})
    IN  [i \in DOMAIN o.code |-> IF i - 1 \in holes THEN value ELSE o.code[i]]
Deploy(c, initcode, value, arguments) ==
    /\ Object(c, initcode).code # <<>> /\ (arguments # <<>> => initcode)
    /\ deployed' = Append(deployed, [contract |-> c, initcode |-> initcode, arguments |-> arguments,
                                     code |-> Filled(c, initcode, value) \o arguments])
    /\ executed' = Append(executed, [pc \in 0..(Len(Last(deployed').code) - 1) |-> 0])
    /\ UNCHANGED compiled

\* The k-th instruction of an object starts behind those before it; sizes
\* are the lengths solc gave them.
TruePc(o, k) == FoldLeft(LAMBDA n, i : n + i, 0, SubSeq(o.sizes, 1, k - 1))
Execute(id, k) ==
    LET o == Object(deployed[id].contract, deployed[id].initcode)
    IN  /\ executed' = [executed EXCEPT ![id][TruePc(o, k)] = @ + 1]
        /\ UNCHANGED <<compiled, deployed>>
-----------------------------------------------------------------------------
(* Properties *)

\* The instructions that were executed, as source map entries with the kind
\* of the code; those of an initcode with arguments are known to be lost.
Ran ==
    UNION {LET o == Object(deployed[id].contract, deployed[id].initcode)
           IN  {[off |-> o.map[k].off, src |-> o.map[k].src, initcode |-> deployed[id].initcode,
                 lost |-> deployed[id].arguments # <<>>] :
                   k \in {j \in DOMAIN o.map : executed[id][TruePc(o, j)] > 0}} : id \in DOMAIN deployed}
Within(e, f) == e.src = f.src /\ e.off >= f.off /\ e.off < f.off + f.len
                /\ e.initcode = (f.kind = "constructor")

\* The coverage report tells the truth about the run: a line of code an
\* executed instruction stems from is reported as hit, whatever libraries
\* and immutables were filled into the code and whichever other contracts
\* have the same size (a function's first line counts for its entry
\* instead); and a line is reported as hit only if an instruction of it, or
\* of the function that starts there, was executed (reporter.rs
\* BytecodeIndex::find, build_pc_to_source_map, build).
CoverageTrue ==
    compiled # <<>> =>
        LET report == Build(compiled, deployed, executed)
            ran == {e \in Ran : Readable(compiled, e)}
            starts == {PlaceOf(compiled, f) : f \in {g \in Range(compiled.functions) : Readable(compiled, g)}}
        IN  /\ \A e \in ran : ~e.lost /\ Executable(compiled, PlaceOf(compiled, e))
                              /\ PlaceOf(compiled, e) \notin starts
                              => [place |-> PlaceOf(compiled, e), hit |-> TRUE] \in report
            /\ \A r \in report : r.hit =>
                   \/ \E e \in ran : PlaceOf(compiled, e) = r.place
                   \/ \E f \in Range(compiled.functions) :
                         PlaceOf(compiled, f) = r.place /\ \E e \in ran : Within(e, f)
=============================================================================
