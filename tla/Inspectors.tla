----------------------------- MODULE Inspectors -----------------------------
(***************************************************************************)
(* The three inspectors that follow an EVM execution: cheatcodes           *)
(* (src/evm/cheatcode), call traces (src/evm/trace/inspector.rs) and       *)
(* coverage (src/evm/coverage/inspector.rs).  None of them sees the EVM's  *)
(* frames: each keeps its own depth or stack and learns of frames only     *)
(* through hooks.  revm runs a frame as frame_start, call | create,        *)
(* initialize_interp when code runs, step per instruction, call_end |      *)
(* create_end; a cheatcode call is answered from the call hook, and an     *)
(* account without code or a failed transfer ends the frame at once.  The  *)
(* pair inspector calls the hook of both members (external).  An action is *)
(* one EVM event with all the hooks it fires.                              *)
(*                                                                         *)
(* An Option is a set with at most one element.  Coverage maps only grow   *)
(* by union, so the model keeps the points noted by the last event; the    *)
(* trace likewise keeps the frame it closed last.                          *)
(***************************************************************************)
EXTENDS Naturals, Sequences, FiniteSets

CONSTANTS
    Contracts,     \* addresses with code
    Harness,       \* the contract transactions call, one of Contracts
    Vm,            \* VM_ADDRESS, whose code is one STOP
    Users,         \* addresses without code
    Created,       \* the address a CREATE deploys to
    Sender,        \* the caller of every transaction
    Pcs,           \* program counters
    FfiEnabled,    \* CheatcodeConfig::ffi
    Order,         \* stands for the order of secp256k1
    BlockFields,   \* the fields block cheatcodes set, "timestamp" among them
    BlockValues,   \* the values they are called with
    MaxFrames,     \* bound on the call stack
    MaxOps,        \* bound on EVM events
    MaxTxs         \* bound on the transactions of one exec

Zero == "zero"                                   \* Address::ZERO

ASSUME InspectorsAssumption ==
    /\ Harness \in Contracts
    /\ Zero \notin Contracts \union {Vm, Created}   \* no code at address zero
    /\ {Vm, Created, Sender} \cap (Contracts \union Users) = {}
    /\ Vm # Created /\ Sender \notin {Vm, Created}
    /\ FfiEnabled \in BOOLEAN
    /\ "timestamp" \in BlockFields /\ BlockValues \subseteq Nat
    /\ {Order, MaxFrames, MaxOps, MaxTxs} \subseteq Nat

VARIABLES
    frames,    \* the EVM's call stack (external), innermost last
    origin,    \* ctx.tx().caller
    block,     \* ctx.block and ctx.cfg.chain_id: what the cheatcodes set
    cheat,     \* cheatcode::Inspector: depth and ExecutionState
    trace,     \* trace::Inspector: its stack, the number of roots
    cover,     \* coverage::Inspector without its map
    noted,     \* the coverage points the last event recorded
    closed,    \* the trace frame the last event closed
    txs, ops

vars == <<frames, origin, block, cheat, trace, cover, noted, closed, txs, ops>>

Addresses == Contracts \union Users \union {Vm, Created, Sender}
Top(s) == s[Len(s)]
Pop(s) == SubSeq(s, 1, Len(s) - 1)
-----------------------------------------------------------------------------
(* Pranks.                                                                 *)

Prank(addr, orig) ==
    [caller |-> addr, origin |-> orig, by |-> Zero, depth |-> 0, used |-> FALSE]

PrankRefused(c) == (\E p \in c.active : ~p.used) \/ c.start # {}
StartRefused(c) == \E p \in c.active \union c.start : ~p.used

\* A cheatcode handler's outcome and the inspector state it leaves.
Done(res, c) == [res |-> res, cheat |-> c]

OpenPrank(c, addr, orig) ==
    IF PrankRefused(c) THEN Done("revert", c)
    ELSE Done("stop", [c EXCEPT !.active = {Prank(addr, orig)}])

OpenStart(c, addr, orig) ==
    IF StartRefused(c) THEN Done("revert", c)
    ELSE Done("stop", [c EXCEPT !.start = {Prank(addr, orig)}])

StopPrank(c) == Done("stop", [c EXCEPT !.active = {}, !.start = {}])

\* The VM call fills in who opened the prank, and in which frame.
Attributed(ps, caller, parent) ==
    { [p EXCEPT !.by    = IF p.by = Zero THEN caller ELSE p.by,
                !.depth = IF p.depth = 0 THEN parent ELSE p.depth] : p \in ps }

Attribute(c, caller) ==
    [c EXCEPT !.active = Attributed(c.active, caller, c.depth - 1),
              !.start  = Attributed(c.start, caller, c.depth - 1)]

\* maybe_restore_origin: what it leaves of original_origin and of tx.origin.
Restorable(c) == c.active = {} /\ c.start = {} /\ c.original # {}
Restored(c) == IF Restorable(c) THEN [c EXCEPT !.original = {}] ELSE c
RestoredOrigin(c, org) ==
    IF Restorable(c) THEN CHOOSE o \in c.original : TRUE ELSE org

Applies(p, c, caller, target) ==
    p.by = caller /\ c.depth > p.depth /\ target # Vm

Starts(c, caller, target) == { s \in c.start : Applies(s, c, caller, target) }
Singles(c, caller, target) ==
    { p \in c.active : Applies(p, c, caller, target) /\ ~p.used }

\* apply_prank: an open startPrank first, a single prank over it.
ApplyPrank(c, org, caller, target) ==
    LET s == Starts(c, caller, target)
        p == Singles(c, caller, target)
        \* the last to apply decides
        Decides(ps, qs) == IF qs # {} THEN qs ELSE ps
        callers == Decides({ x.caller : x \in s }, { x.caller : x \in p })
        origins == Decides(UNION { x.origin : x \in s }, UNION { x.origin : x \in p })
        Use(ps) == { [x EXCEPT !.used = TRUE] : x \in ps }
    IN  [caller |-> IF callers = {} THEN caller ELSE CHOOSE x \in callers : TRUE,
         origin |-> IF origins = {} THEN org ELSE CHOOSE x \in origins : TRUE,
         cheat  |-> [c EXCEPT
                       !.start    = (@ \ s) \union Use(s),
                       !.active   = (@ \ p) \union Use(p),
                       !.original = IF @ = {} /\ origins # {} THEN {org} ELSE @]]

\* apply_create_prank: the same, and no create targets the VM.
ApplyCreatePrank(c, org, caller) == ApplyPrank(c, org, caller, Created)

\* frame_start
Deeper(c) == [c EXCEPT !.depth = @ + 1]

\* call_end, create_end: the single prank goes with the frame that opened it.
InitiatorExits(c) == \E p \in c.active : p.depth = c.depth
\* Mutant of FrameEnd: the single prank goes once used, not with its frame.
FrameEnd_UsedOnly(c) ==
    LET kept == [c EXCEPT !.active = { p \in @ : ~p.used }]
        up   == [kept EXCEPT !.depth = @ - 1]
    IN  IF kept # c THEN Restored(up) ELSE up
FrameEnd(c) ==
    LET kept == IF InitiatorExits(c) THEN [c EXCEPT !.active = {}] ELSE c
        up   == [kept EXCEPT !.depth = @ - 1]
    IN  IF InitiatorExits(c) THEN Restored(up) ELSE up
FrameEndOrigin(c, org) ==
    IF InitiatorExits(c) THEN RestoredOrigin([c EXCEPT !.active = {}], org) ELSE org
-----------------------------------------------------------------------------
(* The other handlers: the outcome, and the block each leaves.  "none" is  *)
(* no outcome: the call goes on to the VM account's own code.              *)

\* warp, roll, fee, coinbase, prevrandao set the field of the block they name;
\* chainId saturates at u64::MAX, here 1.
SetField(b, f, v) == [b EXCEPT ![f] = IF f = "chainId" /\ v > 1 THEN 1 ELSE v]

AddrOutcome(sk) == IF sk = 0 \/ sk >= Order THEN "revert" ELSE "return"
SignOutcome(sk) == IF sk = 0 \/ sk >= Order THEN "revert" ELSE "return"
\* how a string parses: as a value, not at all, or as bytes of another length
ParseOutcome(how) == IF how = "value" THEN "return" ELSE "none"
ParseBoolOutcome(how) == IF how = "value" THEN "return" ELSE "revert"
ParseBytes32Outcome(how) ==
    CASE how = "value" -> "return" [] how = "length" -> "revert" [] OTHER -> "none"
ToStringOutcome == "return"
FfiOutcome(args, run) ==
    IF ~FfiEnabled \/ args = 0 \/ run # "hex" THEN "revert" ELSE "return"
GetEnvOutcome(var) == IF var = "set" THEN "return" ELSE "revert"
GetEnvOrDefaultOutcome(var) == IF var = "binary" THEN "revert" ELSE "return"
GetLabelOutcome == "return"

\* The outcomes of the handlers that leave the inspector's state alone.
PureOutcomes ==
    { AddrOutcome(sk) : sk \in 0 .. Order } \union { SignOutcome(sk) : sk \in 0 .. Order }
    \union { ParseOutcome(h) : h \in {"value", "text"} }
    \union { ParseBoolOutcome(h) : h \in {"value", "text"} }
    \union { ParseBytes32Outcome(h) : h \in {"value", "length", "text"} }
    \union { FfiOutcome(a, r) : a \in 0 .. 1, r \in {"hex", "text", "failed"} }
    \union { GetEnvOutcome(v) : v \in {"set", "unset", "binary"} }
    \union { GetEnvOrDefaultOutcome(v) : v \in {"set", "unset", "binary"} }
    \union {ToStringOutcome, GetLabelOutcome}
-----------------------------------------------------------------------------
(* Coverage hooks.  A point is its kind, the code and the pc it is in.     *)

CoverInit(cv, addr, code) ==
    [cv EXCEPT !.current = {IF cv.init THEN <<"init", code>> ELSE <<"run", addr, code>>},
               !.init = FALSE]

CoverStep(cv, pc) == [cv EXCEPT !.last = pc]
StepPoints(cv) ==
    { <<"edge", id, cv.last>> : id \in cv.current }
    \union { <<"depth", id, cv.last, IF cv.depth > 63 THEN 63 ELSE cv.depth>> : id \in cv.current }
JumpPoints(cv, dst) == { <<"jump", id, cv.last, dst>> : id \in cv.current }

CoverCall(cv) == [cv EXCEPT !.stack = Append(@, cv.current), !.depth = @ + 1]
CoverCreate(cv) == [CoverCall(cv) EXCEPT !.init = TRUE]
CallPoints(cv, target) == { <<"call", id, cv.last, target>> : id \in cv.current }

\* record_revert
RevertPoints(cv, res) ==
    IF res = "revert" THEN { <<"revert", id, cv.last>> : id \in cv.current } ELSE {}
\* Mutant of CoverCallEnd: the caller's code is not current again.
CoverCallEnd_NoPop(cv) == [cv EXCEPT !.depth = @ - 1, !.stack = Pop(cv.stack)]
CoverCallEnd(cv) ==
    [cv EXCEPT !.depth = @ - 1, !.current = Top(cv.stack), !.stack = Pop(cv.stack)]
CoverCreateEnd(cv) == [CoverCallEnd(cv) EXCEPT !.init = FALSE]

CoverEnter(cv, kind) == IF kind = "create" THEN CoverCreate(cv) ELSE CoverCall(cv)
CoverLeave(cv, kind) == IF kind = "create" THEN CoverCreateEnd(cv) ELSE CoverCallEnd(cv)
-----------------------------------------------------------------------------
(* Trace hooks.                                                            *)

\* call, create: a create does not know its address yet
TraceEnter(t, kind, addr, caller) ==
    [t EXCEPT !.stack = Append(@,
        [depth |-> Len(@), kind |-> kind, addr |-> IF kind = "create" THEN {} ELSE {addr},
         caller |-> caller, time |-> block.timestamp, children |-> 0, changes |-> 0])]

\* Mutant of TraceStore: the change is filed under the root frame.
TraceStore_Root(t) ==
    IF t.stack = <<>> THEN t ELSE [t EXCEPT !.stack[1].changes = @ + 1]
TraceStore(t) ==
    IF t.stack = <<>> THEN t ELSE [t EXCEPT !.stack[Len(t.stack)].changes = @ + 1]

\* call_end, create_end: the frame goes to its parent, or is a root.
TraceLeave(t) ==
    LET rest == Pop(t.stack)
    IN  IF rest = <<>> THEN [t EXCEPT !.stack = rest, !.roots = @ + 1]
        ELSE [t EXCEPT !.stack = [rest EXCEPT ![Len(rest)].children = @ + 1]]

\* The frame with its result; a create learns its address from the outcome.
TraceClosed(t, res, addrs) ==
    [frame |-> [Top(t.stack) EXCEPT !.addr = IF addrs = {} THEN @ ELSE addrs],
     success |-> res # "revert"]
-----------------------------------------------------------------------------
(* EVM events.                                                             *)

Frame(kind, addr, code, caller) ==
    [kind |-> kind, addr |-> addr, code |-> code, caller |-> caller,
     time |-> block.timestamp, children |-> 0, changes |-> 0]

Block0 == [f \in BlockFields |-> 0]

\* Chain::exec builds the inspectors once for a sequence of transactions.
Init ==
    /\ frames = <<>>
    /\ origin = Sender
    /\ block = Block0
    /\ cheat = [depth |-> 0, active |-> {}, start |-> {}, original |-> {}]
    /\ trace = [stack |-> <<>>, roots |-> 0]
    /\ cover = [current |-> {}, stack |-> <<>>, depth |-> 0, last |-> 0, init |-> FALSE]
    /\ noted = {} /\ closed = {}
    /\ txs = 0 /\ ops = 0

Count == ops < MaxOps /\ ops' = ops + 1
Running == frames # <<>>
Me == Top(frames)
\* The VM account's code is a single STOP.
Executes == Running /\ Me.addr # Vm /\ Count

\* The caller's frame after a sub-call: what the EVM knows of it.
WithChild(fs) == IF fs = <<>> THEN fs ELSE [fs EXCEPT ![Len(fs)].children = @ + 1]

EnterPoints(cv, kind, addr) == IF kind = "create" THEN {} ELSE CallPoints(cv, addr)

\* A frame for code: every hook up to initialize_interp.  a is what
\* frame_start made of the inputs, cv the coverage inspector at the opcode.
EnterCode(kind, addr, code, a, cv) ==
    /\ frames' = Append(frames, Frame(kind, addr, code, a.caller))
    /\ cheat' = a.cheat
    /\ origin' = a.origin
    /\ trace' = TraceEnter(trace, kind, addr, a.caller)
    /\ cover' = CoverInit(CoverEnter(cv, kind), addr, code)
    /\ noted' = StepPoints(cv) \union EnterPoints(cv, kind, addr)
    /\ closed' = {}
    /\ UNCHANGED block

\* A frame that ends where it starts: no code runs in it.
EnterAndLeave(kind, addr, a, cv, res) ==
    LET in == CoverEnter(cv, kind)
        t  == TraceEnter(trace, kind, addr, a.caller)
    IN  /\ frames' = WithChild(frames)
        /\ cheat' = FrameEnd(a.cheat)
        /\ origin' = FrameEndOrigin(a.cheat, a.origin)
        /\ cover' = CoverLeave(in, kind)
        /\ noted' = StepPoints(cv) \union EnterPoints(cv, kind, addr) \union RevertPoints(in, res)
        /\ trace' = TraceLeave(t)
        /\ closed' = {TraceClosed(t, res, {})}
        /\ UNCHANGED txs

\* A transaction: tx.origin is the sender again, the inspectors stay.
BeginTx ==
    /\ ~Running /\ txs < MaxTxs /\ Count
    /\ txs' = txs + 1
    /\ EnterCode("call", Harness, Harness, ApplyPrank(Deeper(cheat), Sender, Sender, Harness), cover)

\* An instruction that opens and ends no frame.
Instruction(pc, points, fs, t) ==
    /\ Executes
    /\ frames' = fs /\ trace' = t
    /\ cover' = CoverStep(cover, pc)
    /\ noted' = StepPoints(CoverStep(cover, pc)) \union points
    /\ closed' = {}
    /\ UNCHANGED <<origin, block, cheat, txs>>

Step(pc) == Instruction(pc, {}, frames, trace)
\* JUMP, or JUMPI whose condition holds
Jump(pc, dst) == Instruction(pc, JumpPoints(CoverStep(cover, pc), dst), frames, trace)
Sstore(pc) ==
    Running /\ Instruction(pc, {}, [frames EXCEPT ![Len(frames)].changes = @ + 1], TraceStore(trace))

\* CALL to a contract, or to the VM with what is no cheatcode or not parsed.
Call(pc, to) ==
    /\ Executes /\ Len(frames) < MaxFrames
    /\ EnterCode("call", to, to, ApplyPrank(Deeper(cheat), origin, Me.addr, to), CoverStep(cover, pc))
    /\ UNCHANGED txs

\* DELEGATECALL: another contract's code under this address and this caller.
DelegateCall(pc, lib) ==
    /\ Executes /\ Len(frames) < MaxFrames
    /\ EnterCode("delegate", Me.addr, lib, ApplyPrank(Deeper(cheat), origin, Me.caller, Me.addr),
                 CoverStep(cover, pc))
    /\ UNCHANGED txs

\* CALL to an account without code, or one that fails before it runs.
CallPlain(pc, to, res) ==
    /\ Executes
    /\ EnterAndLeave("call", to, ApplyPrank(Deeper(cheat), origin, Me.addr, to),
                     CoverStep(cover, pc), res)
    /\ UNCHANGED block

Create(pc) ==
    /\ Executes /\ Len(frames) < MaxFrames
    /\ EnterCode("create", Created, Created, ApplyCreatePrank(Deeper(cheat), origin, Me.addr),
                 CoverStep(cover, pc))
    /\ UNCHANGED txs

\* CREATE that fails before its init code runs: no funds, an address in use.
CreateFails(pc) ==
    /\ Executes
    /\ EnterAndLeave("create", Created, ApplyCreatePrank(Deeper(cheat), origin, Me.addr),
                     CoverStep(cover, pc), "revert")
    /\ UNCHANGED block

\* A cheatcode call: the call hook answers it with what handler d did.
Cheatcode(d, restore) ==
    LET c == Attribute(d.cheat, Me.addr)
    IN  EnterAndLeave("call", Vm,
            [caller |-> Me.addr,
             cheat  |-> IF restore THEN Restored(c) ELSE c,
             origin |-> IF restore THEN RestoredOrigin(c, origin) ELSE origin],
            CoverStep(cover, 0), d.res)

CallPrank(addr, orig) ==
    Executes /\ Cheatcode(OpenPrank(Deeper(cheat), addr, orig), FALSE) /\ UNCHANGED block
CallStartPrank(addr, orig) ==
    Executes /\ Cheatcode(OpenStart(Deeper(cheat), addr, orig), FALSE) /\ UNCHANGED block
CallStopPrank ==
    Executes /\ Cheatcode(StopPrank(Deeper(cheat)), TRUE) /\ UNCHANGED block
CallBlock(b) == Executes /\ Cheatcode(Done("stop", Deeper(cheat)), FALSE) /\ block' = b
CallPure(res) == Executes /\ Cheatcode(Done(res, Deeper(cheat)), FALSE) /\ UNCHANGED block

\* RETURN, STOP or REVERT of the running frame.
Return(pc, res) ==
    LET cv == CoverStep(cover, pc)
    IN  /\ Running /\ Count
        /\ Me.addr = Vm => res = "stop" /\ pc = 0
        /\ frames' = WithChild(Pop(frames))
        /\ cheat' = FrameEnd(cheat)
        /\ origin' = FrameEndOrigin(cheat, origin)
        /\ cover' = CoverLeave(cv, Me.kind)
        /\ noted' = StepPoints(cv) \union RevertPoints(cv, res)
        /\ trace' = TraceLeave(trace)
        /\ closed' = {TraceClosed(trace, res,
                        IF Me.kind = "create" /\ res # "revert" THEN {Created} ELSE {})}
        /\ UNCHANGED <<block, txs>>

Next ==
    \/ BeginTx
    \/ CallStopPrank
    \/ \E pc \in Pcs :
          \/ Step(pc) \/ Sstore(pc) \/ Create(pc) \/ CreateFails(pc)
          \/ \E dst \in Pcs : Jump(pc, dst)
          \/ \E to \in Contracts \union {Vm} : Call(pc, to)
          \/ \E lib \in Contracts : DelegateCall(pc, lib)
          \/ \E to \in Users, res \in {"stop", "revert"} : CallPlain(pc, to, res)
          \/ \E res \in {"stop", "revert"} : Return(pc, res)
    \/ \E addr \in Users, orig \in {{}} \union { {u} : u \in Users } :
          CallPrank(addr, orig) \/ CallStartPrank(addr, orig)
    \/ \E f \in BlockFields, v \in BlockValues : CallBlock(SetField(block, f, v))
    \/ \E res \in PureOutcomes \ {"none"} : CallPure(res)

Spec == Init /\ [][Next]_vars
-----------------------------------------------------------------------------
(* Correctness.                                                            *)

\* A single-call prank never outlives the frame that opened it: while one
\* is open, that frame is on the stack at the recorded depth and has the
\* recorded address, whatever calls, creates, reverts and nested pranks
\* happened since (call, call_end and create_end of the cheatcode inspector).
ActiveHasInitiator ==
    \A p \in cheat.active : p.depth \in 1 .. Len(frames) /\ frames[p.depth].addr = p.by

\* With no prank open, the contracts see the transaction's own tx.origin and
\* nothing is left to restore (patch_origin against maybe_restore_origin).
OriginRestored ==
    cheat.active = {} /\ cheat.start = {} => origin = Sender /\ cheat.original = {}

\* A prank ends with the frame that opened it and takes its origin along.
PranksEnd == ActiveHasInitiator /\ OriginRestored

\* A trace frame against the EVM frame it stands for.
Mirrors(t, f) ==
    /\ t.kind = f.kind /\ t.caller = f.caller /\ t.time = f.time
    /\ t.children = f.children /\ t.changes = f.changes
    /\ t.kind # "create" => t.addr = {f.addr}

\* The inspectors, which count frames each for itself, agree with the EVM on
\* the stack, and the trace files every call and storage change under the
\* frame that made it, frames answered by a cheatcode or failing at once
\* included.
LayersAgree ==
    /\ cheat.depth = Len(frames) /\ cover.depth = Len(frames)
    /\ Len(cover.stack) = Len(frames) /\ Len(trace.stack) = Len(frames)
    /\ \A i \in 1 .. Len(frames) :
          trace.stack[i].depth = i - 1 /\ Mirrors(trace.stack[i], frames[i])

\* The coverage id of a frame's code.
CodeId(f) == IF f.kind = "create" THEN <<"init", f.code>> ELSE <<"run", f.addr, f.code>>

\* Every coverage point an instruction leaves, the revert of a frame it ends
\* included, is in the code of the frame that executed it and at its pc:
\* contract_stack, last_pc and is_initcode survive nested frames.
PointsAtTheirInstruction ==
    [][ /\ Running => \A x \in noted' : x[2] = CodeId(Me)
        /\ \A x, y \in noted' : x[3] = y[3] ]_vars
=============================================================================
