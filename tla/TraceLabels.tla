---------------------------- MODULE TraceLabels ----------------------------
(***************************************************************************)
(* The names a printed trace gives to addresses (src/evm/trace/mod.rs):    *)
(* from the bytecode of created contracts, from rvm.label calls anywhere   *)
(* in the trace, from the code behind calls, and from the labels of the    *)
(* command.                                                                *)
(*                                                                         *)
(* A trace is a sequence of roots, one for each call of the sequence, and  *)
(* a root the sequence of its frames in call order: [kind, addr, codeAddr, *)
(* named, deployed, label].  named is the compiled contract the bytecode   *)
(* of the frame, or its initcode, was found to be, "" when none; deployed  *)
(* is what the code a creation left was found to be; label is what a call  *)
(* of rvm.label sets, <<addr, text>>, and <<>> for any other frame.        *)
(***************************************************************************)
EXTENDS Naturals, Sequences, FiniteSets

CONSTANTS
    Places,         \* addresses
    NoAddress,      \* of a creation that failed before it had one
    Frames,         \* the frames a trace may have
    MaxCallFrames,  \* bound: frames of a trace
    ContextLabels   \* TraceContext.labels: address to text, NoName for none

NoName == ""

\* A label of rvm.label is a text; what a frame creates is its own code.
ASSUME LabelsAssumption ==
    /\ MaxCallFrames \in Nat /\ DOMAIN ContextLabels = Places /\ NoAddress \notin Places
    /\ \A f \in Frames :
          /\ f.addr \in Places \/ (f.kind = "create" /\ f.addr = NoAddress)
          /\ f.kind # "create" => f.codeAddr \in Places
          /\ f.kind = "create" => f.codeAddr = f.addr
          /\ f.kind = "create" /\ f.deployed # NoName => f.addr # NoAddress /\ f.deployed = f.named
          /\ f.label # <<>> => f.label[1] \in Places /\ f.label[2] # NoName

VARIABLES roots     \* the trace

NoLabels == [a \in Places |-> NoName]
-----------------------------------------------------------------------------
\* collect_create_labels: by bytecode or initcode, else by the context
CreateLabels(labels, frame) ==
    IF frame.kind # "create" \/ frame.addr = NoAddress THEN labels
    ELSE [labels EXCEPT ![frame.addr] = IF frame.named # NoName THEN frame.named
                                        ELSE IF ContextLabels[frame.addr] # NoName
                                        THEN ContextLabels[frame.addr] ELSE @]
\* collect_vm_labels
VmLabels(labels, frame) ==
    IF frame.label = <<>> THEN labels ELSE [labels EXCEPT ![frame.label[1]] = frame.label[2]]
\* collect_code_hash_labels: only what nothing else has named
CodeLabels_Always(labels, frame) ==
    IF frame.kind = "create" \/ frame.named = NoName THEN labels
    ELSE [labels EXCEPT ![frame.codeAddr] = frame.named]
CodeLabels(labels, frame) ==
    IF frame.kind = "create" \/ labels[frame.codeAddr] # NoName \/ ContextLabels[frame.codeAddr] # NoName
    THEN labels
    ELSE [labels EXCEPT ![frame.codeAddr] = frame.named]

Labelled(pass, labels, frame) ==
    CASE pass = "create" -> CreateLabels(labels, frame)
      [] pass = "vm" -> VmLabels(labels, frame)
      [] pass = "code" -> CodeLabels(labels, frame)

\* One pass over the frames of a root, in call order.
Pass(pass, labels, root) ==
    LET upto[n \in 0 .. Len(root)] ==
            IF n = 0 THEN labels ELSE Labelled(pass, upto[n - 1], root[n])
    IN  upto[Len(root)]

\* display_impl: three passes over every root, in order
CollectRoot(labels, root) ==
    Pass("code", Pass("vm", Pass("create", labels, root), root), root)
Collect(trace) ==
    LET upto[n \in 0 .. Len(trace)] ==
            IF n = 0 THEN NoLabels ELSE CollectRoot(upto[n - 1], trace[n])
    IN  upto[Len(trace)]

\* write_frame: the name an address is printed with, as a caller or as what
\* is called; NoName is the bare address
PrintedName(trace, a) ==
    LET labels == Collect(trace) IN IF labels[a] # NoName THEN labels[a] ELSE ContextLabels[a]

\* write_frame: the name on the line of a frame.  A creation shows what its
\* code is known to be, before any label; NoName is "<unknown>" there.
LineName(trace, frame) ==
    IF frame.kind = "create" /\ frame.deployed # NoName THEN frame.deployed
    ELSE IF frame.codeAddr = NoAddress THEN NoName
    ELSE PrintedName(trace, frame.codeAddr)
-----------------------------------------------------------------------------
(* A trace grows by the calls of the sequence and by the frames below them *)

\* The places in a trace: the root, and the frame of the root.
Positions(trace) == UNION {{<<j, i>> : i \in DOMAIN trace[j]} : j \in DOMAIN trace}

LabelsIdle == roots = <<>>
NextRoot(frame) == roots' = Append(roots, <<frame>>)
NextFrame(frame) == roots # <<>> /\ roots' = [roots EXCEPT ![Len(roots)] = Append(@, frame)]

LabelsNext ==
    /\ Cardinality(Positions(roots)) < MaxCallFrames
    /\ \E frame \in Frames : NextRoot(frame) \/ NextFrame(frame)

LabelsSpec == LabelsIdle /\ [][LabelsNext]_roots
-----------------------------------------------------------------------------
(* Properties *)

\* The calls of rvm.label that name the address.
LabelCalls(trace, a) ==
    {p \in Positions(trace) : trace[p[1]][p[2]].label # <<>> /\ trace[p[1]][p[2]].label[1] = a}

Before(p, q) == p[1] < q[1] \/ (p[1] = q[1] /\ p[2] < q[2])
LastCall(trace, a, p) == p \in LabelCalls(trace, a) /\ \A q \in LabelCalls(trace, a) : ~Before(p, q)

\* The address is created in a root behind the one that labels it.
CreatedLater(trace, a, p) ==
    \E q \in Positions(trace) :
        p[1] < q[1] /\ trace[q[1]][q[2]].kind = "create" /\ trace[q[1]][q[2]].addr = a

\* The code behind an address does not change within a trace.
CodeStays == \A f, g \in Frames : f.codeAddr = g.codeAddr /\ f.codeAddr # NoAddress => f.named = g.named

FrameAt(trace, p) == trace[p[1]][p[2]]

\* A label the harness gave with rvm.label is the name the address has in
\* the whole trace, the last one if there are several, wherever in the trace
\* it was given and whatever the code there is, unless a later call creates
\* the address: as a caller, and on the line of every frame that runs its
\* code, but the line that creates it with code that is recognised, which
\* shows the compiled contract.  An address without labels shows the
\* compiled contract found behind it, on those lines too (trace/mod.rs
\* display_impl and its passes, write_frame).
LabelWins ==
    \A a \in Places :
        /\ \A p \in Positions(roots) :
              LastCall(roots, a, p) /\ ~CreatedLater(roots, a, p) =>
                  LET text == FrameAt(roots, p).label[2]
                  IN  /\ PrintedName(roots, a) = text
                      /\ \A q \in Positions(roots) :
                            LET f == FrameAt(roots, q)
                            IN  f.codeAddr = a /\ (f.kind = "create" => f.deployed = NoName) =>
                                    LineName(roots, f) = text
        /\ LabelCalls(roots, a) = {} /\ ContextLabels[a] = NoName =>
              \A p \in Positions(roots) :
                  LET f == FrameAt(roots, p)
                  IN  f.codeAddr = a /\ f.named # NoName =>
                          PrintedName(roots, a) = f.named /\ LineName(roots, f) = f.named
=============================================================================
