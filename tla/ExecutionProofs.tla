-------------------------- MODULE ExecutionProofs ---------------------------
(***************************************************************************)
(* What holds of the inspectors of an execution and of the coverage map    *)
(* the executions share, for any contracts, any depth of calls, any number *)
(* of workers and any executions; and of what surrounds the executions:    *)
(* the statistics of a campaign, the labels of a trace and the deployment  *)
(* of the contract a command calls.                                        *)
(***************************************************************************)
EXTENDS Inspectors, SharedCoverage, StatsReport, TraceLabels, Deployment,
        SequenceTheorems, FiniteSetTheorems, ProofBasics, TLAPS

-----------------------------------------------------------------------------
(***************************************************************************)
(* The inspectors of an execution.                                         *)
(***************************************************************************)

(* Stacks.                                                                 *)

\* A push adds one element on top.
LEMMA Pushed ==
    ASSUME NEW S, NEW s \in Seq(S), NEW x \in S
    PROVE  /\ Append(s, x) \in Seq(S) /\ Len(Append(s, x)) = Len(s) + 1
           /\ Append(s, x)[Len(s) + 1] = x
           /\ \A i \in 1 .. Len(s) : Append(s, x)[i] = s[i]
           /\ Top(Append(s, x)) = x /\ Pop(Append(s, x)) = s
<1>1. /\ Append(s, x) \in Seq(S) /\ Len(Append(s, x)) = Len(s) + 1
      /\ Append(s, x)[Len(s) + 1] = x
      /\ \A i \in 1 .. Len(s) : Append(s, x)[i] = s[i]
    OBVIOUS
<1>2. SubSeq(Append(s, x), 1, Len(s)) = s
    OBVIOUS
<1> QED
    BY <1>1, <1>2 DEF Top, Pop

\* A pop takes it off.
LEMMA Popped ==
    ASSUME NEW S, NEW s \in Seq(S), s # <<>>
    PROVE  /\ Pop(s) \in Seq(S) /\ Len(s) >= 1 /\ Len(Pop(s)) = Len(s) - 1
           /\ \A i \in 1 .. Len(s) - 1 : Pop(s)[i] = s[i]
           /\ Top(s) \in S /\ (Pop(s) = <<>> <=> Len(s) = 1)
<1>1. Len(s) \in Nat /\ Len(s) >= 1
    OBVIOUS
<1>2. \A i \in 1 .. Len(s) - 1 : s[i] \in S
    BY <1>1
<1>3. Len(SubSeq(s, 1, Len(s) - 1)) = Len(s) - 1
    BY <1>1
<1>4. \A i \in 1 .. Len(s) - 1 : SubSeq(s, 1, Len(s) - 1)[i] = s[i]
    BY <1>1
<1>5. SubSeq(s, 1, Len(s) - 1) \in Seq(S)
    BY <1>1, <1>2, <1>3, <1>4
<1>6. Pop(s) \in Seq(S) /\ Len(Pop(s)) = Len(s) - 1 /\ \A i \in 1 .. Len(s) - 1 : Pop(s)[i] = s[i]
    BY <1>3, <1>4, <1>5 DEF Pop
<1>7. Pop(s) = <<>> <=> Len(Pop(s)) = 0
    BY <1>6
<1>8. Top(s) \in S
    BY <1>1 DEF Top
<1> QED
    BY <1>1, <1>6, <1>7, <1>8

-----------------------------------------------------------------------------
(* The inspectors: types.                                                  *)

Deployed == Contracts \union {Vm, Created}

Kinds == {"call", "delegate", "create"}

EvmFrames ==
    [kind : Kinds, addr : Deployed, code : Deployed, caller : Addresses,
     time : Nat, children : Nat, changes : Nat]

TraceFrames ==
    [depth : Nat, kind : Kinds, addr : SUBSET Addresses, caller : Addresses,
     time : Nat, children : Nat, changes : Nat]

Pranks ==
    [caller : Addresses, origin : SUBSET Addresses, by : Addresses \union {Zero},
     depth : Nat, used : BOOLEAN]

CheatStates == [depth : Nat, active : SUBSET Pranks, start : SUBSET Pranks, original : SUBSET {Sender}]

CodeIds == ({"init"} \X Deployed) \union ({"run"} \X Deployed \X Deployed)

Covers == [current : SUBSET CodeIds, stack : Seq(SUBSET CodeIds), depth : Nat, last : Nat \union Pcs, init : BOOLEAN]

InspectorsTyped ==
    /\ frames \in Seq(EvmFrames)
    /\ origin \in Addresses
    /\ block \in [BlockFields -> Nat]
    /\ cheat \in CheatStates
    /\ trace \in [stack : Seq(TraceFrames), roots : Nat]
    /\ cover \in Covers

-----------------------------------------------------------------------------
(* The inductive invariant, inspector by inspector.                        *)

\* An open single prank names the frame that opened it.
Opened(c, fs) ==
    \A p \in c.active : p.depth \in 1 .. Len(fs) /\ fs[p.depth].addr = p.by

\* tx.origin is the sender's unless it was saved, and is saved only for a prank.
OriginKept(c, org) ==
    /\ c.original = {} => org = Sender
    /\ c.active = {} /\ c.start = {} => c.original = {}

\* What was covered at depth i: nothing outside of a transaction.
IdsAt(fs, i) == IF i = 0 THEN {} ELSE {CodeId(fs[i])}

\* The coverage inspector knows the code of every frame.
CoverFollows(cv, fs) ==
    /\ cv.depth = Len(fs) /\ Len(cv.stack) = Len(fs) /\ ~cv.init
    /\ cv.current = IdsAt(fs, Len(fs))
    /\ \A i \in 1 .. Len(fs) : cv.stack[i] = IdsAt(fs, i - 1)

\* The trace's stack is the EVM's.
TraceFollows(st, fs) ==
    /\ Len(st) = Len(fs)
    /\ \A i \in 1 .. Len(fs) : st[i].depth = i - 1 /\ Mirrors(st[i], fs[i])

InspectorsInv ==
    /\ InspectorsTyped
    /\ cheat.depth = Len(frames)
    /\ Opened(cheat, frames)
    /\ OriginKept(cheat, origin)
    /\ CoverFollows(cover, frames)
    /\ TraceFollows(trace.stack, frames)

\* No transaction runs at first: the inspectors have nothing to follow.
LEMMA InspectorsInitInv == Init => InspectorsInv
<1> SUFFICES ASSUME Init PROVE InspectorsInv
    OBVIOUS
<1>1. InspectorsTyped
    <2>1. block \in [BlockFields -> Nat]
        BY DEF Init, Block0
    <2>2. frames \in Seq(EvmFrames) /\ origin \in Addresses
        BY DEF Init, Addresses
    <2>3. cheat \in CheatStates /\ trace \in [stack : Seq(TraceFrames), roots : Nat] /\ cover \in Covers
        BY DEF Init, CheatStates, Covers
    <2> QED
        BY <2>1, <2>2, <2>3 DEF InspectorsTyped
<1>2. cheat.depth = Len(frames) /\ Opened(cheat, frames) /\ OriginKept(cheat, origin)
    BY DEF Init, Opened, OriginKept
<1>3. CoverFollows(cover, frames) /\ TraceFollows(trace.stack, frames)
    BY DEF Init, CoverFollows, TraceFollows, IdsAt
<1> QED
    BY <1>1, <1>2, <1>3 DEF InspectorsInv

-----------------------------------------------------------------------------
(* Pranks.                                                                 *)

\* Applying a prank marks it used and nothing else: it stays with its frame,
\* and tx.origin is saved before it is changed.
LEMMA PrankApplied ==
    ASSUME NEW c \in CheatStates, NEW org \in Addresses, NEW by \in Addresses, NEW to \in Addresses,
           NEW fs, Opened(c, fs), OriginKept(c, org),
           NEW a, a = ApplyPrank(c, org, by, to)
    PROVE  /\ a.caller \in Addresses /\ a.origin \in Addresses
           /\ a.cheat \in CheatStates /\ a.cheat.depth = c.depth
           /\ Opened(a.cheat, fs) /\ OriginKept(a.cheat, a.origin)
<1> DEFINE s == Starts(c, by, to)
           p == Singles(c, by, to)
           Use(ps) == { [x EXCEPT !.used = TRUE] : x \in ps }
           Decides(ps, qs) == IF qs # {} THEN qs ELSE ps
           callers == Decides({ x.caller : x \in s }, { x.caller : x \in p })
           origins == Decides(UNION { x.origin : x \in s }, UNION { x.origin : x \in p })
<1>1. s \subseteq c.start /\ p \subseteq c.active /\ c.start \subseteq Pranks /\ c.active \subseteq Pranks
      /\ c.original \subseteq {Sender}
    BY DEF Starts, Singles, CheatStates
<1> HIDE DEF s, p
<1>2. ASSUME NEW ps \in SUBSET Pranks
      PROVE  /\ Use(ps) \subseteq Pranks /\ (Use(ps) = {} <=> ps = {})
             /\ \A x \in Use(ps) : \E y \in ps : x.depth = y.depth /\ x.by = y.by
    <2>1. \A y \in ps : [y EXCEPT !.used = TRUE] \in Pranks
        BY DEF Pranks
    <2>2. \A y \in ps : [y EXCEPT !.used = TRUE].depth = y.depth /\ [y EXCEPT !.used = TRUE].by = y.by
        BY DEF Pranks
    <2> QED
        BY <2>1, <2>2
<1>3. \A ps \in SUBSET Pranks : { x.caller : x \in ps } \subseteq Addresses /\ UNION { x.origin : x \in ps } \subseteq Addresses
    BY DEF Pranks
<1>4. callers \subseteq Addresses /\ origins \subseteq Addresses
    BY <1>1, <1>3
<1> HIDE DEF callers, origins, Use
<1> DEFINE starts == (c.start \ s) \union Use(s)
           actives == (c.active \ p) \union Use(p)
           saved == IF c.original = {} /\ origins # {} THEN {org} ELSE c.original
<1>5. /\ a.caller = IF callers = {} THEN by ELSE CHOOSE x \in callers : TRUE
      /\ a.origin = IF origins = {} THEN org ELSE CHOOSE x \in origins : TRUE
      /\ a.cheat = [c EXCEPT !.start = starts, !.active = actives, !.original = saved]
    BY DEF ApplyPrank, callers, origins, Use, s, p, CheatStates
<1>6. a.caller \in Addresses /\ a.origin \in Addresses
    <2>1. callers # {} => (CHOOSE x \in callers : TRUE) \in callers
        OBVIOUS
    <2>2. origins # {} => (CHOOSE x \in origins : TRUE) \in origins
        OBVIOUS
    <2> QED
        BY <1>4, <1>5, <2>1, <2>2
<1>7. /\ a.cheat.depth = c.depth
      /\ a.cheat.active = actives /\ a.cheat.start = starts /\ a.cheat.original = saved
    <2> HIDE DEF starts, actives, saved
    <2> QED
        BY <1>5 DEF CheatStates
<1>8. a.cheat \in CheatStates
    <2>1. actives \subseteq Pranks /\ starts \subseteq Pranks
        BY <1>1, <1>2
    <2>2. saved \subseteq {Sender}
        BY <1>1 DEF OriginKept
    <2> HIDE DEF starts, actives, saved
    <2> QED
        BY <1>5, <2>1, <2>2 DEF CheatStates
<1>9. Opened(a.cheat, fs)
    BY <1>1, <1>2, <1>7 DEF Opened
<1>10. OriginKept(a.cheat, a.origin)
    <2>1. a.cheat.original = {} => a.origin = Sender
        BY <1>5, <1>7 DEF OriginKept
    <2>2. a.cheat.active = {} /\ a.cheat.start = {} => c.active = {} /\ c.start = {} /\ s = {} /\ p = {}
        BY <1>1, <1>2, <1>7
    <2>3. s = {} /\ p = {} => origins = {}
        BY DEF origins
    <2> QED
        BY <1>7, <2>1, <2>2, <2>3 DEF OriginKept
<1> QED
    BY <1>6, <1>7, <1>8, <1>9, <1>10

\* A prank handler leaves at most one new prank, which the call hook gives to
\* the frame that called it.
LEMMA PrankAttributed ==
    ASSUME NEW c \in CheatStates, NEW fs, NEW by \in Addresses, by # Zero,
           Len(fs) \in Nat \ {0}, fs[Len(fs)].addr = by, c.depth = Len(fs) + 1,
           \A p \in c.active : \/ p.by = Zero /\ p.depth = 0
                               \/ p.depth \in 1 .. Len(fs) /\ fs[p.depth].addr = p.by /\ p.by # Zero
    PROVE  /\ Attribute(c, by) \in CheatStates /\ Attribute(c, by).depth = c.depth
           /\ Attribute(c, by).original = c.original
           /\ Attribute(c, by).active = {} <=> c.active = {}
           /\ Attribute(c, by).start = {} <=> c.start = {}
           /\ Opened(Attribute(c, by), fs)
<1> DEFINE New(p) == [p EXCEPT !.by    = IF p.by = Zero THEN by ELSE p.by,
                               !.depth = IF p.depth = 0 THEN c.depth - 1 ELSE p.depth]
<1>0. c.depth \in Nat /\ c.depth - 1 = Len(fs) /\ c.active \subseteq Pranks /\ c.start \subseteq Pranks
    BY DEF CheatStates
<1>1. \A p \in Pranks : New(p) \in Pranks
    BY <1>0 DEF Pranks
<1>2. \A p \in Pranks : /\ New(p).by = IF p.by = Zero THEN by ELSE p.by
                        /\ New(p).depth = IF p.depth = 0 THEN Len(fs) ELSE p.depth
    BY <1>0 DEF Pranks
<1>3. \A ps : Attributed(ps, by, c.depth - 1) = { New(p) : p \in ps }
    BY DEF Attributed
<1> HIDE DEF New
<1>4. \A ps \in SUBSET Pranks : { New(p) : p \in ps } \subseteq Pranks /\ ({ New(p) : p \in ps } = {} <=> ps = {})
    BY <1>1
<1>5. Attribute(c, by) = [c EXCEPT !.active = { New(p) : p \in c.active }, !.start = { New(p) : p \in c.start }]
    BY <1>3 DEF Attribute
<1>6. /\ Attribute(c, by).active = { New(p) : p \in c.active } /\ Attribute(c, by).depth = c.depth
      /\ Attribute(c, by).start = { New(p) : p \in c.start } /\ Attribute(c, by).original = c.original
    BY <1>5 DEF CheatStates
<1>7. Attribute(c, by) \in CheatStates
    BY <1>0, <1>4, <1>5 DEF CheatStates
<1>8. \A p \in c.active : New(p).depth \in 1 .. Len(fs) /\ fs[New(p).depth].addr = New(p).by
    BY <1>0, <1>2
<1>9. Opened(Attribute(c, by), fs)
    BY <1>6, <1>8 DEF Opened
<1> QED
    BY <1>0, <1>4, <1>6, <1>7, <1>9

\* maybe_restore_origin gives the sender back its origin once no prank is open.
LEMMA OriginRestores ==
    ASSUME NEW c \in CheatStates, NEW org \in Addresses, c.original = {} => org = Sender
    PROVE  /\ Restored(c) \in CheatStates /\ Restored(c).depth = c.depth
           /\ Restored(c).active = c.active /\ Restored(c).start = c.start
           /\ RestoredOrigin(c, org) \in Addresses
           /\ OriginKept(Restored(c), RestoredOrigin(c, org))
<1>1. c.original \subseteq {Sender} /\ Sender \in Addresses
    BY DEF CheatStates, Addresses
<1>2. CASE Restorable(c)
    <2>1. Restored(c) = [c EXCEPT !.original = {}] /\ RestoredOrigin(c, org) = Sender
        BY <1>1, <1>2 DEF Restored, RestoredOrigin, Restorable
    <2>2. Restored(c) \in CheatStates /\ Restored(c).depth = c.depth /\ Restored(c).active = c.active
          /\ Restored(c).start = c.start /\ Restored(c).original = {}
        BY <2>1 DEF CheatStates
    <2> QED
        BY <1>1, <2>1, <2>2 DEF OriginKept
<1>3. CASE ~Restorable(c)
    BY <1>3 DEF Restored, RestoredOrigin, Restorable, OriginKept
<1> QED
    BY <1>2, <1>3

\* The end of a frame takes the single prank it opened along, and its origin.
LEMMA FrameEnds ==
    ASSUME NEW c \in CheatStates, NEW org \in Addresses, NEW fs, NEW gs,
           Opened(c, fs), OriginKept(c, org),
           c.depth = Len(gs) + 1, Len(gs) \in Nat, Len(fs) \in {Len(gs), Len(gs) + 1},
           \A i \in 1 .. Len(gs) : gs[i].addr = fs[i].addr
    PROVE  /\ FrameEnd(c) \in CheatStates /\ FrameEnd(c).depth = Len(gs)
           /\ FrameEndOrigin(c, org) \in Addresses
           /\ Opened(FrameEnd(c), gs) /\ OriginKept(FrameEnd(c), FrameEndOrigin(c, org))
<1>0. c.depth \in Nat /\ c.depth - 1 = Len(gs) /\ c.active \subseteq Pranks
    BY DEF CheatStates
<1>1. CASE InitiatorExits(c)
    <2> DEFINE k == [c EXCEPT !.active = {}]
               u == [k EXCEPT !.depth = @ - 1]
    <2>1. /\ u \in CheatStates /\ u.depth = Len(gs) /\ u.active = {} /\ u.original = c.original /\ u.start = c.start
          /\ k.active = {} /\ k.original = c.original /\ k.start = c.start
        BY <1>0 DEF CheatStates
    <2>2. FrameEnd(c) = Restored(u) /\ FrameEndOrigin(c, org) = RestoredOrigin(k, org)
        BY <1>1 DEF FrameEnd, FrameEndOrigin
    <2> HIDE DEF k, u
    <2>3. RestoredOrigin(k, org) = RestoredOrigin(u, org)
        BY <2>1 DEF RestoredOrigin, Restorable
    <2>4. u.original = {} => org = Sender
        BY <2>1 DEF OriginKept
    <2> QED
        BY <2>1, <2>2, <2>3, <2>4, OriginRestores DEF Opened
<1>2. CASE ~InitiatorExits(c)
    <2> DEFINE u == [c EXCEPT !.depth = @ - 1]
    <2>1. /\ u \in CheatStates /\ u.depth = Len(gs) /\ u.active = c.active /\ u.original = c.original /\ u.start = c.start
        BY <1>0 DEF CheatStates
    <2>2. FrameEnd(c) = u /\ FrameEndOrigin(c, org) = org
        BY <1>2 DEF FrameEnd, FrameEndOrigin
    <2> HIDE DEF u
    <2>3. \A p \in c.active : p.depth \in 1 .. Len(gs)
        <3> TAKE p \in c.active
        <3>1. p.depth \in 1 .. Len(fs) /\ p.depth # c.depth
            BY <1>2 DEF Opened, InitiatorExits
        <3> QED
            BY <1>0, <3>1
    <2>4. Opened(u, gs)
        BY <2>1, <2>3 DEF Opened
    <2> QED
        BY <2>1, <2>2, <2>4 DEF OriginKept
<1> QED
    BY <1>1, <1>2

-----------------------------------------------------------------------------
(* The EVM's frames.                                                       *)

\* The same code runs in every frame.
SameCode(fs, gs) ==
    /\ Len(fs) = Len(gs)
    /\ \A i \in 1 .. Len(fs) : fs[i].kind = gs[i].kind /\ fs[i].addr = gs[i].addr /\ fs[i].code = gs[i].code

\* Changing the element on top of a stack leaves the others.
LEMMA TopChanged ==
    ASSUME NEW S, NEW s \in Seq(S), s # <<>>, NEW x \in S, NEW r, r = [s EXCEPT ![Len(s)] = x]
    PROVE  /\ r \in Seq(S) /\ Len(r) = Len(s) /\ r[Len(s)] = x
           /\ \A i \in 1 .. Len(s) - 1 : r[i] = s[i]
<1>1. Len(s) \in Nat /\ Len(s) \in 1 .. Len(s)
    OBVIOUS
<1>2. r \in Seq(S) /\ Len(r) = Len(s) /\ \A j \in 1 .. Len(s) : r[j] = IF j = Len(s) THEN x ELSE s[j]
    BY <1>1, ExceptSeq
<1>3. \A i \in 1 .. Len(s) - 1 : i \in 1 .. Len(s) /\ i # Len(s)
    BY <1>1
<1> QED
    BY <1>1, <1>2, <1>3

\* A sub-call that ended, or a storage change, is counted in the frame on top.
LEMMA ChildCounted ==
    ASSUME NEW fs \in Seq(EvmFrames)
    PROVE  WithChild(fs) \in Seq(EvmFrames) /\ SameCode(fs, WithChild(fs))
<1>1. CASE fs = <<>>
    BY <1>1 DEF WithChild, SameCode
<1>2. CASE fs # <<>>
    <2> DEFINE f == fs[Len(fs)]
               g == [f EXCEPT !.children = f.children + 1]
    <2>1. Len(fs) \in Nat /\ Len(fs) >= 1 /\ f \in EvmFrames
        BY <1>2
    <2> HIDE DEF f
    <2>2. g \in EvmFrames /\ g.kind = f.kind /\ g.addr = f.addr /\ g.code = f.code
        <3>1. f \in EvmFrames
            BY <2>1
        <3>2. f.children + 1 \in Nat
            BY <3>1 DEF EvmFrames
        <3>3. g \in EvmFrames
            BY <3>1, <3>2 DEF EvmFrames
        <3> QED
            BY <3>1, <3>3 DEF EvmFrames
    <2>3. WithChild(fs) = [fs EXCEPT ![Len(fs)] = g]
        BY <1>2 DEF WithChild, f
    <2> HIDE DEF g
    <2> QED
        BY <1>2, <2>1, <2>2, <2>3, TopChanged DEF SameCode, f
<1> QED
    BY <1>1, <1>2

\* Counting a storage change leaves the frames' code alone.
LEMMA ChangeCounted ==
    ASSUME NEW fs \in Seq(EvmFrames), fs # <<>>, NEW gs, gs = [fs EXCEPT ![Len(fs)].changes = @ + 1]
    PROVE  gs \in Seq(EvmFrames) /\ SameCode(fs, gs)
<1> DEFINE f == fs[Len(fs)]
           g == [f EXCEPT !.changes = f.changes + 1]
<1>1. Len(fs) \in Nat /\ Len(fs) >= 1 /\ f \in EvmFrames
    OBVIOUS
<1> HIDE DEF f
<1>2. g \in EvmFrames /\ g.kind = f.kind /\ g.addr = f.addr /\ g.code = f.code
    BY <1>1 DEF EvmFrames
<1>3. gs = [fs EXCEPT ![Len(fs)] = g]
    BY DEF f
<1> HIDE DEF g
<1> QED
    BY <1>1, <1>2, <1>3, TopChanged DEF SameCode, f

-----------------------------------------------------------------------------
(* Coverage.                                                               *)

\* What it records belongs to the frame's code, whatever its counts.
LEMMA CoverKept ==
    ASSUME NEW fs \in Seq(EvmFrames), NEW gs \in Seq(EvmFrames), SameCode(fs, gs),
           NEW cv, CoverFollows(cv, fs)
    PROVE  CoverFollows(cv, gs)
<1>0. Len(fs) \in Nat
    OBVIOUS
<1>1. ASSUME NEW i \in 0 .. Len(fs) PROVE IdsAt(fs, i) = IdsAt(gs, i)
    <2>1. i # 0 => i \in 1 .. Len(fs)
        BY <1>0
    <2>2. i # 0 => CodeId(fs[i]) = CodeId(gs[i])
        BY <2>1 DEF SameCode, CodeId
    <2> QED
        BY <2>2 DEF IdsAt
<1> QED
    BY <1>0, <1>1 DEF CoverFollows, SameCode

\* Stepping an instruction keeps the coverage inspector on its frame.
LEMMA CoverStepped ==
    ASSUME NEW cv \in Covers, NEW fs, CoverFollows(cv, fs), NEW pc \in Nat \union Pcs
    PROVE  /\ CoverStep(cv, pc) \in Covers /\ CoverFollows(CoverStep(cv, pc), fs)
           /\ CoverStep(cv, pc).current = cv.current /\ CoverStep(cv, pc).last = pc
<1>1. /\ CoverStep(cv, pc) \in Covers /\ CoverStep(cv, pc).current = cv.current /\ CoverStep(cv, pc).last = pc
      /\ CoverStep(cv, pc).stack = cv.stack /\ CoverStep(cv, pc).depth = cv.depth /\ CoverStep(cv, pc).init = cv.init
    BY DEF CoverStep, Covers
<1> QED
    BY <1>1 DEF CoverFollows

\* The inspector between the call or create hook and initialize_interp.
LEMMA CoverEnters ==
    ASSUME NEW cv \in Covers, ~cv.init, NEW kind \in Kinds
    PROVE  /\ CoverEnter(cv, kind) \in Covers /\ CoverEnter(cv, kind).current = cv.current
           /\ CoverEnter(cv, kind).stack = Append(cv.stack, cv.current)
           /\ CoverEnter(cv, kind).depth = cv.depth + 1 /\ CoverEnter(cv, kind).last = cv.last
           /\ CoverEnter(cv, kind).init = (kind = "create")
<1>0. cv.stack \in Seq(SUBSET CodeIds) /\ cv.current \in SUBSET CodeIds /\ cv.depth \in Nat
    BY DEF Covers
<1>1. Append(cv.stack, cv.current) \in Seq(SUBSET CodeIds)
    BY <1>0
<1>2. CoverEnter(cv, kind) =
        [current |-> cv.current, stack |-> Append(cv.stack, cv.current), depth |-> cv.depth + 1,
         last |-> cv.last, init |-> (kind = "create")]
    BY DEF CoverEnter, CoverCreate, CoverCall, Covers
<1> QED
    BY <1>0, <1>1, <1>2 DEF Covers

\* Entering code, the coverage inspector follows the EVM to the new frame.
LEMMA CoverEntered ==
    ASSUME NEW cv \in Covers, NEW fs \in Seq(EvmFrames), CoverFollows(cv, fs),
           NEW f \in EvmFrames, NEW dv, dv = CoverInit(CoverEnter(cv, f.kind), f.addr, f.code)
    PROVE  dv \in Covers /\ CoverFollows(dv, Append(fs, f))
<1> DEFINE e == CoverEnter(cv, f.kind)
<1>0. f.kind \in Kinds /\ f.addr \in Deployed /\ f.code \in Deployed
    BY DEF EvmFrames
<1>1. e \in Covers /\ e.stack = Append(cv.stack, cv.current) /\ e.depth = cv.depth + 1 /\ e.init = (f.kind = "create")
    BY <1>0, CoverEnters DEF CoverFollows
<1> HIDE DEF e
<1>2. {CodeId(f)} \subseteq CodeIds
    BY <1>0 DEF CodeId, CodeIds
<1>3. /\ dv.current = {CodeId(f)} /\ dv.stack = e.stack /\ dv.depth = e.depth /\ dv.init = FALSE
      /\ dv = [e EXCEPT !.current = {CodeId(f)}, !.init = FALSE]
    BY <1>1 DEF CoverInit, CodeId, e, Covers
<1>4. dv \in Covers
    BY <1>1, <1>2, <1>3 DEF Covers
<1>5. cv.stack \in Seq(SUBSET CodeIds) /\ cv.current \in SUBSET CodeIds
    BY DEF Covers
<1>6. /\ Len(Append(cv.stack, cv.current)) = Len(cv.stack) + 1
      /\ Append(cv.stack, cv.current)[Len(cv.stack) + 1] = cv.current
      /\ \A i \in 1 .. Len(cv.stack) : Append(cv.stack, cv.current)[i] = cv.stack[i]
    BY <1>5
<1>7. /\ Len(Append(fs, f)) = Len(fs) + 1 /\ Len(fs) \in Nat
      /\ IdsAt(Append(fs, f), Len(fs) + 1) = {CodeId(f)}
      /\ \A i \in 0 .. Len(fs) : IdsAt(Append(fs, f), i) = IdsAt(fs, i)
    <2>1. /\ Len(Append(fs, f)) = Len(fs) + 1 /\ Len(fs) \in Nat /\ Append(fs, f)[Len(fs) + 1] = f
          /\ \A i \in 1 .. Len(fs) : Append(fs, f)[i] = fs[i]
        OBVIOUS
    <2>2. ASSUME NEW i \in 0 .. Len(fs) PROVE IdsAt(Append(fs, f), i) = IdsAt(fs, i)
        <3>1. i # 0 => i \in 1 .. Len(fs)
            BY <2>1
        <3> QED
            BY <2>1, <3>1 DEF IdsAt
    <2>3. Len(fs) + 1 # 0
        BY <2>1
    <2>4. IdsAt(Append(fs, f), Len(fs) + 1) = {CodeId(f)}
        BY <2>1, <2>3 DEF IdsAt
    <2> QED
        BY <2>1, <2>2, <2>4
<1>8. \A i \in 1 .. Len(fs) + 1 : dv.stack[i] = IdsAt(Append(fs, f), i - 1)
    BY <1>1, <1>3, <1>6, <1>7 DEF CoverFollows
<1> QED
    BY <1>1, <1>3, <1>4, <1>6, <1>7, <1>8 DEF CoverFollows

\* A frame without code leaves it as it was.
LEMMA CoverBounced ==
    ASSUME NEW cv \in Covers, ~cv.init, NEW kind \in Kinds
    PROVE  CoverLeave(CoverEnter(cv, kind), kind) = cv
<1> DEFINE e == CoverEnter(cv, kind)
<1>0. cv.stack \in Seq(SUBSET CodeIds) /\ cv.current \in SUBSET CodeIds /\ cv.depth \in Nat
    BY DEF Covers
<1>1. /\ e \in Covers /\ e.stack = Append(cv.stack, cv.current) /\ e.last = cv.last
      /\ e.depth = cv.depth + 1 /\ e.init = (kind = "create")
    BY CoverEnters
<1> HIDE DEF e
<1>2. Top(e.stack) = cv.current /\ Pop(e.stack) = cv.stack /\ e.depth - 1 = cv.depth
    BY <1>0, <1>1, Pushed
<1>3. CoverLeave(e, kind) = [current |-> cv.current, stack |-> cv.stack, depth |-> cv.depth, last |-> cv.last, init |-> FALSE]
    BY <1>1, <1>2 DEF CoverLeave, CoverCreateEnd, CoverCallEnd, Covers
<1>4. cv = [current |-> cv.current, stack |-> cv.stack, depth |-> cv.depth, last |-> cv.last, init |-> FALSE]
    BY DEF Covers
<1> QED
    BY <1>3, <1>4 DEF e

\* Leaving it, the coverage inspector returns to the caller.
LEMMA CoverLeft ==
    ASSUME NEW cv \in Covers, NEW fs \in Seq(EvmFrames), fs # <<>>, CoverFollows(cv, fs),
           NEW kind \in Kinds
    PROVE  CoverLeave(cv, kind) \in Covers /\ CoverFollows(CoverLeave(cv, kind), Pop(fs))
<1> DEFINE dv == CoverLeave(cv, kind)
<1>0. cv.stack \in Seq(SUBSET CodeIds) /\ cv.depth \in Nat /\ cv.stack # <<>> /\ Len(fs) \in Nat /\ Len(fs) >= 1
      /\ Len(cv.stack) = Len(fs) /\ cv.depth = Len(fs)
    BY DEF Covers, CoverFollows
<1>1. /\ Pop(cv.stack) \in Seq(SUBSET CodeIds) /\ Len(Pop(cv.stack)) = Len(fs) - 1
      /\ \A i \in 1 .. Len(fs) - 1 : Pop(cv.stack)[i] = cv.stack[i]
      /\ Top(cv.stack) \in SUBSET CodeIds /\ Top(cv.stack) = cv.stack[Len(fs)]
    BY <1>0, Popped DEF Top
<1>2. /\ dv = [current |-> Top(cv.stack), stack |-> Pop(cv.stack), depth |-> cv.depth - 1, last |-> cv.last, init |-> FALSE]
    BY DEF CoverLeave, CoverCreateEnd, CoverCallEnd, Covers, CoverFollows
<1>3. dv \in Covers
    BY <1>0, <1>1, <1>2 DEF Covers
<1>4. /\ dv.current = cv.stack[Len(fs)] /\ dv.stack = Pop(cv.stack) /\ dv.depth = Len(fs) - 1 /\ ~dv.init
    BY <1>0, <1>1, <1>2
<1> HIDE DEF dv
<1>5. Len(Pop(fs)) = Len(fs) - 1 /\ \A i \in 0 .. Len(fs) - 1 : IdsAt(Pop(fs), i) = IdsAt(fs, i)
    <2>1. Len(Pop(fs)) = Len(fs) - 1 /\ \A i \in 1 .. Len(fs) - 1 : Pop(fs)[i] = fs[i]
        BY Popped
    <2>2. ASSUME NEW i \in 0 .. Len(fs) - 1 PROVE IdsAt(Pop(fs), i) = IdsAt(fs, i)
        <3>1. i # 0 => i \in 1 .. Len(fs) - 1
            BY <1>0
        <3> QED
            BY <2>1, <3>1 DEF IdsAt
    <2> QED
        BY <2>1, <2>2
<1>6. dv.current = IdsAt(Pop(fs), Len(fs) - 1)
    BY <1>0, <1>4, <1>5 DEF CoverFollows
<1>7. ASSUME NEW i \in 1 .. Len(fs) - 1 PROVE dv.stack[i] = IdsAt(Pop(fs), i - 1)
    <2>1. i \in 1 .. Len(fs) /\ i - 1 \in 0 .. Len(fs) - 1
        BY <1>0
    <2>2. cv.stack[i] = IdsAt(fs, i - 1)
        BY <2>1 DEF CoverFollows
    <2> QED
        BY <1>1, <1>4, <1>5, <2>1, <2>2
<1> QED
    BY <1>0, <1>1, <1>3, <1>4, <1>5, <1>6, <1>7 DEF CoverFollows, dv

-----------------------------------------------------------------------------
(* Traces.                                                                 *)

\* A trace frame pushed with the EVM frame it mirrors keeps the stacks alike.
LEMMA TracePushed ==
    ASSUME NEW st \in Seq(TraceFrames), NEW fs \in Seq(EvmFrames), TraceFollows(st, fs),
           NEW t \in TraceFrames, NEW f \in EvmFrames, t.depth = Len(st), Mirrors(t, f)
    PROVE  TraceFollows(Append(st, t), Append(fs, f))
<1>1. /\ Len(st) = Len(fs) /\ Len(fs) \in Nat
      /\ Len(Append(st, t)) = Len(fs) + 1 /\ Len(Append(fs, f)) = Len(fs) + 1
      /\ Append(st, t)[Len(fs) + 1] = t /\ Append(fs, f)[Len(fs) + 1] = f
      /\ \A i \in 1 .. Len(fs) : Append(st, t)[i] = st[i] /\ Append(fs, f)[i] = fs[i]
    BY Pushed DEF TraceFollows
<1>2. ASSUME NEW i \in 1 .. Len(fs) + 1
      PROVE  Append(st, t)[i].depth = i - 1 /\ Mirrors(Append(st, t)[i], Append(fs, f)[i])
    <2>1. CASE i = Len(fs) + 1
        BY <1>1, <2>1
    <2>2. CASE i # Len(fs) + 1
        <3>1. i \in 1 .. Len(fs)
            BY <1>1, <2>2
        <3> QED
            BY <1>1, <3>1 DEF TraceFollows
    <2> QED
        BY <2>1, <2>2
<1> QED
    BY <1>1, <1>2 DEF TraceFollows

\* So does popping both.
LEMMA TracePopped ==
    ASSUME NEW st \in Seq(TraceFrames), NEW fs \in Seq(EvmFrames), TraceFollows(st, fs), fs # <<>>
    PROVE  TraceFollows(Pop(st), Pop(fs))
<1>1. Len(st) = Len(fs) /\ Len(fs) \in Nat /\ st # <<>>
    BY DEF TraceFollows
<1>2. /\ Len(Pop(st)) = Len(fs) - 1 /\ Len(Pop(fs)) = Len(fs) - 1
      /\ \A i \in 1 .. Len(fs) - 1 : Pop(st)[i] = st[i] /\ Pop(fs)[i] = fs[i]
    BY <1>1, Popped
<1>3. \A i \in 1 .. Len(fs) - 1 : i \in 1 .. Len(fs)
    BY <1>1
<1> QED
    BY <1>1, <1>2, <1>3 DEF TraceFollows

\* The frame on top counts what the EVM's frame on top counts.
LEMMA TraceTopChanged ==
    ASSUME NEW st \in Seq(TraceFrames), NEW fs \in Seq(EvmFrames), TraceFollows(st, fs), fs # <<>>,
           NEW t \in TraceFrames, NEW f \in EvmFrames, t.depth = st[Len(st)].depth, Mirrors(t, f)
    PROVE  /\ [st EXCEPT ![Len(st)] = t] \in Seq(TraceFrames)
           /\ TraceFollows([st EXCEPT ![Len(st)] = t], [fs EXCEPT ![Len(fs)] = f])
<1> DEFINE su == [st EXCEPT ![Len(st)] = t]
           gs == [fs EXCEPT ![Len(fs)] = f]
<1>1. Len(st) = Len(fs) /\ Len(fs) \in Nat /\ st # <<>> /\ Len(fs) \in 1 .. Len(fs)
    BY DEF TraceFollows
<1>2. su \in Seq(TraceFrames) /\ Len(su) = Len(fs) /\ su[Len(fs)] = t /\ \A i \in 1 .. Len(fs) - 1 : su[i] = st[i]
    BY <1>1, TopChanged
<1>3. Len(gs) = Len(fs) /\ gs[Len(fs)] = f /\ \A i \in 1 .. Len(fs) - 1 : gs[i] = fs[i]
    BY <1>1, TopChanged
<1> HIDE DEF su, gs
<1>4. ASSUME NEW i \in 1 .. Len(fs)
      PROVE  su[i].depth = i - 1 /\ Mirrors(su[i], gs[i])
    <2>1. CASE i = Len(fs)
        BY <1>1, <1>2, <1>3, <2>1 DEF TraceFollows
    <2>2. CASE i # Len(fs)
        <3>1. i \in 1 .. Len(fs) - 1
            BY <1>1, <2>2
        <3> QED
            BY <1>2, <1>3, <3>1 DEF TraceFollows
    <2> QED
        BY <2>1, <2>2
<1>5. TraceFollows(su, gs)
    BY <1>2, <1>3, <1>4 DEF TraceFollows
<1> QED
    BY <1>2, <1>5 DEF su, gs

\* A sub-call that ended counts in the trace as it does in the EVM's frame.
LEMMA TraceChildCounted ==
    ASSUME NEW st \in Seq(TraceFrames), NEW fs \in Seq(EvmFrames), TraceFollows(st, fs), fs # <<>>
    PROVE  /\ [st EXCEPT ![Len(st)].children = @ + 1] \in Seq(TraceFrames)
           /\ TraceFollows([st EXCEPT ![Len(st)].children = @ + 1], WithChild(fs))
<1> DEFINE a == st[Len(st)]
           b == fs[Len(fs)]
           t == [a EXCEPT !.children = a.children + 1]
           f == [b EXCEPT !.children = b.children + 1]
<1>1. Len(st) = Len(fs) /\ Len(fs) \in Nat /\ st # <<>> /\ Len(fs) \in 1 .. Len(fs)
    BY DEF TraceFollows
<1>2. a \in TraceFrames /\ b \in EvmFrames /\ Mirrors(a, b)
    BY <1>1 DEF TraceFollows
<1>3. [st EXCEPT ![Len(st)].children = @ + 1] = [st EXCEPT ![Len(st)] = t]
      /\ WithChild(fs) = [fs EXCEPT ![Len(fs)] = f]
    BY <1>1 DEF WithChild
<1> HIDE DEF a, b
<1>4. t \in TraceFrames /\ t.depth = a.depth
    <2>1. a.children + 1 \in Nat
        BY <1>2 DEF TraceFrames
    <2> QED
        BY <1>2, <2>1 DEF TraceFrames
<1>5. f \in EvmFrames
    <2>1. b.children + 1 \in Nat
        BY <1>2 DEF EvmFrames
    <2> QED
        BY <1>2, <2>1 DEF EvmFrames
<1>6. Mirrors(t, f)
    BY <1>2 DEF Mirrors, TraceFrames, EvmFrames
<1> HIDE DEF t, f
<1>7. t.depth = st[Len(st)].depth
    BY <1>4 DEF a
<1>8. /\ [st EXCEPT ![Len(st)] = t] \in Seq(TraceFrames)
      /\ TraceFollows([st EXCEPT ![Len(st)] = t], [fs EXCEPT ![Len(fs)] = f])
    BY <1>4, <1>5, <1>6, <1>7, TraceTopChanged
<1> QED
    BY <1>3, <1>8

\* So does counting a storage change in both.
LEMMA TraceChangeCounted ==
    ASSUME NEW st \in Seq(TraceFrames), NEW fs \in Seq(EvmFrames), TraceFollows(st, fs), fs # <<>>
    PROVE  /\ [st EXCEPT ![Len(st)].changes = @ + 1] \in Seq(TraceFrames)
           /\ TraceFollows([st EXCEPT ![Len(st)].changes = @ + 1], [fs EXCEPT ![Len(fs)].changes = @ + 1])
<1> DEFINE a == st[Len(st)]
           b == fs[Len(fs)]
           t == [a EXCEPT !.changes = a.changes + 1]
           f == [b EXCEPT !.changes = b.changes + 1]
<1>1. Len(st) = Len(fs) /\ Len(fs) \in Nat /\ st # <<>> /\ Len(fs) \in 1 .. Len(fs)
    BY DEF TraceFollows
<1>2. a \in TraceFrames /\ b \in EvmFrames /\ Mirrors(a, b)
    BY <1>1 DEF TraceFollows
<1>3. [st EXCEPT ![Len(st)].changes = @ + 1] = [st EXCEPT ![Len(st)] = t]
      /\ [fs EXCEPT ![Len(fs)].changes = @ + 1] = [fs EXCEPT ![Len(fs)] = f]
    BY <1>1
<1> HIDE DEF a, b
<1>4. t \in TraceFrames /\ t.depth = a.depth
    <2>1. a.changes + 1 \in Nat
        BY <1>2 DEF TraceFrames
    <2> QED
        BY <1>2, <2>1 DEF TraceFrames
<1>5. f \in EvmFrames
    <2>1. b.changes + 1 \in Nat
        BY <1>2 DEF EvmFrames
    <2> QED
        BY <1>2, <2>1 DEF EvmFrames
<1>6. Mirrors(t, f)
    BY <1>2 DEF Mirrors, TraceFrames, EvmFrames
<1> HIDE DEF t, f
<1>7. t.depth = st[Len(st)].depth
    BY <1>4 DEF a
<1>8. /\ [st EXCEPT ![Len(st)] = t] \in Seq(TraceFrames)
      /\ TraceFollows([st EXCEPT ![Len(st)] = t], [fs EXCEPT ![Len(fs)] = f])
    BY <1>4, <1>5, <1>6, <1>7, TraceTopChanged
<1> QED
    BY <1>3, <1>8

\* What the call and create hooks push.
TraceFrame(kind, addr, caller) ==
    [depth |-> Len(trace.stack), kind |-> kind, addr |-> IF kind = "create" THEN {} ELSE {addr},
     caller |-> caller, time |-> block.timestamp, children |-> 0, changes |-> 0]

\* What the trace inspector pushes when a call is entered.
LEMMA TraceEntered ==
    ASSUME InspectorsTyped, NEW kind \in Kinds, NEW addr \in Addresses, NEW caller \in Addresses
    PROVE  /\ TraceFrame(kind, addr, caller) \in TraceFrames
           /\ TraceEnter(trace, kind, addr, caller)
                = [stack |-> Append(trace.stack, TraceFrame(kind, addr, caller)), roots |-> trace.roots]
           /\ trace.stack \in Seq(TraceFrames) /\ block.timestamp \in Nat
<1>1. trace.stack \in Seq(TraceFrames) /\ trace = [stack |-> trace.stack, roots |-> trace.roots]
    BY DEF InspectorsTyped
<1>2. block.timestamp \in Nat
    BY InspectorsAssumption DEF InspectorsTyped
<1>3. Len(trace.stack) \in Nat
    BY <1>1
<1>4. TraceFrame(kind, addr, caller) \in TraceFrames
    BY <1>2, <1>3 DEF TraceFrame, TraceFrames
<1>5. TraceEnter(trace, kind, addr, caller)
                = [stack |-> Append(trace.stack, TraceFrame(kind, addr, caller)), roots |-> trace.roots]
    BY <1>1 DEF TraceEnter, TraceFrame
<1> QED
    BY <1>1, <1>2, <1>4, <1>5

-----------------------------------------------------------------------------
(* Every event keeps the invariant.                                        *)

\* What frame_start and the call hook make of the inputs of a frame.
Inputs(a, fs) ==
    /\ a.caller \in Addresses /\ a.origin \in Addresses
    /\ a.cheat \in CheatStates /\ a.cheat.depth = Len(fs) + 1
    /\ Opened(a.cheat, fs) /\ OriginKept(a.cheat, a.origin)

\* Entering a call changes the cheatcode depth and nothing else of the pranks.
LEMMA DeeperOK ==
    ASSUME InspectorsInv
    PROVE  /\ Deeper(cheat) \in CheatStates /\ Deeper(cheat).depth = Len(frames) + 1
           /\ Deeper(cheat).active = cheat.active /\ Deeper(cheat).start = cheat.start
           /\ Deeper(cheat).original = cheat.original
           /\ Opened(Deeper(cheat), frames) /\ OriginKept(Deeper(cheat), origin)
<1>1. /\ Deeper(cheat) \in CheatStates /\ Deeper(cheat).depth = Len(frames) + 1
      /\ Deeper(cheat).active = cheat.active /\ Deeper(cheat).start = cheat.start
      /\ Deeper(cheat).original = cheat.original
    <2>1. cheat \in CheatStates /\ cheat.depth = Len(frames) /\ cheat.depth + 1 \in Nat
        BY DEF InspectorsInv, InspectorsTyped, CheatStates
    <2> QED
        BY <2>1 DEF Deeper, CheatStates
<1> QED
    BY <1>1 DEF InspectorsInv, Opened, OriginKept

\* A prank applied at a call gives it the inputs the invariant expects.
LEMMA PrankInputs ==
    ASSUME InspectorsInv, NEW org \in {origin, Sender}, NEW by \in Addresses, NEW to \in Addresses
    PROVE  Inputs(ApplyPrank(Deeper(cheat), org, by, to), frames)
<1>1. org \in Addresses /\ OriginKept(Deeper(cheat), org)
    BY DeeperOK DEF InspectorsInv, InspectorsTyped, Addresses, OriginKept
<1> QED
    BY <1>1, DeeperOK, PrankApplied DEF Inputs

\* Entering a contract's code keeps the invariant.
LEMMA EnterCodeInv ==
    ASSUME InspectorsInv, NEW kind \in Kinds, NEW addr \in Deployed, NEW code \in Deployed,
           NEW a, Inputs(a, frames), NEW cv \in Covers, CoverFollows(cv, frames),
           EnterCode(kind, addr, code, a, cv)
    PROVE  InspectorsInv'
<1> DEFINE f == Frame(kind, addr, code, a.caller)
           t == TraceFrame(kind, addr, a.caller)
<1>1. InspectorsTyped /\ frames \in Seq(EvmFrames) /\ addr \in Addresses /\ a.caller \in Addresses
    BY DEF InspectorsInv, InspectorsTyped, Deployed, Addresses, Inputs
<1>2. /\ t \in TraceFrames /\ trace' = [stack |-> Append(trace.stack, t), roots |-> trace.roots]
      /\ trace.stack \in Seq(TraceFrames) /\ block.timestamp \in Nat
    BY <1>1, TraceEntered DEF EnterCode
<1>3. f \in EvmFrames /\ f.kind = kind /\ f.addr = addr /\ f.code = code
    BY <1>1, <1>2 DEF Frame, EvmFrames
<1>4. t.depth = Len(trace.stack) /\ Mirrors(t, f)
    BY DEF Mirrors, TraceFrame, Frame
<1>5. frames' = Append(frames, f)
    BY DEF EnterCode
<1> HIDE DEF f, t
<1>6. /\ frames' \in Seq(EvmFrames) /\ Len(frames') = Len(frames) + 1 /\ Len(frames) \in Nat
      /\ \A i \in 1 .. Len(frames) : frames'[i] = frames[i]
    BY <1>1, <1>3, <1>5, Pushed
<1>7. cover' \in Covers /\ CoverFollows(cover', frames')
    <2>1. cover' = CoverInit(CoverEnter(cv, f.kind), f.addr, f.code)
        BY <1>3 DEF EnterCode
    <2> QED
        BY <1>1, <1>3, <1>5, <2>1, CoverEntered
<1>8. trace' \in [stack : Seq(TraceFrames), roots : Nat] /\ TraceFollows(trace.stack', frames')
    <2>1. trace.roots \in Nat /\ TraceFollows(trace.stack, frames)
        BY <1>1 DEF InspectorsTyped, InspectorsInv
    <2>2. Append(trace.stack, t) \in Seq(TraceFrames)
        BY <1>2
    <2>3. TraceFollows(Append(trace.stack, t), frames')
        BY <1>1, <1>2, <1>3, <1>4, <1>5, <2>1, TracePushed
    <2> QED
        BY <1>2, <2>1, <2>2, <2>3
<1>9. /\ cheat' \in CheatStates /\ origin' \in Addresses /\ cheat.depth' = Len(frames')
      /\ OriginKept(cheat', origin')
    BY <1>6 DEF EnterCode, Inputs
<1>10. Opened(cheat', frames')
    <2>1. cheat' = a.cheat /\ Opened(a.cheat, frames)
        BY DEF EnterCode, Inputs
    <2> QED
        BY <1>6, <2>1 DEF Opened
<1>11. block' \in [BlockFields -> Nat]
    BY <1>1 DEF InspectorsTyped, EnterCode
<1>12. InspectorsTyped'
    BY <1>6, <1>7, <1>8, <1>9, <1>11 DEF InspectorsTyped
<1> QED
    BY <1>7, <1>8, <1>9, <1>10, <1>12 DEF InspectorsInv

\* A call that runs no code (a precompile, a cheatcode) is entered and left at once.
LEMMA EnterAndLeaveInv ==
    ASSUME InspectorsInv, frames # <<>>, NEW kind \in Kinds, NEW addr \in Addresses,
           NEW a, Inputs(a, frames), NEW cv \in Covers, CoverFollows(cv, frames), NEW res,
           EnterAndLeave(kind, addr, a, cv, res), block' \in [BlockFields -> Nat]
    PROVE  InspectorsInv'
<1> DEFINE t == TraceFrame(kind, addr, a.caller)
           u == [stack |-> Append(trace.stack, t), roots |-> trace.roots]
<1>1. InspectorsTyped /\ frames \in Seq(EvmFrames) /\ a.caller \in Addresses /\ Len(frames) \in Nat
    BY DEF InspectorsInv, InspectorsTyped, Inputs
<1>2. /\ t \in TraceFrames /\ trace' = TraceLeave(u) /\ trace.stack \in Seq(TraceFrames)
    BY <1>1, TraceEntered DEF EnterAndLeave
<1> HIDE DEF t
<1>3. Pop(u.stack) = trace.stack /\ trace.stack # <<>>
    BY <1>1, <1>2, Pushed DEF InspectorsInv, TraceFollows
<1>4. trace' = [stack |-> [trace.stack EXCEPT ![Len(trace.stack)].children = @ + 1], roots |-> trace.roots]
    BY <1>2, <1>3 DEF TraceLeave
<1>5. frames' = WithChild(frames) /\ frames' \in Seq(EvmFrames) /\ SameCode(frames, frames')
    BY <1>1, ChildCounted DEF EnterAndLeave
<1>6. trace' \in [stack : Seq(TraceFrames), roots : Nat] /\ TraceFollows(trace.stack', frames')
    <2>1. trace.roots \in Nat /\ TraceFollows(trace.stack, frames)
        BY <1>1 DEF InspectorsTyped, InspectorsInv
    <2>2. /\ [trace.stack EXCEPT ![Len(trace.stack)].children = @ + 1] \in Seq(TraceFrames)
          /\ TraceFollows([trace.stack EXCEPT ![Len(trace.stack)].children = @ + 1], frames')
        BY <1>1, <1>2, <1>5, <2>1, TraceChildCounted
    <2> QED
        BY <1>4, <2>1, <2>2
<1>7. cover' \in Covers /\ CoverFollows(cover', frames')
    <2>1. cover' = cv
        BY CoverBounced DEF EnterAndLeave, CoverFollows
    <2> QED
        BY <1>1, <1>5, <2>1, CoverKept
<1>8. /\ cheat' \in CheatStates /\ origin' \in Addresses /\ cheat.depth' = Len(frames')
      /\ Opened(cheat', frames') /\ OriginKept(cheat', origin')
    <2>1. Len(frames') = Len(frames) /\ \A i \in 1 .. Len(frames') : frames'[i].addr = frames[i].addr
        BY <1>5 DEF SameCode
    <2>2. cheat' = FrameEnd(a.cheat) /\ origin' = FrameEndOrigin(a.cheat, a.origin)
        BY DEF EnterAndLeave
    <2> QED
        BY <1>1, <2>1, <2>2, FrameEnds DEF Inputs
<1>9. InspectorsTyped'
    BY <1>5, <1>6, <1>7, <1>8 DEF InspectorsTyped
<1> QED
    BY <1>6, <1>7, <1>8, <1>9 DEF InspectorsInv

\* While a transaction runs there is a frame, at a deployed address.
LEMMA Executing ==
    ASSUME InspectorsInv, Running
    PROVE  /\ frames # <<>> /\ frames \in Seq(EvmFrames) /\ Len(frames) \in Nat \ {0}
           /\ Me = frames[Len(frames)] /\ Me \in EvmFrames
           /\ Me.addr \in Deployed /\ Me.addr \in Addresses /\ Me.caller \in Addresses
           /\ \A i \in 1 .. Len(frames) : frames[i].addr # Zero
<1>1. frames # <<>> /\ frames \in Seq(EvmFrames) /\ Len(frames) \in Nat \ {0}
    BY DEF InspectorsInv, InspectorsTyped, Running
<1>2. Me = frames[Len(frames)] /\ Me \in EvmFrames
    BY <1>1 DEF Me, Top
<1>3. Me.addr \in Deployed /\ Me.caller \in Addresses
    BY <1>2 DEF EvmFrames
<1>4. ASSUME NEW i \in 1 .. Len(frames) PROVE frames[i].addr # Zero
    <2>1. frames[i] \in EvmFrames
        BY <1>1
    <2> QED
        BY <2>1, InspectorsAssumption DEF EvmFrames, Deployed
<1> QED
    BY <1>1, <1>2, <1>3, <1>4 DEF Deployed, Addresses

\* Beginning a transaction keeps the invariant.
LEMMA BeginTxInv == ASSUME InspectorsInv, BeginTx PROVE InspectorsInv'
<1>1. Harness \in Deployed /\ Harness \in Addresses /\ Sender \in Addresses
    BY InspectorsAssumption DEF Deployed, Addresses
<1>2. Inputs(ApplyPrank(Deeper(cheat), Sender, Sender, Harness), frames)
    BY <1>1, PrankInputs
<1>3. cover \in Covers /\ CoverFollows(cover, frames)
    BY DEF InspectorsInv, InspectorsTyped
<1> QED
    BY <1>1, <1>2, <1>3, EnterCodeInv DEF BeginTx, Kinds

\* An instruction that stays in its frame keeps the invariant.
LEMMA InstructionInv ==
    ASSUME InspectorsInv, NEW pc \in Pcs, NEW points, NEW fs \in Seq(EvmFrames), NEW t,
           t \in [stack : Seq(TraceFrames), roots : Nat],
           SameCode(frames, fs), TraceFollows(t.stack, fs), Instruction(pc, points, fs, t)
    PROVE  InspectorsInv'
<1>1. /\ frames' = fs /\ trace' = t /\ cover' = CoverStep(cover, pc)
      /\ origin' = origin /\ block' = block /\ cheat' = cheat
    BY DEF Instruction
<1>2. /\ InspectorsTyped /\ cover \in Covers /\ CoverFollows(cover, frames) /\ frames \in Seq(EvmFrames)
      /\ cheat.depth = Len(frames) /\ Opened(cheat, frames) /\ OriginKept(cheat, origin)
    BY DEF InspectorsInv, InspectorsTyped
<1>3. cover' \in Covers /\ CoverFollows(cover', fs)
    BY <1>1, <1>2, CoverStepped, CoverKept
<1>4. cheat.depth = Len(fs) /\ Opened(cheat, fs)
    BY <1>2 DEF SameCode, Opened
<1>5. InspectorsTyped'
    BY <1>1, <1>2, <1>3 DEF InspectorsTyped
<1> QED
    BY <1>1, <1>2, <1>3, <1>4, <1>5 DEF InspectorsInv

\* A plain instruction or a jump keeps the invariant.
LEMMA StepInv ==
    ASSUME InspectorsInv, NEW pc \in Pcs, Step(pc) \/ \E dst \in Pcs : Jump(pc, dst)
    PROVE  InspectorsInv'
<1>1. /\ frames \in Seq(EvmFrames) /\ trace \in [stack : Seq(TraceFrames), roots : Nat]
      /\ SameCode(frames, frames) /\ TraceFollows(trace.stack, frames)
    BY DEF InspectorsInv, InspectorsTyped, SameCode
<1> QED
    BY <1>1, InstructionInv DEF Step, Jump

\* A storage write keeps the invariant.
LEMMA SstoreInv == ASSUME InspectorsInv, NEW pc \in Pcs, Sstore(pc) PROVE InspectorsInv'
<1> DEFINE fs == [frames EXCEPT ![Len(frames)].changes = @ + 1]
           t == TraceStore(trace)
<1>1. Running
    BY DEF Sstore
<1>2. fs \in Seq(EvmFrames) /\ SameCode(frames, fs)
    BY <1>1, Executing, ChangeCounted
<1>3. /\ trace.stack \in Seq(TraceFrames) /\ trace.roots \in Nat /\ TraceFollows(trace.stack, frames)
      /\ trace = [stack |-> trace.stack, roots |-> trace.roots]
    BY DEF InspectorsInv, InspectorsTyped
<1>4. trace.stack # <<>>
    BY <1>1, <1>3, Executing DEF TraceFollows
<1>5. t = [stack |-> [trace.stack EXCEPT ![Len(trace.stack)].changes = @ + 1], roots |-> trace.roots]
    BY <1>3, <1>4 DEF TraceStore
<1>6. /\ [trace.stack EXCEPT ![Len(trace.stack)].changes = @ + 1] \in Seq(TraceFrames)
      /\ TraceFollows([trace.stack EXCEPT ![Len(trace.stack)].changes = @ + 1], fs)
    BY <1>1, <1>3, Executing, TraceChangeCounted
<1>7. t \in [stack : Seq(TraceFrames), roots : Nat] /\ TraceFollows(t.stack, fs)
    BY <1>3, <1>5, <1>6
<1>8. Instruction(pc, {}, fs, t)
    BY DEF Sstore
<1> HIDE DEF fs, t
<1> QED
    BY <1>2, <1>7, <1>8, InstructionInv

\* A call, a delegate call or a creation keeps the invariant.
LEMMA CallInv ==
    ASSUME InspectorsInv, NEW pc \in Pcs,
           \/ \E to \in Contracts \union {Vm} : Call(pc, to)
           \/ \E lib \in Contracts : DelegateCall(pc, lib)
           \/ Create(pc)
    PROVE  InspectorsInv'
<1> DEFINE cv == CoverStep(cover, pc)
<1>1. cv \in Covers /\ CoverFollows(cv, frames)
    BY CoverStepped DEF InspectorsInv, InspectorsTyped
<1> HIDE DEF cv
<1>2. ASSUME NEW to \in Contracts \union {Vm}, Call(pc, to) PROVE InspectorsInv'
    <2>1. Running /\ EnterCode("call", to, to, ApplyPrank(Deeper(cheat), origin, Me.addr, to), cv)
        BY <1>2 DEF Call, Executes, cv
    <2>2. to \in Deployed /\ to \in Addresses
        BY DEF Deployed, Addresses
    <2> QED
        BY <1>1, <2>1, <2>2, Executing, PrankInputs, EnterCodeInv DEF Kinds
<1>3. ASSUME NEW lib \in Contracts, DelegateCall(pc, lib) PROVE InspectorsInv'
    <2>1. Running /\ EnterCode("delegate", Me.addr, lib, ApplyPrank(Deeper(cheat), origin, Me.caller, Me.addr), cv)
        BY <1>3 DEF DelegateCall, Executes, cv
    <2>2. lib \in Deployed
        BY DEF Deployed
    <2> QED
        BY <1>1, <2>1, <2>2, Executing, PrankInputs, EnterCodeInv DEF Kinds
<1>4. CASE Create(pc)
    <2>1. Running /\ EnterCode("create", Created, Created, ApplyPrank(Deeper(cheat), origin, Me.addr, Created), cv)
        BY <1>4 DEF Create, Executes, ApplyCreatePrank, cv
    <2>2. Created \in Deployed /\ Created \in Addresses
        BY DEF Deployed, Addresses
    <2> QED
        BY <1>1, <2>1, <2>2, Executing, PrankInputs, EnterCodeInv DEF Kinds
<1> QED
    BY <1>2, <1>3, <1>4

\* A frame that ends at once (a user's address, a failing creation) keeps the invariant.
LEMMA PlainInv ==
    ASSUME InspectorsInv, NEW pc \in Pcs,
           (\E to \in Users, res \in {"stop", "revert"} : CallPlain(pc, to, res)) \/ CreateFails(pc)
    PROVE  InspectorsInv'
<1> DEFINE cv == CoverStep(cover, pc)
<1>1. cv \in Covers /\ CoverFollows(cv, frames)
    BY CoverStepped DEF InspectorsInv, InspectorsTyped
<1>2. block' \in [BlockFields -> Nat]
    BY DEF InspectorsInv, InspectorsTyped, CallPlain, CreateFails
<1> HIDE DEF cv
<1>3. ASSUME NEW to \in Users, NEW res, CallPlain(pc, to, res) PROVE InspectorsInv'
    <2>1. Running /\ EnterAndLeave("call", to, ApplyPrank(Deeper(cheat), origin, Me.addr, to), cv, res)
        BY <1>3 DEF CallPlain, Executes, cv
    <2>2. to \in Addresses
        BY DEF Addresses
    <2> QED
        BY <1>1, <1>2, <2>1, <2>2, Executing, PrankInputs, EnterAndLeaveInv DEF Kinds
<1>4. CASE CreateFails(pc)
    <2>1. Running /\ EnterAndLeave("create", Created, ApplyPrank(Deeper(cheat), origin, Me.addr, Created), cv, "revert")
        BY <1>4 DEF CreateFails, Executes, ApplyCreatePrank, cv
    <2>2. Created \in Addresses
        BY DEF Addresses
    <2> QED
        BY <1>1, <1>2, <2>1, <2>2, Executing, PrankInputs, EnterAndLeaveInv DEF Kinds
<1> QED
    BY <1>3, <1>4

\* The call hook hands a handler's new prank to the frame that called it.
LEMMA CheatcodeInv ==
    ASSUME InspectorsInv, Executes, NEW d, NEW restore \in BOOLEAN, Cheatcode(d, restore),
           block' \in [BlockFields -> Nat],
           d.cheat \in CheatStates, d.cheat.depth = Len(frames) + 1, d.cheat.original = cheat.original,
           \A p \in d.cheat.active : p \in cheat.active \/ (p.by = Zero /\ p.depth = 0),
           ~restore /\ d.cheat.active = {} /\ d.cheat.start = {} => cheat.active = {} /\ cheat.start = {}
    PROVE  InspectorsInv'
<1> DEFINE c == Attribute(d.cheat, Me.addr)
           a == [caller |-> Me.addr,
                 cheat  |-> IF restore THEN Restored(c) ELSE c,
                 origin |-> IF restore THEN RestoredOrigin(c, origin) ELSE origin]
           cv == CoverStep(cover, 0)
<1>1. Running /\ Me.addr # Zero /\ Me.addr \in Addresses /\ Len(frames) \in Nat \ {0} /\ frames # <<>>
      /\ frames[Len(frames)].addr = Me.addr
    BY Executing DEF Executes
<1>2. \A p \in cheat.active : p.depth \in 1 .. Len(frames) /\ frames[p.depth].addr = p.by /\ p.by # Zero
    BY <1>1, Executing DEF InspectorsInv, Opened
<1>3. \A p \in d.cheat.active : \/ p.by = Zero /\ p.depth = 0
                                \/ p.depth \in 1 .. Len(frames) /\ frames[p.depth].addr = p.by /\ p.by # Zero
    BY <1>2
<1>4. /\ c \in CheatStates /\ c.depth = Len(frames) + 1 /\ c.original = cheat.original
      /\ (c.active = {} <=> d.cheat.active = {}) /\ (c.start = {} <=> d.cheat.start = {})
      /\ Opened(c, frames)
    BY <1>1, <1>3, PrankAttributed
<1>5. OriginKept(cheat, origin) /\ origin \in Addresses
    BY DEF InspectorsInv, InspectorsTyped
<1> HIDE DEF c
<1>6. Inputs(a, frames)
    <2>1. CASE restore
        <3>1. /\ Restored(c) \in CheatStates /\ Restored(c).depth = c.depth /\ Restored(c).active = c.active
              /\ RestoredOrigin(c, origin) \in Addresses /\ OriginKept(Restored(c), RestoredOrigin(c, origin))
            BY <1>4, <1>5, OriginRestores DEF OriginKept
        <3>2. Opened(Restored(c), frames)
            BY <1>4, <3>1 DEF Opened
        <3> QED
            BY <1>1, <1>4, <2>1, <3>1, <3>2 DEF Inputs
    <2>2. CASE ~restore
        <3>1. OriginKept(c, origin)
            BY <1>4, <1>5, <2>2 DEF OriginKept
        <3> QED
            BY <1>1, <1>4, <1>5, <2>2, <3>1 DEF Inputs
    <2> QED
        BY <2>1, <2>2
<1>7. cv \in Covers /\ CoverFollows(cv, frames)
    BY CoverStepped DEF InspectorsInv, InspectorsTyped
<1>8. EnterAndLeave("call", Vm, a, cv, d.res)
    BY DEF Cheatcode, c
<1> HIDE DEF a, cv
<1> QED
    BY <1>1, <1>6, <1>7, <1>8, EnterAndLeaveInv DEF Kinds, Addresses

\* What vm.prank records is a prank, not started yet.
LEMMA PrankIsPrank ==
    ASSUME NEW addr \in Users, NEW orig \in {{}} \union { {u} : u \in Users }
    PROVE  Prank(addr, orig) \in Pranks /\ Prank(addr, orig).by = Zero /\ Prank(addr, orig).depth = 0
<1>1. orig \in SUBSET Addresses
    BY DEF Addresses
<1> QED
    BY <1>1 DEF Prank, Pranks, Addresses

\* A cheatcode call keeps the invariant.
LEMMA CheatcodesInv ==
    ASSUME InspectorsInv,
           \/ CallStopPrank
           \/ \E addr \in Users, orig \in {{}} \union { {u} : u \in Users } :
                 CallPrank(addr, orig) \/ CallStartPrank(addr, orig)
           \/ \E f \in BlockFields, v \in BlockValues : CallBlock(SetField(block, f, v))
           \/ \E res \in PureOutcomes \ {"none"} : CallPure(res)
    PROVE  InspectorsInv'
<1> DEFINE c == Deeper(cheat)
<1>0. /\ c \in CheatStates /\ c.depth = Len(frames) + 1 /\ c.active = cheat.active /\ c.start = cheat.start
      /\ c.original = cheat.original /\ block \in [BlockFields -> Nat]
    BY DeeperOK DEF InspectorsInv, InspectorsTyped
<1> HIDE DEF c
<1>1. ASSUME NEW res, Executes, Cheatcode(Done(res, c), FALSE), block' \in [BlockFields -> Nat]
      PROVE  InspectorsInv'
    <2> DEFINE d == Done(res, c)
    <2>1. d.cheat = c
        BY DEF Done
    <2> HIDE DEF d
    <2>2. Executes /\ Cheatcode(d, FALSE)
        BY <1>1 DEF d
    <2>3. d.cheat \in CheatStates /\ d.cheat.depth = Len(frames) + 1 /\ d.cheat.original = cheat.original
        BY <1>0, <2>1
    <2>4. \A p \in d.cheat.active : p \in cheat.active \/ (p.by = Zero /\ p.depth = 0)
        <3>1. d.cheat.active = cheat.active
            BY <1>0, <2>1
        <3> QED
            BY <3>1, Zenon
    <2>5. d.cheat.active = {} /\ d.cheat.start = {} => cheat.active = {} /\ cheat.start = {}
        BY <1>0, <2>1
    <2> QED
        BY <1>1, <2>2, <2>3, <2>4, <2>5, CheatcodeInv
<1>2. CASE CallStopPrank
    <2> DEFINE d == StopPrank(c)
    <2>1. d.cheat \in CheatStates /\ d.cheat.depth = c.depth /\ d.cheat.original = c.original /\ d.cheat.active = {}
        BY <1>0 DEF StopPrank, Done, CheatStates
    <2>2. Executes /\ Cheatcode(d, TRUE) /\ block' = block
        BY <1>2 DEF CallStopPrank, c
    <2> HIDE DEF d
    <2> QED
        BY <1>0, <2>1, <2>2, CheatcodeInv
<1>3. ASSUME NEW addr \in Users, NEW orig \in {{}} \union { {u} : u \in Users }, CallPrank(addr, orig)
      PROVE  InspectorsInv'
    <2> DEFINE d == OpenPrank(c, addr, orig)
    <2>1. Executes /\ Cheatcode(d, FALSE) /\ block' = block
        BY <1>3 DEF CallPrank, c
    <2>2. CASE PrankRefused(c)
        BY <1>0, <1>1, <2>1, <2>2 DEF OpenPrank
    <2>3. CASE ~PrankRefused(c)
        <3>1. d.cheat = [c EXCEPT !.active = {Prank(addr, orig)}]
            BY <2>3 DEF OpenPrank, Done
        <3>2. /\ d.cheat \in CheatStates /\ d.cheat.depth = c.depth /\ d.cheat.original = c.original
              /\ d.cheat.active = {Prank(addr, orig)} /\ d.cheat.start = c.start
            BY <1>0, <3>1, PrankIsPrank DEF CheatStates
        <3> HIDE DEF d
        <3> QED
            BY <1>0, <2>1, <3>2, PrankIsPrank, CheatcodeInv
    <2> QED
        BY <2>2, <2>3
<1>4. ASSUME NEW addr \in Users, NEW orig \in {{}} \union { {u} : u \in Users }, CallStartPrank(addr, orig)
      PROVE  InspectorsInv'
    <2> DEFINE d == OpenStart(c, addr, orig)
    <2>1. Executes /\ Cheatcode(d, FALSE) /\ block' = block
        BY <1>4 DEF CallStartPrank, c
    <2>2. CASE StartRefused(c)
        BY <1>0, <1>1, <2>1, <2>2 DEF OpenStart
    <2>3. CASE ~StartRefused(c)
        <3>1. d.cheat = [c EXCEPT !.start = {Prank(addr, orig)}]
            BY <2>3 DEF OpenStart, Done
        <3>2. /\ d.cheat \in CheatStates /\ d.cheat.depth = c.depth /\ d.cheat.original = c.original
              /\ d.cheat.start = {Prank(addr, orig)} /\ d.cheat.active = c.active
            BY <1>0, <3>1, PrankIsPrank DEF CheatStates
        <3> HIDE DEF d
        <3>3. \A p \in d.cheat.active : p \in cheat.active \/ (p.by = Zero /\ p.depth = 0)
            <4>1. d.cheat.active = cheat.active
                BY <1>0, <3>2
            <4> QED
                BY <4>1, Zenon
        <3> QED
            BY <1>0, <2>1, <3>2, <3>3, CheatcodeInv
    <2> QED
        BY <2>2, <2>3
<1>5. ASSUME NEW f \in BlockFields, NEW v \in BlockValues, CallBlock(SetField(block, f, v))
      PROVE  InspectorsInv'
    <2>1. SetField(block, f, v) \in [BlockFields -> Nat]
        BY <1>0, InspectorsAssumption DEF SetField
    <2> QED
        BY <1>1, <1>5, <2>1 DEF CallBlock, c
<1>6. ASSUME NEW res, CallPure(res) PROVE InspectorsInv'
    BY <1>0, <1>1, <1>6 DEF CallPure, c
<1> QED
    BY <1>2, <1>3, <1>4, <1>5, <1>6

\* Returning, reverting or running out of gas keeps the invariant.
LEMMA ReturnInv ==
    ASSUME InspectorsInv, NEW pc \in Pcs, NEW res, Return(pc, res)
    PROVE  InspectorsInv'
<1> DEFINE cv == CoverStep(cover, pc)
           gs == Pop(frames)
<1>1. Running /\ frames # <<>> /\ frames \in Seq(EvmFrames) /\ Len(frames) \in Nat \ {0} /\ Me.kind \in Kinds
    BY Executing DEF Return, EvmFrames
<1>2. gs \in Seq(EvmFrames) /\ Len(gs) = Len(frames) - 1 /\ \A i \in 1 .. Len(gs) : gs[i] = frames[i]
    BY <1>1, Popped
<1>3. frames' = WithChild(gs) /\ frames' \in Seq(EvmFrames) /\ SameCode(gs, frames')
    BY <1>2, ChildCounted DEF Return
<1>4. cover' \in Covers /\ CoverFollows(cover', frames')
    <2>1. cv \in Covers /\ CoverFollows(cv, frames) /\ cover' = CoverLeave(cv, Me.kind)
        BY CoverStepped DEF InspectorsInv, InspectorsTyped, Return
    <2> HIDE DEF cv
    <2> QED
        BY <1>1, <1>2, <1>3, <2>1, CoverLeft, CoverKept
<1>5. /\ cheat' \in CheatStates /\ origin' \in Addresses /\ cheat.depth' = Len(frames')
      /\ Opened(cheat', frames') /\ OriginKept(cheat', origin')
    <2>1. /\ Len(frames') = Len(gs) /\ Len(frames') \in Nat /\ Len(frames) = Len(frames') + 1
          /\ \A i \in 1 .. Len(frames') : frames'[i].addr = frames[i].addr
        BY <1>1, <1>2, <1>3 DEF SameCode
    <2>2. cheat' = FrameEnd(cheat) /\ origin' = FrameEndOrigin(cheat, origin)
        BY DEF Return
    <2>3. cheat \in CheatStates /\ origin \in Addresses /\ Opened(cheat, frames) /\ OriginKept(cheat, origin)
          /\ cheat.depth = Len(frames)
        BY DEF InspectorsInv, InspectorsTyped
    <2> HIDE DEF gs
    <2> QED
        BY <2>1, <2>2, <2>3, FrameEnds
<1>6. trace' \in [stack : Seq(TraceFrames), roots : Nat] /\ TraceFollows(trace.stack', frames')
    <2> DEFINE st == Pop(trace.stack)
    <2>1. /\ trace.stack \in Seq(TraceFrames) /\ trace.roots \in Nat /\ TraceFollows(trace.stack, frames)
          /\ trace = [stack |-> trace.stack, roots |-> trace.roots]
        BY DEF InspectorsInv, InspectorsTyped
    <2>2. st \in Seq(TraceFrames) /\ TraceFollows(st, gs)
        <3>1. trace.stack # <<>>
            BY <1>1, <2>1 DEF TraceFollows
        <3> QED
            BY <1>1, <2>1, <3>1, TracePopped, Popped
    <2>3. trace' = TraceLeave(trace)
        BY DEF Return
    <2> HIDE DEF gs
    <2>4. CASE st = <<>>
        <3>1. trace' = [stack |-> st, roots |-> trace.roots + 1]
            BY <2>1, <2>3, <2>4 DEF TraceLeave
        <3>2. Len(gs) = 0
            BY <2>2, <2>4 DEF TraceFollows
        <3>3. gs = <<>> /\ frames' = gs
            BY <1>2, <1>3, <3>2 DEF WithChild
        <3> HIDE DEF st
        <3> QED
            BY <2>1, <2>2, <3>1, <3>3
    <2>5. CASE st # <<>>
        <3>1. trace' = [stack |-> [st EXCEPT ![Len(st)].children = @ + 1], roots |-> trace.roots]
            BY <2>1, <2>3, <2>5 DEF TraceLeave
        <3>2. gs # <<>>
            BY <1>2, <2>2, <2>5 DEF TraceFollows
        <3> HIDE DEF st
        <3>3. [st EXCEPT ![Len(st)].children = @ + 1] \in Seq(TraceFrames)
              /\ TraceFollows([st EXCEPT ![Len(st)].children = @ + 1], frames')
            BY <1>2, <1>3, <2>2, <3>2, TraceChildCounted
        <3> QED
            BY <2>1, <3>1, <3>3
    <2> QED
        BY <2>4, <2>5
<1>7. InspectorsTyped'
    BY <1>3, <1>4, <1>5, <1>6 DEF InspectorsTyped, InspectorsInv, Return
<1> QED
    BY <1>4, <1>5, <1>6, <1>7 DEF InspectorsInv

\* Every step of an execution keeps the invariant.
LEMMA InspectorsStepInv == InspectorsInv /\ [Next]_vars => InspectorsInv'
<1> SUFFICES ASSUME InspectorsInv, [Next]_vars PROVE InspectorsInv'
    OBVIOUS
<1>1. CASE UNCHANGED vars
    BY <1>1 DEF vars, InspectorsInv, InspectorsTyped
<1>2. CASE Next
    BY <1>2, BeginTxInv, StepInv, SstoreInv, CallInv, PlainInv, CheatcodesInv, ReturnInv DEF Next
<1> QED
    BY <1>1, <1>2

-----------------------------------------------------------------------------
(* What it says of the inspectors.                                         *)

\* The inspectors follow the EVM in every reachable state.
LEMMA InspectorsFollow == Spec => []InspectorsInv
BY InspectorsInitInv, InspectorsStepInv, PTL DEF Spec

\* A single-call prank is gone when the frame that opened it is, and with the
\* last prank tx.origin is the sender's again, however calls, creates, failing
\* frames and cheatcodes nest.
THEOREM PranksAreScoped == Spec => []PranksEnd
<1>1. InspectorsInv => PranksEnd
    BY DEF InspectorsInv, PranksEnd, ActiveHasInitiator, OriginRestored, Opened, OriginKept
<1> QED
    BY <1>1, InspectorsFollow, PTL

\* The three inspectors agree with the EVM on the stack of frames, and the
\* trace on who called, created and stored what.
THEOREM InspectorsAgree == Spec => []LayersAgree
<1>1. InspectorsInv => LayersAgree
    BY DEF InspectorsInv, LayersAgree, CoverFollows, TraceFollows
<1> QED
    BY <1>1, InspectorsFollow, PTL

-----------------------------------------------------------------------------
(* The points an event records.                                            *)

\* Points in the code current in cv, at its program counter.
AtInstruction(ps, cv) == \A x \in ps : x[2] \in cv.current /\ x[3] = cv.last

\* Each kind of point is recorded at the instruction that was executed last.
LEMMA RecordedPoints ==
    ASSUME NEW cv
    PROVE  /\ AtInstruction(StepPoints(cv), cv)
           /\ \A dst : AtInstruction(JumpPoints(cv, dst), cv)
           /\ \A kind, addr : AtInstruction(EnterPoints(cv, kind, addr), cv)
           /\ \A res, in : in.current = cv.current /\ in.last = cv.last =>
                              AtInstruction(RevertPoints(in, res), cv)
<1>1. AtInstruction(StepPoints(cv), cv)
    BY DEF AtInstruction, StepPoints
<1>2. \A dst : AtInstruction(JumpPoints(cv, dst), cv)
    BY DEF AtInstruction, JumpPoints
<1>3. \A kind, addr : AtInstruction(EnterPoints(cv, kind, addr), cv)
    BY DEF AtInstruction, EnterPoints, CallPoints
<1>4. \A res, in : in.current = cv.current /\ in.last = cv.last => AtInstruction(RevertPoints(in, res), cv)
    BY DEF AtInstruction, RevertPoints
<1> QED
    BY <1>1, <1>2, <1>3, <1>4

\* So are the points of a call that is entered and left at once.
LEMMA BouncePoints ==
    ASSUME NEW cv \in Covers, ~cv.init, NEW kind \in Kinds, NEW addr, NEW a, NEW res,
           EnterAndLeave(kind, addr, a, cv, res)
    PROVE  AtInstruction(noted', cv)
<1> DEFINE in == CoverEnter(cv, kind)
<1>1. in.current = cv.current /\ in.last = cv.last
    BY CoverEnters
<1>2. noted' = StepPoints(cv) \union EnterPoints(cv, kind, addr) \union RevertPoints(in, res)
    BY DEF EnterAndLeave
<1> HIDE DEF in
<1>3. AtInstruction(RevertPoints(in, res), cv)
    BY <1>1, RecordedPoints
<1>4. AtInstruction(StepPoints(cv), cv) /\ AtInstruction(EnterPoints(cv, kind, addr), cv)
    BY RecordedPoints
<1> QED
    BY <1>2, <1>3, <1>4 DEF AtInstruction

\* Every event records in the code that was current when it happened.
LEMMA EventPoints ==
    ASSUME InspectorsInv, Next
    PROVE  \E cv : cv.current = cover.current /\ AtInstruction(noted', cv)
<1> DEFINE Goal == \E cv : cv.current = cover.current /\ AtInstruction(noted', cv)
<1>1. cover \in Covers /\ CoverFollows(cover, frames)
    BY DEF InspectorsInv, InspectorsTyped
<1>2. ASSUME NEW pc \in Nat \union Pcs
      PROVE  /\ CoverStep(cover, pc) \in Covers /\ ~CoverStep(cover, pc).init
             /\ CoverStep(cover, pc).current = cover.current
    BY <1>1, CoverStepped DEF CoverFollows
<1>3. ASSUME NEW cv, cv.current = cover.current, NEW kind, NEW addr, NEW code, NEW a,
             EnterCode(kind, addr, code, a, cv)
      PROVE  Goal
    <2>1. AtInstruction(StepPoints(cv), cv) /\ AtInstruction(EnterPoints(cv, kind, addr), cv)
        BY RecordedPoints
    <2>2. AtInstruction(noted', cv)
        BY <1>3, <2>1 DEF EnterCode, AtInstruction
    <2> QED
        BY <1>3, <2>2
<1>4. ASSUME NEW pc \in Nat \union Pcs, NEW kind \in Kinds, NEW addr, NEW a, NEW res,
             EnterAndLeave(kind, addr, a, CoverStep(cover, pc), res)
      PROVE  Goal
    BY <1>2, <1>4, BouncePoints
<1>5. ASSUME NEW pc \in Pcs, NEW points, NEW fs, NEW t, Instruction(pc, points, fs, t),
             AtInstruction(points, CoverStep(cover, pc))
      PROVE  Goal
    <2>1. AtInstruction(StepPoints(CoverStep(cover, pc)), CoverStep(cover, pc))
        BY RecordedPoints
    <2>2. AtInstruction(noted', CoverStep(cover, pc))
        BY <1>5, <2>1 DEF Instruction, AtInstruction
    <2> QED
        BY <1>2, <2>2
<1>6. ASSUME NEW d, NEW restore, Cheatcode(d, restore) PROVE Goal
    <2>1. 0 \in Nat \union Pcs /\ "call" \in Kinds
        BY DEF Kinds
    <2> QED
        BY <1>4, <1>6, <2>1 DEF Cheatcode
<1>7. ASSUME NEW pc \in Pcs, NEW res, Return(pc, res) PROVE Goal
    <2> DEFINE cv == CoverStep(cover, pc)
    <2>1. AtInstruction(StepPoints(cv), cv) /\ AtInstruction(RevertPoints(cv, res), cv)
        BY RecordedPoints
    <2>2. noted' = StepPoints(cv) \union RevertPoints(cv, res)
        BY <1>7 DEF Return
    <2>3. AtInstruction(noted', cv)
        BY <2>1, <2>2 DEF AtInstruction
    <2> QED
        BY <1>2, <2>3
<1>8. CASE BeginTx
    BY <1>3, <1>8 DEF BeginTx
<1>9. CASE \/ CallStopPrank
           \/ \E addr \in Users, orig \in {{}} \union { {u} : u \in Users } :
                 CallPrank(addr, orig) \/ CallStartPrank(addr, orig)
           \/ \E f \in BlockFields, v \in BlockValues : CallBlock(SetField(block, f, v))
           \/ \E res \in PureOutcomes \ {"none"} : CallPure(res)
    BY <1>6, <1>9 DEF CallStopPrank, CallPrank, CallStartPrank, CallBlock, CallPure
<1>10. ASSUME NEW pc \in Pcs, Step(pc) \/ Sstore(pc) \/ \E dst \in Pcs : Jump(pc, dst) PROVE Goal
    <2>1. AtInstruction({}, CoverStep(cover, pc)) /\ \A dst : AtInstruction(JumpPoints(CoverStep(cover, pc), dst), CoverStep(cover, pc))
        BY RecordedPoints DEF AtInstruction
    <2> QED
        BY <1>5, <1>10, <2>1 DEF Step, Sstore, Jump
<1>11. ASSUME NEW pc \in Pcs, \/ \E to \in Contracts \union {Vm} : Call(pc, to)
                              \/ \E lib \in Contracts : DelegateCall(pc, lib)
                              \/ Create(pc)
       PROVE  Goal
    <2>1. CoverStep(cover, pc).current = cover.current
        BY <1>2
    <2> QED
        BY <1>3, <1>11, <2>1 DEF Call, DelegateCall, Create
<1>12. ASSUME NEW pc \in Pcs,
              (\E to \in Users, res \in {"stop", "revert"} : CallPlain(pc, to, res)) \/ CreateFails(pc)
       PROVE  Goal
    BY <1>4, <1>12 DEF CallPlain, CreateFails, Kinds
<1> DEFINE AtPc(pc) ==
              \/ Step(pc) \/ Sstore(pc) \/ Create(pc) \/ CreateFails(pc)
              \/ \E dst \in Pcs : Jump(pc, dst)
              \/ \E to \in Contracts \union {Vm} : Call(pc, to)
              \/ \E lib \in Contracts : DelegateCall(pc, lib)
              \/ \E to \in Users, res \in {"stop", "revert"} : CallPlain(pc, to, res)
              \/ \E res \in {"stop", "revert"} : Return(pc, res)
<1>13. ASSUME NEW pc \in Pcs, AtPc(pc) PROVE Goal
    <2>1. CASE Step(pc) \/ Sstore(pc) \/ \E dst \in Pcs : Jump(pc, dst)
        BY <1>10, <2>1
    <2>2. CASE \/ \E to \in Contracts \union {Vm} : Call(pc, to)
               \/ \E lib \in Contracts : DelegateCall(pc, lib)
               \/ Create(pc)
        BY <1>11, <2>2
    <2>3. CASE (\E to \in Users, res \in {"stop", "revert"} : CallPlain(pc, to, res)) \/ CreateFails(pc)
        BY <1>12, <2>3
    <2>4. CASE \E res \in {"stop", "revert"} : Return(pc, res)
        BY <1>7, <2>4
    <2> QED
        BY <1>13, <2>1, <2>2, <2>3, <2>4
<1>14. Goal
    <2>1. CASE \E pc \in Pcs : AtPc(pc)
        <3> HIDE DEF AtPc
        <3> QED
            BY <1>13, <2>1
    <2>2. CASE \/ CallStopPrank
               \/ \E addr \in Users, orig \in {{}} \union { {u} : u \in Users } :
                     CallPrank(addr, orig) \/ CallStartPrank(addr, orig)
               \/ \E f \in BlockFields, v \in BlockValues : CallBlock(SetField(block, f, v))
               \/ \E res \in PureOutcomes \ {"none"} : CallPure(res)
        BY <1>9, <2>2
    <2> QED
        BY <1>8, <2>1, <2>2, Zenon DEF Next
<1> QED
    BY <1>14

\* Coverage is recorded in the code of the frame that executes, at one program
\* counter per event, whatever frames were entered, answered and left before.
THEOREM CoverageIsAttributed == Spec => PointsAtTheirInstruction
<1> DEFINE Here == /\ Running => \A x \in noted' : x[2] = CodeId(Me)
                   /\ \A x, y \in noted' : x[3] = y[3]
<1>1. ASSUME InspectorsInv, Next PROVE Here
    <2>1. PICK cv : cv.current = cover.current /\ AtInstruction(noted', cv)
        BY <1>1, EventPoints
    <2>2. Running => cover.current = {CodeId(Me)}
        <3>1. cover.current = IdsAt(frames, Len(frames))
            BY <1>1 DEF InspectorsInv, CoverFollows
        <3> QED
            BY <1>1, <3>1, Executing DEF IdsAt
    <2> QED
        BY <2>1, <2>2 DEF AtInstruction
<1>2. InspectorsInv /\ [Next]_vars => [Here]_vars
    BY <1>1
<1> QED
    BY <1>2, InspectorsFollow, PTL DEF Spec, PointsAtTheirInstruction

-----------------------------------------------------------------------------
(***************************************************************************)
(* The coverage map the workers share.                                     *)
(***************************************************************************)

(* The coverage of one execution.                                          *)

WordKinds == {"edge", "depth", "revert", "jump"}
Words == WordKinds \X Covered \X Nat

LocalOK(l) ==
    /\ l = [words |-> l.words, hits |-> l.hits]
    /\ DOMAIN l.words \subseteq Words /\ IsFiniteSet(DOMAIN l.words)
    /\ \A x \in DOMAIN l.words : IsFiniteSet(l.words[x])
    /\ DOMAIN l.hits \subseteq Covered \X Nat
    /\ \A k \in DOMAIN l.hits : l.hits[k] \in Nat
    /\ \A c \in Covered, p \in Nat :
          <<c, p>> \in DOMAIN l.hits <=> <<"edge", c, p>> \in DOMAIN l.words

\* The local map after each hit of an execution.
LocalAfter(run) ==
    CHOOSE after : after = [n \in 0 .. Len(run) |->
                               IF n = 0 THEN EmptyLocal ELSE Hit(after[n - 1], run[n])]

\* An execution fills its map hit by hit.
LEMMA LocalSteps ==
    ASSUME NEW run, Len(run) \in Nat
    PROVE  /\ LocalAfter(run)[0] = EmptyLocal
           /\ \A n \in 1 .. Len(run) : LocalAfter(run)[n] = Hit(LocalAfter(run)[n - 1], run[n])
           /\ LocalOf(run) = LocalAfter(run)[Len(run)]
<1> DEFINE L == Len(run)
           Fills(s, m) == s = [n \in 0 .. m |-> IF n = 0 THEN EmptyLocal ELSE Hit(s[n - 1], run[n])]
           S == {m \in 0 .. L : \E s : Fills(s, m)}
<1>1. 0 \in S
    <2>1. Fills([k \in 0 .. 0 |-> EmptyLocal], 0)
        OBVIOUS
    <2> HIDE DEF Fills
    <2> QED
        BY <2>1
<1>2. ASSUME NEW m \in 1 .. L, m - 1 \in S
      PROVE  m \in S
    <2>1. PICK s : Fills(s, m - 1)
        BY <1>2
    <2> DEFINE t == [k \in 0 .. m |-> IF k < m THEN s[k] ELSE Hit(s[m - 1], run[m])]
    <2>2. \A k \in 0 .. m : t[k] = IF k = 0 THEN EmptyLocal ELSE Hit(t[k - 1], run[k])
        <3> TAKE k \in 0 .. m
        <3>1. k # 0 => t[k - 1] = s[k - 1]
            OBVIOUS
        <3>2. k < m => s[k] = IF k = 0 THEN EmptyLocal ELSE Hit(s[k - 1], run[k])
            BY <2>1
        <3> QED
            BY <3>1, <3>2
    <2>3. Fills(t, m)
        BY <2>2
    <2>4. m \in 0 .. L
        OBVIOUS
    <2> HIDE DEF t, Fills
    <2> QED
        BY <2>3, <2>4
<1> HIDE DEF S
<1>3. \A m \in 0 .. L : m \in S
    BY <1>1, <1>2, InductionUpTo
<1>4. \E s : Fills(s, L)
    BY <1>3 DEF S
<1>5. Fills(LocalAfter(run), L)
    BY <1>4, Zenon DEF LocalAfter
<1>6. LocalOf(run) = LocalAfter(run)[Len(run)]
    BY DEF LocalOf, LocalAfter
<1> QED
    BY <1>5, <1>6

\* A bit more in one word.
LEMMA BitAdded ==
    ASSUME NEW f, NEW w, NEW b, IsFiniteSet(DOMAIN f), \A x \in DOMAIN f : IsFiniteSet(f[x])
    PROVE  /\ DOMAIN WithBit(f, w, b) = DOMAIN f \union {w}
           /\ IsFiniteSet(DOMAIN WithBit(f, w, b))
           /\ \A x \in DOMAIN WithBit(f, w, b) : IsFiniteSet(WithBit(f, w, b)[x])
<1>1. DOMAIN WithBit(f, w, b) = DOMAIN f \union {w}
    BY DEF WithBit
<1>2. IsFiniteSet(DOMAIN f \union {w})
    BY FS_AddElement
<1>3. ASSUME NEW x \in DOMAIN WithBit(f, w, b) PROVE IsFiniteSet(WithBit(f, w, b)[x])
    <2> DEFINE was == IF w \in DOMAIN f THEN f[w] ELSE {}
    <2>1. IsFiniteSet(was)
        BY FS_EmptySet
    <2>2. IsFiniteSet(was \union {b})
        BY <2>1, FS_AddElement
    <2>3. WithBit(f, w, b)[x] = IF x = w THEN was \union {b} ELSE f[x]
        BY <1>1 DEF WithBit
    <2> HIDE DEF was
    <2> QED
        BY <1>1, <2>2, <2>3
<1> QED
    BY <1>1, <1>2, <1>3

\* Every hit leaves a well-formed map.
LEMMA HitKeepsLocal ==
    ASSUME NEW l, LocalOK(l), NEW h \in Hits
    PROVE  LocalOK(Hit(l, h))
<1>0. WordSize \in Nat \ {0} /\ MaxHits \in Nat \ {0}
    BY CoverageAssumption
<1>1. CASE h.op = "step"
    <2>1. h.c \in Covered /\ h.pc \in Nat
        BY <1>1 DEF Hits
    <2> DEFINE e == <<"edge", h.c, h.pc>>
               d == <<"depth", h.c, h.pc>>
               b == IF h.depth > 63 THEN 63 ELSE h.depth
               k == <<h.c, h.pc>>
               edged == WithBit(l.words, e, 0)
               ws == IF h.pc < DepthTracked THEN WithBit(edged, d, b) ELSE edged
               hs == Bumped(l.hits, k)
    <2>2. Hit(l, h) = [words |-> ws, hits |-> hs]
        BY <1>1 DEF Hit
    <2>3. e \in Words /\ d \in Words /\ k \in Covered \X Nat
        BY <2>1 DEF Words, WordKinds
    <2>4. /\ DOMAIN edged = DOMAIN l.words \union {e} /\ IsFiniteSet(DOMAIN edged)
          /\ \A x \in DOMAIN edged : IsFiniteSet(edged[x])
        BY BitAdded DEF LocalOK
    <2>5. /\ DOMAIN ws = DOMAIN edged \/ DOMAIN ws = DOMAIN edged \union {d}
          /\ IsFiniteSet(DOMAIN ws) /\ \A x \in DOMAIN ws : IsFiniteSet(ws[x])
        <3> HIDE DEF edged, d, b
        <3> QED
            BY <2>4, BitAdded
    <2>6. DOMAIN ws \subseteq Words
        <3> HIDE DEF edged, d, b, ws, e
        <3> QED
            BY <2>3, <2>4, <2>5 DEF LocalOK
    <2>7. DOMAIN hs = DOMAIN l.hits \union {k}
        BY DEF Bumped
    <2>8. \A y \in DOMAIN hs : hs[y] \in Nat
        <3> TAKE y \in DOMAIN hs
        <3>1. \A z \in DOMAIN l.hits : l.hits[z] \in Nat
            BY DEF LocalOK
        <3> HIDE DEF k
        <3> QED
            BY <1>0, <2>7, <3>1 DEF Bumped
    <2>9. ASSUME NEW c \in Covered, NEW p \in Nat
          PROVE  <<c, p>> \in DOMAIN hs <=> <<"edge", c, p>> \in DOMAIN ws
        <3>1. <<c, p>> \in DOMAIN l.hits <=> <<"edge", c, p>> \in DOMAIN l.words
            BY DEF LocalOK
        <3>2. <<c, p>> = k <=> <<"edge", c, p>> = e
            OBVIOUS
        <3>3. <<"edge", c, p>> # d
            OBVIOUS
        <3> HIDE DEF e, d, k, edged, ws, hs
        <3> QED
            BY <2>4, <2>5, <2>7, <3>1, <3>2, <3>3
    <2> HIDE DEF ws, hs
    <2>10. DOMAIN hs \subseteq Covered \X Nat
        <3> HIDE DEF k
        <3> QED
            BY <2>3, <2>7 DEF LocalOK
    <2> QED
        BY <2>2, <2>5, <2>6, <2>8, <2>9, <2>10 DEF LocalOK
<1>2. ASSUME NEW ws, NEW x \in Words, x[1] # "edge", NEW b,
             ws = WithBit(l.words, x, b), Hit(l, h) = [words |-> ws, hits |-> l.hits]
      PROVE  LocalOK(Hit(l, h))
    <2>0. IsFiniteSet(DOMAIN l.words) /\ \A y \in DOMAIN l.words : IsFiniteSet(l.words[y])
        BY DEF LocalOK
    <2>1. /\ DOMAIN ws = DOMAIN l.words \union {x} /\ IsFiniteSet(DOMAIN ws)
          /\ \A y \in DOMAIN ws : IsFiniteSet(ws[y])
        BY <1>2, <2>0, BitAdded
    <2>4. Hit(l, h) = [words |-> ws, hits |-> l.hits]
        BY <1>2
    <2>2. \A c \in Covered, p \in Nat : <<"edge", c, p>> # x
        BY <1>2
    <2>3. DOMAIN ws \subseteq Words
        BY <2>1 DEF LocalOK
    <2> QED
        BY <2>1, <2>2, <2>3, <2>4 DEF LocalOK
<1>3. CASE h.op = "jump"
    <2>1. h.c \in Covered /\ h.marker \in Nat
        BY <1>3 DEF Hits
    <2> DEFINE x == <<"jump", h.c, h.marker>>
    <2>2. x \in Words /\ x[1] # "edge"
        BY <2>1 DEF Words, WordKinds
    <2>3. Hit(l, h) = [l EXCEPT !.words = WithBit(l.words, x, 0)]
        BY <1>3 DEF Hit
    <2> HIDE DEF x
    <2>5. Hit(l, h) = [words |-> WithBit(l.words, x, 0), hits |-> l.hits]
        BY <2>3 DEF LocalOK
    <2> QED
        BY <1>2, <2>2, <2>5
<1>4. CASE h.op = "revert"
    <2>1. h.c \in Covered /\ h.pc \in Nat
        BY <1>4 DEF Hits
    <2>2. h.pc \div WordSize \in Nat
        BY <1>0, <2>1
    <2> DEFINE x == <<"revert", h.c, h.pc \div WordSize>>
    <2>3. x \in Words /\ x[1] # "edge"
        BY <2>1, <2>2 DEF Words, WordKinds
    <2>4. Hit(l, h) = [l EXCEPT !.words = WithBit(l.words, x, h.pc % WordSize)]
        BY <1>4 DEF Hit
    <2> HIDE DEF x
    <2>5. Hit(l, h) = [words |-> WithBit(l.words, x, h.pc % WordSize), hits |-> l.hits]
        BY <2>4 DEF LocalOK
    <2> QED
        BY <1>2, <2>3, <2>5
<1> QED
    BY <1>1, <1>3, <1>4 DEF Hits

\* A worker without recorded coverage.
LEMMA EmptyIsLocal == LocalOK(EmptyLocal) /\ DOMAIN EmptyLocal.words = {} /\ DOMAIN EmptyLocal.hits = {}
<1>1. DOMAIN EmptyLocal.words = {} /\ DOMAIN EmptyLocal.hits = {}
    BY DEF EmptyLocal
<1>2. EmptyLocal = [words |-> EmptyLocal.words, hits |-> EmptyLocal.hits]
    BY DEF EmptyLocal
<1> QED
    BY <1>1, <1>2, FS_EmptySet DEF LocalOK

\* So does a whole execution.
LEMMA RunIsLocal ==
    ASSUME NEW run \in Seq(Hits)
    PROVE  LocalOK(LocalOf(run))
<1> DEFINE L == Len(run)
           S == {n \in 0 .. L : LocalOK(LocalAfter(run)[n])}
<1>1. L \in Nat /\ \A n \in 1 .. L : run[n] \in Hits
    OBVIOUS
<1>2. 0 \in S
    BY <1>1, LocalSteps, EmptyIsLocal
<1>3. ASSUME NEW n \in 1 .. L, n - 1 \in S PROVE n \in S
    <2>1. LocalAfter(run)[n] = Hit(LocalAfter(run)[n - 1], run[n])
        BY <1>1, LocalSteps
    <2> QED
        BY <1>1, <1>3, <2>1, HitKeepsLocal
<1> HIDE DEF S
<1>4. \A n \in 0 .. L : n \in S
    <2> HIDE DEF L
    <2> QED
        BY <1>1, <1>2, <1>3, InductionUpTo
<1>5. LocalOK(LocalAfter(run)[L])
    BY <1>1, <1>4 DEF S
<1> QED
    BY <1>1, <1>5, LocalSteps

\* The words any of the executions can touch.
AllWords == UNION { DOMAIN LocalOf(r).words : r \in Runs }

\* There are finitely many words of coverage.
LEMMA AllWordsFinite == IsFiniteSet(AllWords) /\ AllWords \subseteq Words
<1> DEFINE f == [r \in Runs |-> DOMAIN LocalOf(r).words]
           W == { DOMAIN LocalOf(r).words : r \in Runs }
<1>1. \A r \in Runs : LocalOK(LocalOf(r))
    BY CoverageAssumption, RunIsLocal
<1>2. \A D \in W : IsFiniteSet(D) /\ D \subseteq Words
    BY <1>1 DEF LocalOK
<1>3. f \in Surjection(Runs, W)
    BY DEF Surjection
<1>4. IsFiniteSet(W)
    BY <1>3, FS_Surjection, CoverageAssumption
<1> HIDE DEF W
<1>5. IsFiniteSet(UNION W)
    BY <1>2, <1>4, FS_UNION
<1>6. UNION W \subseteq Words
    BY <1>2
<1> QED
    BY <1>5, <1>6 DEF AllWords, W

\* What a worker can hold.
Locals == {EmptyLocal} \union { LocalOf(r) : r \in Runs }

\* What a run records.
LEMMA LocalsOK ==
    ASSUME NEW l \in Locals
    PROVE  LocalOK(l) /\ DOMAIN l.words \subseteq AllWords
BY EmptyIsLocal, RunIsLocal, CoverageAssumption DEF Locals, AllWords

-----------------------------------------------------------------------------
(* What a worker has merged, by what it has still to merge.                *)

InsertItem(x) == Item("insert", x[2], <<>>)
CodeItem(x) == Item("code", x[2], <<>>)
WordItem(x) == Item(x[1], x[2], x)
RawItem(x) == Item("raw", x[2], x)

\* The items a worker can have to do: t is what it has, l its local map.
TodoOK(l, t) ==
    /\ \A i \in t : \E x \in DOMAIN l.words :
          \/ i \in {InsertItem(x), CodeItem(x), WordItem(x)}
          \/ x[1] = "edge" /\ i = RawItem(x)
    /\ \A x \in DOMAIN l.words : ~(WordItem(x) \in t /\ RawItem(x) \in t)

\* What is done is in the map m, the codes c.
DoneOK(l, t, m, c) ==
    \A x \in DOMAIN l.words :
        /\ InsertItem(x) \in t \/ x[1] = "jump" \/ x \in DOMAIN m
        /\ WordItem(x) \in t \/ (x \in DOMAIN m /\ l.words[x] \subseteq m[x])
        /\ CodeItem(x) \in t \/ x[2] \in c

\* The hits of instruction k that are already in raw_edges.
Share(l, t, k) ==
    IF k \in DOMAIN l.hits /\ Item("edge", k[1], <<"edge", k[1], k[2]>>) \notin t
                           /\ Item("raw", k[1], <<"edge", k[1], k[2]>>) \notin t
    THEN l.hits[k] ELSE 0

RawAt(r, k) == IF k \in DOMAIN r THEN r[k] ELSE 0

RawOK(l, t, r) ==
    /\ DOMAIN r \subseteq Covered \X Nat
    /\ \A k \in Covered \X Nat :
          RawAt(r, k) = SumOn([w \in Workers |-> Share(l[w], t[w], k)], Workers)

\* An item is its three parts.
LEMMA ItemParts ==
    /\ \A o, c, x : Item(o, c, x).op = o /\ Item(o, c, x).c = c /\ Item(o, c, x).word = x
    /\ \A o, c, x, p, d, y : Item(o, c, x) = Item(p, d, y) => (o = p /\ c = d /\ x = y)
<1>1. \A o, c, x : Item(o, c, x).op = o /\ Item(o, c, x).c = c /\ Item(o, c, x).word = x
    BY DEF Item
<1>2. \A o, c, x, p, d, y : Item(o, c, x) = Item(p, d, y) => (o = p /\ c = d /\ x = y)
    BY DEF Item
<1> QED
    BY <1>1, <1>2

\* What a word's name says.
LEMMA WordParts ==
    ASSUME NEW x \in Words
    PROVE  x = <<x[1], x[2], x[3]>> /\ x[1] \in WordKinds /\ x[2] \in Covered /\ x[3] \in Nat
BY DEF Words

\* Different words have different items.
LEMMA ItemsApart ==
    ASSUME NEW x \in Words, NEW y \in Words
    PROVE  /\ WordItem(x) = WordItem(y) => x = y
           /\ RawItem(x) = RawItem(y) => x = y
           /\ WordItem(x) \notin {InsertItem(y), CodeItem(y), RawItem(y)}
           /\ InsertItem(x) \notin {CodeItem(y), RawItem(y)}
           /\ CodeItem(x) # RawItem(y)
           /\ (InsertItem(x) = InsertItem(y) \/ CodeItem(x) = CodeItem(y)) => x[2] = y[2]
<1>1. x[1] \notin {"insert", "code", "raw"}
    BY WordParts DEF WordKinds
<1> QED
    BY <1>1, ItemParts DEF WordItem, RawItem, InsertItem, CodeItem

-----------------------------------------------------------------------------
(* The invariant.                                                          *)

MergeTyped ==
    /\ DOMAIN local = Workers /\ DOMAIN todo = Workers /\ DOMAIN found = Workers
    /\ \A w \in Workers : local[w] \in Locals
    /\ DOMAIN map \subseteq AllWords
    /\ \A x \in DOMAIN map : IsFiniteSet(map[x])

WorkersOK ==
    \A w \in Workers : TodoOK(local[w], todo[w]) /\ DoneOK(local[w], todo[w], map, codes)

MergeInv == MergeTyped /\ WorkersOK

\* An item whose turn it is: what it is, and that its contract is in the map
\* unless it is the item that puts it there.
LEMMA ReadyItem ==
    ASSUME MergeInv, NEW w \in Workers, NEW i \in Ready(w)
    PROVE  /\ i \in todo[w]
           /\ \E x \in DOMAIN local[w].words :
                 \/ i \in {InsertItem(x), CodeItem(x), WordItem(x)}
                 \/ x[1] = "edge" /\ i = RawItem(x)
           /\ Item("insert", i.c, <<>>) \in todo[w] => i.op = "insert"
<1>1. i \in todo[w] /\ \A j \in todo[w] : j.c = i.c => Rank(i) <= Rank(j)
    BY DEF Ready
<1>2. PICK x \in DOMAIN local[w].words : \/ i \in {InsertItem(x), CodeItem(x), WordItem(x)}
                                         \/ x[1] = "edge" /\ i = RawItem(x)
    BY <1>1 DEF MergeInv, WorkersOK, TodoOK
<1>3. x[1] \in WordKinds
    BY LocalsOK, WordParts DEF MergeInv, MergeTyped, LocalOK
<1>4. i.op \in {"insert", "code", "raw"} \union WordKinds
    BY <1>2, <1>3, ItemParts DEF InsertItem, CodeItem, WordItem, RawItem
<1>5. ASSUME Item("insert", i.c, <<>>) \in todo[w] PROVE i.op = "insert"
    <2> DEFINE j == Item("insert", i.c, <<>>)
    <2>1. j.c = i.c /\ j.op = "insert"
        BY ItemParts
    <2>2. Rank(j) = 0
        BY <2>1 DEF Rank
    <2>3. Rank(i) <= 0
        BY <1>1, <1>5, <2>1, <2>2
    <2> HIDE DEF j
    <2> QED
        BY <1>4, <2>3 DEF Rank, WordKinds
<1> QED
    BY <1>1, <1>2, <1>5

\* A map that only gains words and bits keeps what is done.
LEMMA DoneStays ==
    ASSUME NEW l, NEW t, NEW m, NEW c, NEW n, NEW d, DoneOK(l, t, m, c),
           DOMAIN m \subseteq DOMAIN n, \A x \in DOMAIN m : m[x] \subseteq n[x], c \subseteq d
    PROVE  DoneOK(l, t, n, d)
<1> SUFFICES ASSUME NEW x \in DOMAIN l.words
             PROVE  /\ InsertItem(x) \in t \/ x[1] = "jump" \/ x \in DOMAIN n
                    /\ WordItem(x) \in t \/ (x \in DOMAIN n /\ l.words[x] \subseteq n[x])
                    /\ CodeItem(x) \in t \/ x[2] \in d
    BY DEF DoneOK
<1>1. /\ InsertItem(x) \in t \/ x[1] = "jump" \/ x \in DOMAIN m
      /\ WordItem(x) \in t \/ (x \in DOMAIN m /\ l.words[x] \subseteq m[x])
      /\ CodeItem(x) \in t \/ x[2] \in c
    BY DEF DoneOK
<1> QED
    BY <1>1

\* What every step of a merge leaves alone or only adds to.
Grows ==
    /\ DOMAIN map \subseteq DOMAIN map' /\ \A x \in DOMAIN map : map[x] \subseteq map'[x]
    /\ codes \subseteq codes'

\* The other workers are not concerned.
LEMMA OthersStay ==
    ASSUME MergeInv, Grows, NEW w \in Workers,
           \A v \in Workers : v # w => local'[v] = local[v] /\ todo'[v] = todo[v],
           TodoOK(local'[w], todo'[w]), DoneOK(local'[w], todo'[w], map', codes')
    PROVE  WorkersOK'
<1> SUFFICES ASSUME NEW v \in Workers
             PROVE  TodoOK(local'[v], todo'[v]) /\ DoneOK(local'[v], todo'[v], map', codes')
    BY DEF WorkersOK
<1>1. CASE v # w
    <2>1. TodoOK(local[v], todo[v]) /\ DoneOK(local[v], todo[v], map, codes)
        BY DEF MergeInv, WorkersOK
    <2>2. DoneOK(local[v], todo[v], map', codes')
        <3>1. /\ DOMAIN map \subseteq DOMAIN map' /\ codes \subseteq codes'
              /\ \A x \in DOMAIN map : map[x] \subseteq map'[x]
            BY DEF Grows
        <3> QED
            BY <2>1, <3>1, DoneStays
    <2> QED
        BY <1>1, <2>1, <2>2
<1> QED
    BY <1>1

\* What is in the items of an execution.
LEMMA ItemsOfLocal ==
    ASSUME NEW l, LocalOK(l)
    PROVE  /\ TodoOK(l, Items(l))
           /\ \A m, c : DoneOK(l, Items(l), m, c)
           /\ \A k \in Covered \X Nat : Share(l, Items(l), k) = 0
<1>1. \A x \in DOMAIN l.words : {InsertItem(x), CodeItem(x), WordItem(x)} \subseteq Items(l)
    BY DEF Items, InsertItem, CodeItem, WordItem
<1>2. \A i \in Items(l) : \E x \in DOMAIN l.words : i \in {InsertItem(x), CodeItem(x), WordItem(x)}
    BY DEF Items, InsertItem, CodeItem, WordItem
<1>3. \A x \in DOMAIN l.words : x \in Words
    BY DEF LocalOK
<1>4. \A x \in DOMAIN l.words : RawItem(x) \notin Items(l)
    BY <1>2, <1>3, ItemsApart
<1>5. TodoOK(l, Items(l))
    BY <1>2, <1>4 DEF TodoOK
<1>6. \A m, c : DoneOK(l, Items(l), m, c)
    BY <1>1 DEF DoneOK
<1>7. ASSUME NEW k \in Covered \X Nat PROVE Share(l, Items(l), k) = 0
    <2> DEFINE x == <<"edge", k[1], k[2]>>
    <2>1. k = <<k[1], k[2]>> /\ k[1] \in Covered /\ k[2] \in Nat
        OBVIOUS
    <2>2. k \in DOMAIN l.hits => x \in DOMAIN l.words
        BY <2>1 DEF LocalOK
    <2>3. WordItem(x) = Item("edge", k[1], x)
        BY DEF WordItem
    <2>4. k \in DOMAIN l.hits => Item("edge", k[1], x) \in Items(l)
        BY <1>1, <2>2, <2>3
    <2> QED
        BY <2>4 DEF Share
<1> QED
    BY <1>5, <1>6, <1>7

\* Starting a merge keeps the invariant, and coverage only grows.
LEMMA MergeKeeps ==
    ASSUME MergeInv, NEW w \in Workers, NEW run \in Runs, Merge(w, run)
    PROVE  MergeInv' /\ Grows
<1>1. /\ local' = [local EXCEPT ![w] = LocalOf(run)]
      /\ todo' = [todo EXCEPT ![w] = Items(LocalOf(run))]
      /\ map' = map /\ codes' = codes /\ found' = found
    BY DEF Merge
<1>2. LocalOf(run) \in Locals
    BY DEF Locals
<1>3. MergeTyped'
    BY <1>1, <1>2 DEF MergeInv, MergeTyped
<1>4. Grows
    BY <1>1 DEF Grows
<1>5. local'[w] = LocalOf(run) /\ todo'[w] = Items(LocalOf(run))
    BY <1>1 DEF MergeInv, MergeTyped
<1>6. LocalOK(LocalOf(run))
    BY <1>2, LocalsOK
<1>7. TodoOK(local'[w], todo'[w]) /\ DoneOK(local'[w], todo'[w], map', codes')
    BY <1>5, <1>6, ItemsOfLocal
<1>8. \A v \in Workers : v # w => local'[v] = local[v] /\ todo'[v] = todo[v]
    BY <1>1 DEF MergeInv, MergeTyped
<1>9. WorkersOK'
    BY <1>4, <1>7, <1>8, OthersStay
<1> QED
    BY <1>3, <1>4, <1>9 DEF MergeInv

\* An item done: it leaves the worker's list, and what it stood for holds.
LEMMA ItemDone ==
    ASSUME MergeInv, Grows, NEW w \in Workers, NEW i \in todo[w],
           local' = local, todo' = [todo EXCEPT ![w] = @ \ {i}],
           \A x \in DOMAIN local[w].words :
              /\ i = InsertItem(x) => x[1] = "jump" \/ x \in DOMAIN map'
              /\ i = WordItem(x) => x \in DOMAIN map' /\ local[w].words[x] \subseteq map'[x]
              /\ i = CodeItem(x) => x[2] \in codes'
    PROVE  WorkersOK'
<1>1. todo'[w] = todo[w] \ {i} /\ \A v \in Workers : v # w => todo'[v] = todo[v]
    BY DEF MergeInv, MergeTyped
<1>2. TodoOK(local[w], todo[w]) /\ DoneOK(local[w], todo[w], map, codes)
    BY DEF MergeInv, WorkersOK
<1>3. DoneOK(local[w], todo[w], map', codes')
    <2>1. /\ DOMAIN map \subseteq DOMAIN map' /\ codes \subseteq codes'
          /\ \A x \in DOMAIN map : map[x] \subseteq map'[x]
        BY DEF Grows
    <2> QED
        BY <1>2, <2>1, DoneStays
<1>4. TodoOK(local'[w], todo'[w])
    BY <1>1, <1>2 DEF TodoOK
<1>5. DoneOK(local'[w], todo'[w], map', codes')
    <2> SUFFICES ASSUME NEW x \in DOMAIN local[w].words
                 PROVE  /\ InsertItem(x) \in todo'[w] \/ x[1] = "jump" \/ x \in DOMAIN map'
                        /\ WordItem(x) \in todo'[w] \/ (x \in DOMAIN map' /\ local[w].words[x] \subseteq map'[x])
                        /\ CodeItem(x) \in todo'[w] \/ x[2] \in codes'
        BY DEF DoneOK
    <2>1. /\ InsertItem(x) \in todo[w] \/ x[1] = "jump" \/ x \in DOMAIN map'
          /\ WordItem(x) \in todo[w] \/ (x \in DOMAIN map' /\ local[w].words[x] \subseteq map'[x])
          /\ CodeItem(x) \in todo[w] \/ x[2] \in codes'
        BY <1>3 DEF DoneOK
    <2> QED
        BY <1>1, <2>1
<1> QED
    BY <1>1, <1>4, <1>5, OthersStay

\* So does inserting a contract's maps,
LEMMA InsertContractKeeps ==
    ASSUME MergeInv, NEW w \in Workers, NEW i \in Ready(w), InsertContract(w, i)
    PROVE  MergeInv' /\ Grows
<1>1. /\ i.op = "insert" /\ map' = GetOrInsert(map, WordsOf(i.c))
      /\ todo' = [todo EXCEPT ![w] = @ \ {i}]
      /\ codes' = codes /\ local' = local /\ found' = found
    BY DEF InsertContract
<1>2. WordsOf(i.c) \subseteq AllWords /\ \A x \in AllWords : x[2] = i.c /\ x[1] # "jump" => x \in WordsOf(i.c)
    BY DEF WordsOf, AllWords
<1>3. /\ DOMAIN map' = DOMAIN map \union WordsOf(i.c)
      /\ \A x \in DOMAIN map : map'[x] = map[x]
      /\ \A x \in WordsOf(i.c) : x \in DOMAIN map \/ map'[x] = {}
    BY <1>1 DEF GetOrInsert
<1>4. MergeTyped'
    <2>1. \A x \in DOMAIN map' : IsFiniteSet(map'[x])
        BY <1>3, FS_EmptySet DEF MergeInv, MergeTyped
    <2>2. DOMAIN todo' = Workers
        BY <1>1 DEF MergeInv, MergeTyped
    <2> QED
        BY <1>1, <1>2, <1>3, <2>1, <2>2 DEF MergeInv, MergeTyped
<1>5. Grows
    BY <1>1, <1>3 DEF Grows
<1>6. i \in todo[w]
    BY ReadyItem
<1>7. DOMAIN local[w].words \subseteq AllWords /\ AllWords \subseteq Words
    BY LocalsOK, AllWordsFinite DEF MergeInv, MergeTyped
<1>8. ASSUME NEW x \in DOMAIN local[w].words
      PROVE  /\ i = InsertItem(x) => x[1] = "jump" \/ x \in DOMAIN map'
             /\ i # WordItem(x) /\ i # CodeItem(x)
    <2>1. i.op = "insert" /\ x[1] \in WordKinds
        BY <1>1, <1>7, WordParts
    <2>2. i # WordItem(x) /\ i # CodeItem(x)
        BY <2>1, ItemParts DEF WordItem, CodeItem, WordKinds
    <2>3. i = InsertItem(x) => i.c = x[2]
        BY ItemParts DEF InsertItem
    <2> QED
        BY <1>2, <1>3, <1>7, <2>2, <2>3
<1>9. WorkersOK'
    BY <1>1, <1>5, <1>6, <1>8, ItemDone
<1> QED
    BY <1>4, <1>5, <1>9 DEF MergeInv

\* storing its code,
LEMMA StoreCodeKeeps ==
    ASSUME MergeInv, NEW w \in Workers, NEW i \in Ready(w), StoreCode(w, i)
    PROVE  MergeInv' /\ Grows
<1>1. /\ i.op = "code" /\ codes' = codes \union {i.c}
      /\ todo' = [todo EXCEPT ![w] = @ \ {i}]
      /\ map' = map /\ local' = local /\ found' = found
    BY DEF StoreCode
<1>4. MergeTyped'
    <2>2. DOMAIN todo' = Workers
        BY <1>1 DEF MergeInv, MergeTyped
    <2> QED
        BY <1>1, <2>2 DEF MergeInv, MergeTyped
<1>5. Grows
    BY <1>1 DEF Grows
<1>6. i \in todo[w]
    BY ReadyItem
<1>7. DOMAIN local[w].words \subseteq AllWords /\ AllWords \subseteq Words
    BY LocalsOK, AllWordsFinite DEF MergeInv, MergeTyped
<1>8. ASSUME NEW x \in DOMAIN local[w].words
      PROVE  i # InsertItem(x) /\ i # WordItem(x) /\ (i = CodeItem(x) => x[2] \in codes')
    <2>1. i.op = "code" /\ x[1] \in WordKinds
        BY <1>1, <1>7, WordParts
    <2>2. i # WordItem(x) /\ i # InsertItem(x)
        BY <2>1, ItemParts DEF WordItem, InsertItem, WordKinds
    <2>3. i = CodeItem(x) => i.c = x[2]
        BY ItemParts DEF CodeItem
    <2> QED
        BY <1>1, <2>2, <2>3
<1>9. WorkersOK'
    BY <1>1, <1>5, <1>6, <1>8, ItemDone
<1> QED
    BY <1>4, <1>5, <1>9 DEF MergeInv

\* merging hit counts,
LEMMA MergeRawKeeps ==
    ASSUME MergeInv, NEW w \in Workers, NEW i \in Ready(w), MergeRaw(w, i)
    PROVE  MergeInv' /\ Grows
<1>1. /\ i.op = "raw" /\ todo' = [todo EXCEPT ![w] = @ \ {i}]
      /\ map' = map /\ codes' = codes /\ local' = local /\ found' = found
    BY DEF MergeRaw
<1>4. MergeTyped'
    <2>2. DOMAIN todo' = Workers
        BY <1>1 DEF MergeInv, MergeTyped
    <2> QED
        BY <1>1, <2>2 DEF MergeInv, MergeTyped
<1>5. Grows
    BY <1>1 DEF Grows
<1>6. i \in todo[w]
    BY ReadyItem
<1>7. DOMAIN local[w].words \subseteq AllWords /\ AllWords \subseteq Words
    BY LocalsOK, AllWordsFinite DEF MergeInv, MergeTyped
<1>8. ASSUME NEW x \in DOMAIN local[w].words
      PROVE  i # InsertItem(x) /\ i # WordItem(x) /\ i # CodeItem(x)
    <2>1. i.op = "raw" /\ x[1] \in WordKinds
        BY <1>1, <1>7, WordParts
    <2> QED
        BY <2>1, ItemParts DEF WordItem, InsertItem, CodeItem, WordKinds
<1>9. WorkersOK'
    BY <1>1, <1>5, <1>6, <1>8, ItemDone
<1> QED
    BY <1>4, <1>5, <1>9 DEF MergeInv

\* inserting a jump,
LEMMA InsertJumpKeeps ==
    ASSUME MergeInv, NEW w \in Workers, NEW i \in Ready(w), InsertJump(w, i)
    PROVE  MergeInv' /\ Grows
<1>1. /\ i.op = "jump" /\ i.word \notin DOMAIN map /\ map' = GetOrInsert(map, {i.word})
      /\ codes' = codes /\ local' = local /\ found' = found /\ todo' = todo
    BY DEF InsertJump
<1>2. PICK x \in DOMAIN local[w].words : \/ i \in {InsertItem(x), CodeItem(x), WordItem(x)}
                                         \/ x[1] = "edge" /\ i = RawItem(x)
    BY ReadyItem
<1>3. i.word = x
    BY <1>1, <1>2, ItemParts DEF InsertItem, CodeItem, WordItem, RawItem
<1>4. x \in AllWords
    BY LocalsOK DEF MergeInv, MergeTyped
<1>5. /\ DOMAIN map' = DOMAIN map \union {i.word}
      /\ \A y \in DOMAIN map : map'[y] = map[y]
      /\ map'[i.word] = {}
    BY <1>1 DEF GetOrInsert
<1>6. MergeTyped'
    BY <1>1, <1>3, <1>4, <1>5, FS_EmptySet DEF MergeInv, MergeTyped
<1>7. Grows
    BY <1>1, <1>5 DEF Grows
<1>8. \A v \in Workers : TodoOK(local[v], todo[v]) /\ DoneOK(local[v], todo[v], map, codes)
    BY DEF MergeInv, WorkersOK
<1>9. TodoOK(local'[w], todo'[w]) /\ DoneOK(local'[w], todo'[w], map', codes')
    <2>1. /\ DOMAIN map \subseteq DOMAIN map' /\ codes \subseteq codes'
          /\ \A y \in DOMAIN map : map[y] \subseteq map'[y]
        BY <1>7 DEF Grows
    <2> QED
        BY <1>1, <1>8, <2>1, DoneStays
<1>10. WorkersOK'
    BY <1>1, <1>7, <1>9, OthersStay
<1> QED
    BY <1>6, <1>7, <1>10 DEF MergeInv

\* What the merge of a word does: the word is in the map, and gains its bits.
LEMMA MergeWordEffect ==
    ASSUME MergeInv, NEW w \in Workers, NEW i \in Ready(w), MergeWord(w, i)
    PROVE  \E x \in DOMAIN local[w].words :
              /\ i = WordItem(x) /\ i \in todo[w] /\ x \in Words
              /\ i.word = x /\ i.c = x[2] /\ i.op = x[1]
              /\ x \in DOMAIN map /\ DOMAIN map' = DOMAIN map
              /\ map'[x] = map[x] \union local[w].words[x]
              /\ \A y \in DOMAIN map : y # x => map'[y] = map[y]
<1>1. /\ i.op \in {"edge", "depth", "revert", "jump"}
      /\ i.op = "jump" => i.word \in DOMAIN map
      /\ map' = [map EXCEPT ![i.word] = @ \union local[w].words[i.word]]
    BY DEF MergeWord
<1>2. PICK x \in DOMAIN local[w].words : \/ i \in {InsertItem(x), CodeItem(x), WordItem(x)}
                                         \/ x[1] = "edge" /\ i = RawItem(x)
    BY ReadyItem
<1>3. i = WordItem(x) /\ i.word = x /\ i.c = x[2] /\ i.op = x[1]
    BY <1>1, <1>2, ItemParts DEF InsertItem, CodeItem, WordItem, RawItem
<1>4. i \in todo[w] /\ (Item("insert", i.c, <<>>) \in todo[w] => i.op = "insert")
    BY ReadyItem
<1>5. x \in Words
    BY LocalsOK, AllWordsFinite DEF MergeInv, MergeTyped
<1>6. x \in DOMAIN map
    <2>1. InsertItem(x) \in todo[w] \/ x[1] = "jump" \/ x \in DOMAIN map
        BY DEF MergeInv, WorkersOK, DoneOK
    <2>2. InsertItem(x) \notin todo[w]
        BY <1>1, <1>3, <1>4 DEF InsertItem
    <2> QED
        BY <1>1, <1>3, <2>1, <2>2
<1>7. /\ DOMAIN map' = DOMAIN map /\ map'[x] = map[x] \union local[w].words[x]
      /\ \A y \in DOMAIN map : y # x => map'[y] = map[y]
    BY <1>1, <1>3, <1>6
<1> QED
    BY <1>3, <1>4, <1>5, <1>6, <1>7

\* and merging a word of the bitmap.
LEMMA MergeWordKeeps ==
    ASSUME MergeInv, NEW w \in Workers, NEW i \in Ready(w), MergeWord(w, i)
    PROVE  MergeInv' /\ Grows
<1>1. /\ found' = [found EXCEPT ![w] = found'[w]]
      /\ todo' = [todo EXCEPT ![w] =
             (@ \ {i}) \union (IF i.op = "edge" THEN {Item("raw", i.c, i.word)} ELSE {})]
      /\ codes' = codes /\ local' = local
    BY DEF MergeWord, MergeInv, MergeTyped
<1>2. PICK x \in DOMAIN local[w].words :
              /\ i = WordItem(x) /\ i \in todo[w] /\ x \in Words
              /\ i.word = x /\ i.c = x[2] /\ i.op = x[1]
              /\ x \in DOMAIN map /\ DOMAIN map' = DOMAIN map
              /\ map'[x] = map[x] \union local[w].words[x]
              /\ \A y \in DOMAIN map : y # x => map'[y] = map[y]
    BY MergeWordEffect
<1>3. IsFiniteSet(map'[x])
    <2>1. IsFiniteSet(map[x]) /\ IsFiniteSet(local[w].words[x])
        BY <1>2, LocalsOK DEF MergeInv, MergeTyped, LocalOK
    <2>2. IsFiniteSet(map[x] \union local[w].words[x])
        BY <2>1, FS_Union
    <2> QED
        BY <1>2, <2>2
<1>4. MergeTyped'
    <2>1. DOMAIN todo' = Workers /\ DOMAIN found' = Workers
        BY <1>1 DEF MergeInv, MergeTyped
    <2>2. \A y \in DOMAIN map' : IsFiniteSet(map'[y])
        BY <1>2, <1>3 DEF MergeInv, MergeTyped
    <2> QED
        BY <1>1, <1>2, <2>1, <2>2 DEF MergeInv, MergeTyped
<1>5. Grows
    BY <1>1, <1>2 DEF Grows
<1>6. /\ todo'[w] = (todo[w] \ {i}) \union (IF x[1] = "edge" THEN {RawItem(x)} ELSE {})
      /\ \A v \in Workers : v # w => todo'[v] = todo[v]
    BY <1>1, <1>2 DEF MergeInv, MergeTyped, RawItem
<1>7. \A y \in DOMAIN local[w].words : y \in Words
    BY LocalsOK, AllWordsFinite DEF MergeInv, MergeTyped
<1>8. TodoOK(local[w], todo[w]) /\ DoneOK(local[w], todo[w], map, codes)
    BY DEF MergeInv, WorkersOK
<1>9. DoneOK(local[w], todo[w], map', codes')
    <2>1. /\ DOMAIN map \subseteq DOMAIN map' /\ codes \subseteq codes'
          /\ \A y \in DOMAIN map : map[y] \subseteq map'[y]
        BY <1>5 DEF Grows
    <2> QED
        BY <1>8, <2>1, DoneStays
<1>10. TodoOK(local'[w], todo'[w])
    <2>1. \A j \in todo'[w] : \E y \in DOMAIN local[w].words :
             \/ j \in {InsertItem(y), CodeItem(y), WordItem(y)}
             \/ y[1] = "edge" /\ j = RawItem(y)
        BY <1>6, <1>8 DEF TodoOK
    <2>2. ASSUME NEW y \in DOMAIN local[w].words, WordItem(y) \in todo'[w], RawItem(y) \in todo'[w]
          PROVE  FALSE
        <3>1. WordItem(y) # RawItem(x)
            BY <1>2, <1>7, ItemsApart
        <3>2. WordItem(y) \in todo[w] /\ y # x
            BY <1>2, <1>6, <2>2, <3>1
        <3>3. RawItem(y) # RawItem(x)
            BY <1>2, <1>7, <3>2, ItemsApart
        <3>4. RawItem(y) \in todo[w]
            BY <1>6, <2>2, <3>3
        <3> QED
            BY <1>8, <3>2, <3>4 DEF TodoOK
    <2> QED
        BY <1>1, <2>1, <2>2 DEF TodoOK
<1>11. DoneOK(local'[w], todo'[w], map', codes')
    <2> SUFFICES ASSUME NEW y \in DOMAIN local[w].words
                 PROVE  /\ InsertItem(y) \in todo'[w] \/ y[1] = "jump" \/ y \in DOMAIN map'
                        /\ WordItem(y) \in todo'[w] \/ (y \in DOMAIN map' /\ local[w].words[y] \subseteq map'[y])
                        /\ CodeItem(y) \in todo'[w] \/ y[2] \in codes'
        BY <1>1 DEF DoneOK
    <2>1. /\ InsertItem(y) \in todo[w] \/ y[1] = "jump" \/ y \in DOMAIN map'
          /\ WordItem(y) \in todo[w] \/ (y \in DOMAIN map' /\ local[w].words[y] \subseteq map'[y])
          /\ CodeItem(y) \in todo[w] \/ y[2] \in codes'
        BY <1>9 DEF DoneOK
    <2>2. InsertItem(y) # i /\ CodeItem(y) # i
        BY <1>2, <1>7, ItemsApart
    <2>3. WordItem(y) # i \/ y = x
        BY <1>2, <1>7, ItemsApart
    <2> QED
        BY <1>2, <1>6, <2>1, <2>2, <2>3
<1>12. \A v \in Workers : v # w => local'[v] = local[v] /\ todo'[v] = todo[v]
    BY <1>1, <1>6
<1>13. WorkersOK'
    BY <1>5, <1>10, <1>11, <1>12, OthersStay
<1> QED
    BY <1>4, <1>5, <1>13 DEF MergeInv

\* A count concerns nothing but the reader.
LEMMA ReadingKeeps ==
    ASSUME MergeInv, UNCHANGED <<map, codes, local, todo, found>>
    PROVE  MergeInv' /\ Grows
BY DEF MergeInv, MergeTyped, WorkersOK, Grows

\* Hence every step of every worker.
LEMMA MergeInvKept ==
    ASSUME MergeInv, [MergeNext]_mergeVars
    PROVE  MergeInv' /\ Grows
<1>1. CASE \E w \in Workers, run \in Runs : Merge(w, run)
    BY <1>1, MergeKeeps
<1>2. CASE \E w \in Workers : MergeStep(w)
    <2>1. PICK w \in Workers : MergeStep(w)
        BY <1>2
    <2>2. PICK i \in Ready(w) : \/ InsertContract(w, i) \/ StoreCode(w, i) \/ MergeWord(w, i)
                                \/ InsertJump(w, i) \/ MergeRaw(w, i)
        BY <2>1 DEF MergeStep
    <2> QED
        BY <2>2, InsertContractKeeps, StoreCodeKeeps, MergeWordKeeps, InsertJumpKeeps, MergeRawKeeps
<1>3. CASE StartCount \/ CountWord \/ UNCHANGED mergeVars
    BY <1>3, ReadingKeeps DEF StartCount, CountWord, mergeVars
<1> QED
    BY <1>1, <1>2, <1>3 DEF MergeNext

\* Nothing is covered at first.
LEMMA MergeInvStarts == MergeInit => MergeInv
<1> SUFFICES ASSUME MergeInit PROVE MergeInv
    OBVIOUS
<1>1. DOMAIN map = {}
    BY DEF MergeInit
<1>2. \A w \in Workers : local[w] = EmptyLocal /\ todo[w] = {}
    BY DEF MergeInit
<1>3. DOMAIN local = Workers /\ DOMAIN todo = Workers /\ DOMAIN found = Workers
    BY DEF MergeInit
<1>4. MergeTyped
    BY <1>1, <1>2, <1>3 DEF MergeTyped, Locals
<1>5. WorkersOK
    BY <1>2, EmptyIsLocal DEF WorkersOK, TodoOK, DoneOK
<1> QED
    BY <1>4, <1>5 DEF MergeInv

-----------------------------------------------------------------------------
(* Every bit is claimed once.                                              *)

\* A covered bit is counted as new by exactly one worker (ClaimedOnce): fetch_or
\* tells the workers that race for it apart.
THEOREM BitsAreClaimedOnce == MergeSpec => []ClaimedOnce
<1>1. MergeInit => ClaimedOnce
    <2> SUFFICES ASSUME MergeInit PROVE ClaimedOnce
        OBVIOUS
    <2>1. DOMAIN map = {} /\ \A w \in Workers : found[w] = {}
        BY DEF MergeInit
    <2>2. Merged = {}
        BY <2>1 DEF Merged
    <2> QED
        BY <2>1, <2>2 DEF ClaimedOnce
<1>2. ASSUME MergeInv, ClaimedOnce, [MergeNext]_mergeVars PROVE ClaimedOnce'
    <2>1. MergeInv'
        BY <1>2, MergeInvKept
    <2>2. ASSUME found' = found, Merged' = Merged PROVE ClaimedOnce'
        BY <1>2, <2>2 DEF ClaimedOnce
    <2>3. ASSUME found' = found, DOMAIN map \subseteq DOMAIN map', \A x \in DOMAIN map : map'[x] = map[x],
                 \A x \in DOMAIN map' : x \in DOMAIN map \/ map'[x] = {}
          PROVE  ClaimedOnce'
        <3>1. Merged' = Merged
            BY <2>3 DEF Merged
        <3> QED
            BY <2>2, <2>3, <3>1
    <2>4. CASE map' = map /\ found' = found
        BY <2>3, <2>4
    <2>5. ASSUME NEW w \in Workers, NEW i \in Ready(w), InsertContract(w, i) PROVE ClaimedOnce'
        BY <2>3, <2>5 DEF InsertContract, GetOrInsert
    <2>6. ASSUME NEW w \in Workers, NEW i \in Ready(w), InsertJump(w, i) PROVE ClaimedOnce'
        BY <2>3, <2>6 DEF InsertJump, GetOrInsert
    <2>7. ASSUME NEW w \in Workers, NEW i \in Ready(w), MergeWord(w, i) PROVE ClaimedOnce'
        <3>1. PICK x \in DOMAIN local[w].words :
                  /\ i = WordItem(x) /\ i \in todo[w] /\ x \in Words
                  /\ i.word = x /\ i.c = x[2] /\ i.op = x[1]
                  /\ x \in DOMAIN map /\ DOMAIN map' = DOMAIN map
                  /\ map'[x] = map[x] \union local[w].words[x]
                  /\ \A y \in DOMAIN map : y # x => map'[y] = map[y]
            BY <1>2, <2>7, MergeWordEffect
        <3> DEFINE bits == local[w].words[x]
                   new == IF x[2] \in Initcode THEN {} ELSE bits \ map[x]
                   claims == { <<x, b>> : b \in new }
        <3>2. found' = [found EXCEPT ![w] = @ \union claims]
            BY <2>7, <3>1 DEF MergeWord, NewBits
        <3>3. x[2] \in Initcode <=> x[2] \notin Runtime
            BY <3>1, CoverageAssumption, WordParts DEF Covered
        <3>4. Merged' = Merged \union claims
            <4>1. ASSUME NEW p PROVE p \in Merged' <=> p \in Merged \union claims
                <5>1. p \in Merged' <=> \E y \in DOMAIN map' : y[2] \in Runtime /\ \E b \in map'[y] : p = <<y, b>>
                    BY DEF Merged
                <5>2. p \in Merged <=> \E y \in DOMAIN map : y[2] \in Runtime /\ \E b \in map[y] : p = <<y, b>>
                    BY DEF Merged
                <5>3. p \in claims <=> x[2] \in Runtime /\ \E b \in bits \ map[x] : p = <<x, b>>
                    BY <3>3
                <5> HIDE DEF claims, bits
                <5>4. map'[x] = map[x] \union bits
                    BY <3>1 DEF bits
                <5> QED
                    BY <3>1, <5>1, <5>2, <5>3, <5>4
            <4> QED
                BY <4>1
        <3>5. \A p \in claims : p \notin Merged
            BY <3>1 DEF Merged
        <3> HIDE DEF claims
        <3>6. /\ found'[w] = found[w] \union claims
              /\ \A v \in Workers : v # w => found'[v] = found[v]
            BY <1>2, <3>2 DEF MergeInv, MergeTyped
        <3> QED
            BY <1>2, <3>4, <3>5, <3>6 DEF ClaimedOnce
    <2>8. CASE \E w \in Workers : MergeStep(w)
        <3>1. PICK w \in Workers : MergeStep(w)
            BY <2>8
        <3>2. PICK i \in Ready(w) : \/ InsertContract(w, i) \/ StoreCode(w, i) \/ MergeWord(w, i)
                                    \/ InsertJump(w, i) \/ MergeRaw(w, i)
            BY <3>1 DEF MergeStep
        <3>3. CASE StoreCode(w, i) \/ MergeRaw(w, i)
            BY <2>4, <3>3 DEF StoreCode, MergeRaw
        <3> QED
            BY <2>5, <2>6, <2>7, <3>2, <3>3
    <2>9. CASE \E w \in Workers, run \in Runs : Merge(w, run)
        BY <2>4, <2>9 DEF Merge
    <2>10. CASE StartCount \/ CountWord \/ UNCHANGED mergeVars
        BY <2>4, <2>10 DEF StartCount, CountWord, mergeVars
    <2> QED
        BY <1>2, <2>8, <2>9, <2>10 DEF MergeNext
<1>3. MergeInv /\ [MergeNext]_mergeVars => MergeInv'
    BY MergeInvKept
<1> QED
    BY <1>1, <1>2, <1>3, MergeInvStarts, PTL DEF MergeSpec

-----------------------------------------------------------------------------
(* The hit counts.                                                         *)

\* Items of other operations do not concern the shares.
LEMMA SameShare ==
    ASSUME NEW l, NEW t, NEW u, NEW k,
           \A o \in {"edge", "raw"} : LET it == Item(o, k[1], <<"edge", k[1], k[2]>>)
                                      IN  it \in t <=> it \in u
    PROVE  Share(l, t, k) = Share(l, u, k)
BY DEF Share

\* Shares are naturals.
LEMMA ShareIsNat ==
    ASSUME NEW l, LocalOK(l), NEW t, NEW k
    PROVE  Share(l, t, k) \in Nat
BY DEF Share, LocalOK

Shares(l, t, k) == [w \in Workers |-> Share(l[w], t[w], k)]

\* Steps that leave every share as it is.
LEMMA SharesStay ==
    ASSUME RawOK(local, todo, raw), raw' = raw,
           \A w \in Workers, k \in Covered \X Nat :
              Share(local'[w], todo'[w], k) = Share(local[w], todo[w], k)
    PROVE  RawOK(local', todo', raw')
<1> SUFFICES ASSUME NEW k \in Covered \X Nat
             PROVE  RawAt(raw', k) = SumOn(Shares(local', todo', k), Workers)
    BY DEF RawOK, Shares
<1>1. RawAt(raw, k) = SumOn(Shares(local, todo, k), Workers)
    BY DEF RawOK, Shares
<1>2. Shares(local', todo', k) = Shares(local, todo, k)
    BY DEF Shares
<1> QED
    BY <1>1, <1>2

\* A worker's step that takes an item of another operation off its list.
LEMMA OtherItem ==
    ASSUME MergeInv, RawOK(local, todo, raw), raw' = raw, local' = local,
           NEW w \in Workers, NEW i, i.op \notin {"edge", "raw"},
           todo' = [todo EXCEPT ![w] = @ \ {i}]
    PROVE  RawOK(local', todo', raw')
<1>1. todo'[w] = todo[w] \ {i} /\ \A v \in Workers : v # w => todo'[v] = todo[v]
    BY DEF MergeInv, MergeTyped
<1>2. ASSUME NEW v \in Workers, NEW k \in Covered \X Nat
      PROVE  Share(local'[v], todo'[v], k) = Share(local[v], todo[v], k)
    <2>1. \A o \in {"edge", "raw"} : Item(o, k[1], <<"edge", k[1], k[2]>>) # i
        BY ItemParts
    <2>2. \A o \in {"edge", "raw"} : Item(o, k[1], <<"edge", k[1], k[2]>>) \in todo'[v]
                                       <=> Item(o, k[1], <<"edge", k[1], k[2]>>) \in todo[v]
        BY <1>1, <2>1
    <2>3. Share(local[v], todo'[v], k) = Share(local[v], todo[v], k)
        BY <2>2, SameShare
    <2> QED
        BY <2>3
<1> QED
    BY <1>2, SharesStay

\* A merged edge's hits are still to be counted.
LEMMA WordMergedShares ==
    ASSUME MergeInv, RawOK(local, todo, raw), NEW w \in Workers, NEW i \in Ready(w), MergeWord(w, i)
    PROVE  RawOK(local', todo', raw')
<1>1. /\ todo' = [todo EXCEPT ![w] =
             (@ \ {i}) \union (IF i.op = "edge" THEN {Item("raw", i.c, i.word)} ELSE {})]
      /\ raw' = raw /\ local' = local
    BY DEF MergeWord
<1>2. PICK x \in DOMAIN local[w].words :
              /\ i = WordItem(x) /\ i \in todo[w] /\ x \in Words
              /\ i.word = x /\ i.c = x[2] /\ i.op = x[1]
    BY MergeWordEffect
<1>3. CASE x[1] # "edge"
    <2>1. todo' = [todo EXCEPT ![w] = @ \ {i}]
        BY <1>1, <1>2, <1>3
    <2>2. i.op \notin {"edge", "raw"}
        BY <1>2, <1>3, WordParts DEF WordKinds
    <2> QED
        BY <1>1, <2>1, <2>2, OtherItem
<1>4. CASE x[1] = "edge"
    <2>1. /\ todo'[w] = (todo[w] \ {WordItem(x)}) \union {RawItem(x)}
          /\ \A v \in Workers : v # w => todo'[v] = todo[v]
        BY <1>1, <1>2, <1>4 DEF MergeInv, MergeTyped, RawItem
    <2>2. x = <<"edge", x[2], x[3]>> /\ x[2] \in Covered /\ x[3] \in Nat
        BY <1>2, <1>4, WordParts
    <2>3. ASSUME NEW v \in Workers, NEW k \in Covered \X Nat
          PROVE  Share(local'[v], todo'[v], k) = Share(local[v], todo[v], k)
        <3> DEFINE y == <<"edge", k[1], k[2]>>
        <3>1. y \in Words /\ y[1] = "edge" /\ y[2] = k[1]
            BY DEF Words, WordKinds
        <3>2. WordItem(y) = Item("edge", k[1], y) /\ RawItem(y) = Item("raw", k[1], y)
            BY <3>1 DEF WordItem, RawItem
        <3>3. CASE v # w
            BY <1>1, <2>1, <3>3
        <3>4. CASE v = w /\ y # x
            <4> HIDE DEF y
            <4>1. WordItem(y) # WordItem(x) /\ RawItem(y) # RawItem(x)
                  /\ WordItem(y) # RawItem(x) /\ RawItem(y) # WordItem(x)
                BY <1>2, <3>1, <3>4, ItemsApart
            <4>2. \A o \in {"edge", "raw"} : Item(o, k[1], y) \in todo'[v] <=> Item(o, k[1], y) \in todo[v]
                BY <2>1, <3>2, <3>4, <4>1
            <4>3. Share(local[v], todo'[v], k) = Share(local[v], todo[v], k)
                BY <4>2, SameShare DEF y
            <4> QED
                BY <1>1, <4>3
        <3>5. CASE v = w /\ y = x
            <4>1. Item("edge", k[1], y) \in todo[w] /\ Item("raw", k[1], y) \in todo'[w]
                BY <1>2, <2>1, <3>2, <3>5
            <4>2. Share(local[w], todo[w], k) = 0 /\ Share(local[w], todo'[w], k) = 0
                BY <4>1 DEF Share
            <4> QED
                BY <1>1, <3>5, <4>2
        <3> QED
            BY <3>3, <3>4, <3>5
    <2> QED
        BY <1>1, <2>3, SharesStay
<1> QED
    BY <1>3, <1>4

\* An execution starts with nothing merged.
LEMMA MergeShares ==
    ASSUME MergeInv, RawOK(local, todo, raw), NEW w \in Workers, NEW run \in Runs, Merge(w, run)
    PROVE  RawOK(local', todo', raw')
<1>1. /\ local[w] = EmptyLocal /\ raw' = raw
      /\ local'[w] = LocalOf(run) /\ todo'[w] = Items(LocalOf(run))
      /\ \A v \in Workers : v # w => local'[v] = local[v] /\ todo'[v] = todo[v]
    BY DEF Merge, MergeInv, MergeTyped
<1>2. LocalOK(LocalOf(run))
    BY CoverageAssumption, RunIsLocal
<1>3. ASSUME NEW v \in Workers, NEW k \in Covered \X Nat
      PROVE  Share(local'[v], todo'[v], k) = Share(local[v], todo[v], k)
    <2>1. CASE v # w
        BY <1>1, <2>1
    <2>2. CASE v = w
        <3>1. Share(local'[w], todo'[w], k) = 0
            BY <1>1, <1>2, ItemsOfLocal
        <3>2. Share(local[w], todo[w], k) = 0
            BY <1>1, EmptyIsLocal DEF Share
        <3> QED
            BY <2>2, <3>1, <3>2
    <2> QED
        BY <2>1, <2>2
<1> QED
    BY <1>1, <1>3, SharesStay

\* The hits are added to raw_edges.
LEMMA RawMergedShares ==
    ASSUME MergeInv, RawOK(local, todo, raw), NEW w \in Workers, NEW i \in Ready(w), MergeRaw(w, i)
    PROVE  RawOK(local', todo', raw')
<1>1. /\ i.op = "raw" /\ local' = local
      /\ raw' = AddRaw(raw, <<i.c, i.word[3]>>, local[w].hits[<<i.c, i.word[3]>>])
      /\ todo'[w] = todo[w] \ {i} /\ \A v \in Workers : v # w => todo'[v] = todo[v]
    BY DEF MergeRaw, MergeInv, MergeTyped
<1>2. PICK x \in DOMAIN local[w].words : \/ i \in {InsertItem(x), CodeItem(x), WordItem(x)}
                                         \/ x[1] = "edge" /\ i = RawItem(x)
    BY ReadyItem
<1>3. LocalOK(local[w]) /\ x \in Words
    BY LocalsOK, AllWordsFinite DEF MergeInv, MergeTyped
<1>4. x = <<x[1], x[2], x[3]>> /\ x[1] \in WordKinds /\ x[2] \in Covered /\ x[3] \in Nat
    BY <1>3, WordParts
<1>5. x[1] = "edge" /\ i = RawItem(x) /\ i.word = x /\ i.c = x[2]
    BY <1>1, <1>2, <1>4, ItemParts DEF InsertItem, CodeItem, WordItem, RawItem, WordKinds
<1> DEFINE K == <<x[2], x[3]>>
           n == local[w].hits[K]
<1>6. K \in Covered \X Nat /\ K[1] = x[2] /\ K[2] = x[3]
    BY <1>4
<1>7. K \in DOMAIN local[w].hits /\ n \in Nat
    BY <1>3, <1>4, <1>5 DEF LocalOK
<1>8. raw' = AddRaw(raw, K, n)
    BY <1>1, <1>5
<1>9. i \in todo[w] /\ WordItem(x) \notin todo[w]
    BY <1>5, ReadyItem DEF MergeInv, WorkersOK, TodoOK
<1>10. WordItem(x) = Item("edge", x[2], x) /\ RawItem(x) = Item("raw", x[2], x) /\ x = <<"edge", K[1], K[2]>>
    BY <1>4, <1>5, <1>6 DEF WordItem, RawItem
<1>11. Share(local[w], todo[w], K) = 0
    BY <1>5, <1>6, <1>9, <1>10 DEF Share
<1>12. Share(local'[w], todo'[w], K) = n
    <2>1. WordItem(x) \notin todo'[w] /\ RawItem(x) \notin todo'[w]
        BY <1>1, <1>5, <1>9
    <2>2. Share(local[w], todo'[w], K) = n
        <3> HIDE DEF K
        <3> QED
            BY <1>6, <1>7, <1>10, <2>1 DEF Share
    <2> QED
        BY <1>1, <2>2
<1> HIDE DEF K, n
<1>13. ASSUME NEW v \in Workers, NEW k \in Covered \X Nat, v # w \/ k # K
       PROVE  Share(local'[v], todo'[v], k) = Share(local[v], todo[v], k)
    <2>1. CASE v # w
        BY <1>1, <2>1
    <2>2. CASE v = w
        <3> DEFINE y == <<"edge", k[1], k[2]>>
        <3>1. y # x
            BY <1>6, <1>10, <1>13, <2>2
        <3>2. Item("raw", k[1], y) # i /\ Item("edge", k[1], y) # i
            BY <1>5, <1>10, <3>1, ItemParts
        <3>3. \A o \in {"edge", "raw"} : Item(o, k[1], y) \in todo'[v] <=> Item(o, k[1], y) \in todo[v]
            BY <1>1, <2>2, <3>2
        <3>4. Share(local[v], todo'[v], k) = Share(local[v], todo[v], k)
            BY <3>3, SameShare
        <3> QED
            BY <1>1, <3>4
    <2> QED
        BY <2>1, <2>2
<1>14. ASSUME NEW k \in Covered \X Nat
       PROVE  RawAt(raw', k) = SumOn(Shares(local', todo', k), Workers)
    <2> DEFINE f == Shares(local, todo, k)
               g == Shares(local', todo', k)
    <2>1. RawAt(raw, k) = SumOn(f, Workers)
        BY DEF RawOK, Shares
    <2>2. CASE k # K
        <3>1. RawAt(raw', k) = RawAt(raw, k)
            BY <1>8, <2>2 DEF RawAt, AddRaw
        <3>2. f = g
            BY <1>13, <2>2 DEF Shares
        <3> QED
            BY <2>1, <3>1, <3>2
    <2>3. CASE k = K
        <3>1. \A v \in Workers : f[v] = Share(local[v], todo[v], k) /\ g[v] = Share(local'[v], todo'[v], k)
            BY DEF Shares
        <3>2. \A v \in Workers : LocalOK(local[v]) /\ LocalOK(local'[v])
            BY <1>1, LocalsOK DEF MergeInv, MergeTyped
        <3> HIDE DEF f, g
        <3>3. \A v \in Workers : f[v] \in Nat
            BY <3>1, <3>2, ShareIsNat
        <3>4. \A v \in Workers : g[v] \in Nat
            BY <3>1, <3>2, ShareIsNat
        <3>5. f[w] = 0 /\ g[w] = n /\ \A v \in Workers \ {w} : f[v] = g[v]
            BY <1>11, <1>12, <1>13, <2>3, <3>1
        <3>6. IsFiniteSet(Workers)
            BY CoverageAssumption
        <3>7. SumOn(f, Workers) = f[w] + SumOn(f, Workers \ {w})
            BY <3>3, <3>6, SumWithout
        <3>8. SumOn(g, Workers) = g[w] + SumOn(g, Workers \ {w})
            BY <3>4, <3>6, SumWithout
        <3>9. IsFiniteSet(Workers \ {w})
            BY <3>6, FS_RemoveElement
        <3>10. SumOn(f, Workers \ {w}) = SumOn(g, Workers \ {w})
            BY <3>5, <3>9, SumSame
        <3>11. SumOn(f, Workers) \in Nat /\ SumOn(f, Workers \ {w}) \in Nat
            BY <3>3, <3>6, <3>9, SumIsNat
        <3>12. RawAt(raw', k) = n + RawAt(raw, k)
            BY <1>8, <2>3 DEF RawAt, AddRaw
        <3>13. RawAt(raw', k) = SumOn(g, Workers)
            BY <1>7, <2>1, <3>5, <3>7, <3>8, <3>10, <3>11, <3>12 DEF f
        <3> QED
            BY <3>13 DEF g
    <2> QED
        BY <2>2, <2>3
<1>15. DOMAIN raw' \subseteq Covered \X Nat
    <2>1. DOMAIN raw' = DOMAIN raw \union {K}
        BY <1>8 DEF AddRaw
    <2> QED
        BY <1>6, <2>1 DEF RawOK
<1> QED
    BY <1>14, <1>15 DEF RawOK, Shares

\* Every step keeps the hit counts equal to what the workers have merged.
LEMMA SharesKept ==
    ASSUME MergeInv, RawOK(local, todo, raw), [MergeNext]_mergeVars
    PROVE  RawOK(local', todo', raw')
<1>1. CASE \E w \in Workers, run \in Runs : Merge(w, run)
    BY <1>1, MergeShares
<1>2. CASE \E w \in Workers : MergeStep(w)
    <2>1. PICK w \in Workers : MergeStep(w)
        BY <1>2
    <2>2. PICK i \in Ready(w) : \/ InsertContract(w, i) \/ StoreCode(w, i) \/ MergeWord(w, i)
                                \/ InsertJump(w, i) \/ MergeRaw(w, i)
        BY <2>1 DEF MergeStep
    <2>3. CASE InsertContract(w, i) \/ StoreCode(w, i)
        <3>1. /\ raw' = raw /\ local' = local /\ i.op \in {"insert", "code"}
              /\ todo' = [todo EXCEPT ![w] = @ \ {i}]
            BY <2>3 DEF InsertContract, StoreCode
        <3> QED
            BY <3>1, OtherItem
    <2>4. CASE InsertJump(w, i)
        BY <2>4 DEF InsertJump
    <2> QED
        BY <2>2, <2>3, <2>4, WordMergedShares, RawMergedShares
<1>3. CASE StartCount \/ CountWord \/ UNCHANGED mergeVars
    <2>1. UNCHANGED <<raw, local, todo>>
        BY <1>3 DEF StartCount, CountWord, mergeVars
    <2> QED
        BY <2>1
<1> QED
    BY <1>1, <1>2, <1>3 DEF MergeNext

\* They are at first.
LEMMA SharesStart == MergeInit => RawOK(local, todo, raw)
<1> SUFFICES ASSUME MergeInit PROVE RawOK(local, todo, raw)
    OBVIOUS
<1>1. DOMAIN raw = {} /\ \A w \in Workers : local[w] = EmptyLocal
    BY DEF MergeInit
<1>2. ASSUME NEW k \in Covered \X Nat PROVE RawAt(raw, k) = SumOn(Shares(local, todo, k), Workers)
    <2>1. \A w \in Workers : Shares(local, todo, k)[w] = 0
        BY <1>1, EmptyIsLocal DEF Shares, Share
    <2>2. SumOn(Shares(local, todo, k), Workers) = 0
        BY <2>1, SumOfNone, CoverageAssumption
    <2> QED
        BY <1>1, <2>2 DEF RawAt
<1> QED
    BY <1>1, <1>2 DEF RawOK, Shares

-----------------------------------------------------------------------------
(* A count that runs beside the merges.                                    *)

BitsOf(m) == [x \in DOMAIN m |-> IF x[1] = "jump" THEN 1 ELSE Cardinality(m[x])]

CountOK ==
    /\ reader = [left |-> reader.left, sum |-> reader.sum, low |-> reader.low]
    /\ reader.left \subseteq CountedWords /\ reader.sum \in Nat /\ reader.low \in Nat
    /\ reader.low <= reader.sum + SumOn(BitsOf(map), reader.left)
    /\ reader.sum <= SumOn(BitsOf(map), CountedWords \ reader.left)

\* Words have finitely many bits.
LEMMA BitsAreNat ==
    ASSUME MergeTyped
    PROVE  /\ IsFiniteSet(DOMAIN map) /\ IsFiniteSet(CountedWords)
           /\ \A x \in DOMAIN map : BitsOf(map)[x] \in Nat
           /\ \A x \in DOMAIN map : BitsOf(map)[x] = CountedBits(x)
<1>1. IsFiniteSet(DOMAIN map)
    BY AllWordsFinite, FS_Subset DEF MergeTyped
<1>2. IsFiniteSet(CountedWords)
    BY <1>1, FS_Subset DEF CountedWords
<1>3. \A x \in DOMAIN map : BitsOf(map)[x] \in Nat
    BY FS_CardinalityType DEF BitsOf, MergeTyped
<1>4. \A x \in DOMAIN map : BitsOf(map)[x] = CountedBits(x)
    BY DEF BitsOf, CountedBits
<1> QED
    BY <1>1, <1>2, <1>3, <1>4

\* The count at one instant.
LEMMA HitCountIsSum ==
    ASSUME MergeTyped
    PROVE  HitCount = SumOn(BitsOf(map), CountedWords)
<1> DEFINE f == [x \in CountedWords |-> CountedBits(x)]
<1>1. HitCount = SumOn(f, CountedWords)
    BY DEF HitCount, SumFunction, SumOn
<1>2. \A x \in CountedWords : f[x] = BitsOf(map)[x]
    BY BitsAreNat DEF CountedWords
<1>3. IsFiniteSet(CountedWords)
    BY BitsAreNat
<1> HIDE DEF f
<1>4. SumOn(f, CountedWords) = SumOn(BitsOf(map), CountedWords)
    BY <1>2, <1>3, SumSame
<1> QED
    BY <1>1, <1>4

\* A step that only adds to the map keeps the bounds.
LEMMA CountSurvives ==
    ASSUME MergeTyped, MergeTyped', Grows, CountOK, reader' = reader
    PROVE  CountOK'
<1> DEFINE f == BitsOf(map)
           g == BitsOf(map')
           L == reader.left
           A == CountedWords
           B == CountedWords'
<1>1. /\ IsFiniteSet(DOMAIN map) /\ IsFiniteSet(A) /\ A \subseteq DOMAIN map
      /\ \A x \in DOMAIN map : f[x] \in Nat
    BY BitsAreNat DEF CountedWords
<1>2. IsFiniteSet(DOMAIN map') /\ \A x \in DOMAIN map' : IsFiniteSet(map'[x])
    BY AllWordsFinite, FS_Subset DEF MergeTyped
<1>3. \A x \in DOMAIN map' : g[x] \in Nat
    BY <1>2, FS_CardinalityType DEF BitsOf
<1>4. ASSUME NEW x \in DOMAIN map PROVE f[x] <= g[x]
    <2>1. x \in DOMAIN map' /\ map[x] \subseteq map'[x] /\ IsFiniteSet(map'[x])
        BY <1>2 DEF Grows
    <2>2. Cardinality(map[x]) <= Cardinality(map'[x])
        BY <2>1, FS_Subset
    <2> QED
        BY <2>1, <2>2 DEF BitsOf
<1>5. B \subseteq DOMAIN map' /\ A \subseteq B
    BY DEF CountedWords, Grows, Counted
<1>6. L \subseteq A
    BY DEF CountOK
<1>7. IsFiniteSet(L) /\ IsFiniteSet(A \ L) /\ IsFiniteSet(B \ L) /\ A \ L \subseteq B \ L
    <2>1. IsFiniteSet(B)
        BY <1>2, <1>5, FS_Subset
    <2> QED
        BY <1>1, <1>5, <1>6, <2>1, FS_Subset
<1> HIDE DEF f, g, L, A, B
<1>8. \A x \in DOMAIN map : f[x] \in Nat /\ g[x] \in Nat /\ f[x] <= g[x]
    BY <1>1, <1>3, <1>4 DEF Grows
<1>9. SumOn(f, L) <= SumOn(g, L)
    <2>1. \A x \in L : f[x] \in Nat /\ g[x] \in Nat /\ f[x] <= g[x]
        BY <1>1, <1>6, <1>8
    <2> QED
        BY <1>7, <2>1, SumGrows
<1>10. SumOn(f, A \ L) <= SumOn(g, A \ L)
    <2>1. \A x \in A \ L : f[x] \in Nat /\ g[x] \in Nat /\ f[x] <= g[x]
        BY <1>1, <1>8
    <2> QED
        BY <1>7, <2>1, SumGrows
<1>11. SumOn(g, A \ L) <= SumOn(g, B \ L)
    <2>1. \A x \in B \ L : g[x] \in Nat
        BY <1>3, <1>5
    <2> QED
        BY <1>7, <2>1, SumOfPart
<1>12. /\ SumOn(f, L) \in Nat /\ SumOn(g, L) \in Nat
       /\ SumOn(f, A \ L) \in Nat /\ SumOn(g, A \ L) \in Nat /\ SumOn(g, B \ L) \in Nat
    <2>1. \A x \in L : f[x] \in Nat
        BY <1>1, <1>6
    <2>2. \A x \in L : g[x] \in Nat
        BY <1>1, <1>6, <1>8
    <2>3. \A x \in A \ L : f[x] \in Nat
        BY <1>1
    <2>4. \A x \in A \ L : g[x] \in Nat
        BY <1>1, <1>8
    <2>5. \A x \in B \ L : g[x] \in Nat
        BY <1>3, <1>5
    <2> QED
        BY <1>7, <2>1, <2>2, <2>3, <2>4, <2>5, SumIsNat
<1>13. /\ reader = [left |-> reader.left, sum |-> reader.sum, low |-> reader.low]
       /\ reader.sum \in Nat /\ reader.low \in Nat
       /\ reader.low <= reader.sum + SumOn(f, L) /\ reader.sum <= SumOn(f, A \ L)
    BY DEF CountOK, f, L, A
<1>14. reader.low <= reader.sum + SumOn(g, L) /\ reader.sum <= SumOn(g, B \ L)
    BY <1>9, <1>10, <1>11, <1>12, <1>13
<1>15. L \subseteq B
    BY <1>5, <1>6
<1> QED
    BY <1>13, <1>14, <1>15 DEF CountOK, g, L, B

\* A count starts with everything left.
LEMMA CountStarts ==
    ASSUME MergeTyped, StartCount
    PROVE  CountOK'
<1> DEFINE f == BitsOf(map)
           A == CountedWords
<1>1. reader' = [left |-> A, sum |-> 0, low |-> HitCount] /\ map' = map
    BY DEF StartCount
<1>2. HitCount = SumOn(f, A)
    BY HitCountIsSum
<1>3. SumOn(f, A) \in Nat
    <2>1. IsFiniteSet(A) /\ \A x \in A : f[x] \in Nat
        BY BitsAreNat DEF CountedWords
    <2> HIDE DEF f, A
    <2> QED
        BY <2>1, SumIsNat
<1>4. SumOn(f, A \ A) = 0
    <2>1. A \ A = {}
        OBVIOUS
    <2> QED
        BY <2>1, SumOfNothing
<1>5. CountedWords' = CountedWords /\ BitsOf(map)' = BitsOf(map)
    BY <1>1 DEF CountedWords, BitsOf
<1> HIDE DEF f, A
<1> QED
    BY <1>1, <1>2, <1>3, <1>4, <1>5 DEF CountOK, f, A

\* A load moves one word from what is left to what is counted.
LEMMA CountGoesOn ==
    ASSUME MergeTyped, CountOK, CountWord
    PROVE  CountOK'
<1> DEFINE f == BitsOf(map)
           A == CountedWords
           L == reader.left
<1>1. PICK x \in L : /\ reader' = [reader EXCEPT !.left = @ \ {x}, !.sum = @ + CountedBits(x)]
                     /\ map' = map
    BY DEF CountWord
<1>2. /\ IsFiniteSet(A) /\ \A y \in A : f[y] \in Nat /\ f[y] = CountedBits(y)
    BY BitsAreNat DEF CountedWords
<1>3. /\ reader = [left |-> L, sum |-> reader.sum, low |-> reader.low]
      /\ L \subseteq A /\ reader.sum \in Nat /\ reader.low \in Nat
      /\ reader.low <= reader.sum + SumOn(f, L) /\ reader.sum <= SumOn(f, A \ L)
    BY DEF CountOK
<1>4. reader' = [left |-> L \ {x}, sum |-> reader.sum + f[x], low |-> reader.low]
    <2> HIDE DEF f
    <2> QED
        BY <1>1, <1>2, <1>3
<1>5. CountedWords' = CountedWords /\ BitsOf(map)' = BitsOf(map)
    BY <1>1 DEF CountedWords, BitsOf
<1> DEFINE M == A \ (L \ {x})
<1>6. x \in M /\ M \ {x} = A \ L /\ x \in A
    BY <1>3
<1> HIDE DEF f, A, L
<1>7. IsFiniteSet(L) /\ IsFiniteSet(M) /\ IsFiniteSet(L \ {x}) /\ IsFiniteSet(M \ {x})
    BY <1>2, <1>3, FS_Subset
<1>8. SumOn(f, L) = f[x] + SumOn(f, L \ {x})
    <2>1. \A y \in L : f[y] \in Nat
        BY <1>2, <1>3
    <2> QED
        BY <1>7, <2>1, SumWithout
<1>9. SumOn(f, M) = f[x] + SumOn(f, A \ L)
    <2>1. \A y \in M : f[y] \in Nat
        BY <1>2
    <2> HIDE DEF M
    <2>2. SumOn(f, M) = f[x] + SumOn(f, M \ {x})
        BY <1>6, <1>7, <2>1, SumWithout
    <2> QED
        BY <1>6, <2>2
<1>10. SumOn(f, L \ {x}) \in Nat /\ SumOn(f, A \ L) \in Nat /\ f[x] \in Nat
    <2>1. \A y \in L \ {x} : f[y] \in Nat
        BY <1>2, <1>3
    <2>2. \A y \in A \ L : f[y] \in Nat
        BY <1>2
    <2>3. IsFiniteSet(A \ L)
        BY <1>2, FS_Subset
    <2> QED
        BY <1>2, <1>6, <1>7, <2>1, <2>2, <2>3, SumIsNat
<1>11. /\ reader.low <= (reader.sum + f[x]) + SumOn(f, L \ {x})
       /\ reader.sum + f[x] <= SumOn(f, M)
    BY <1>3, <1>8, <1>9, <1>10
<1>12. reader.sum + f[x] \in Nat /\ L \ {x} \subseteq A
    BY <1>3, <1>10
<1> QED
    BY <1>3, <1>4, <1>5, <1>11, <1>12 DEF CountOK, f, A

\* Every step keeps a count between what was covered when it began and what is now.
LEMMA CountKept ==
    ASSUME MergeInv, CountOK, [MergeNext]_mergeVars
    PROVE  CountOK'
<1>1. MergeInv' /\ Grows
    BY MergeInvKept
<1>2. CASE reader' = reader
    BY <1>1, <1>2, CountSurvives DEF MergeInv
<1>3. CASE StartCount
    BY <1>3, CountStarts DEF MergeInv
<1>4. CASE CountWord
    BY <1>4, CountGoesOn DEF MergeInv
<1> QED
    BY <1>2, <1>3, <1>4
    DEF MergeNext, Merge, MergeStep, InsertContract, StoreCode, MergeWord, InsertJump, MergeRaw, mergeVars

\* No count has begun at first.
LEMMA CountInit == MergeInit => CountOK
<1> SUFFICES ASSUME MergeInit PROVE CountOK
    OBVIOUS
<1>1. reader = [left |-> {}, sum |-> 0, low |-> 0] /\ DOMAIN map = {}
    BY DEF MergeInit
<1>2. SumOn(BitsOf(map), {}) = 0
    BY SumOfNothing
<1>3. CountedWords \ reader.left = {}
    BY <1>1 DEF CountedWords
<1>4. reader = [left |-> reader.left, sum |-> reader.sum, low |-> reader.low]
    BY <1>1
<1>5. reader.left = {} /\ reader.sum = 0 /\ reader.low = 0
    BY <1>1
<1>6. SumOn(BitsOf(map), reader.left) = 0 /\ SumOn(BitsOf(map), CountedWords \ reader.left) = 0
    BY <1>2, <1>3, <1>5
<1> QED
    BY <1>4, <1>5, <1>6 DEF CountOK

\* The shared map loses no merge, and a count beside the merges never shows
\* less than was there nor more than there is (CoverageKept).
THEOREM CoverageIsKept == MergeSpec => []CoverageKept
<1>1. MergeInv /\ RawOK(local, todo, raw) => NothingLost
    <2> SUFFICES ASSUME MergeInv, RawOK(local, todo, raw), \A w \in Workers : todo[w] = {}
                 PROVE  /\ \A w \in Workers : \A x \in DOMAIN local[w].words :
                              x \in DOMAIN map /\ local[w].words[x] \subseteq map[x] /\ x[2] \in codes
                        /\ \A x \in DOMAIN raw :
                              raw[x] = SumFunction([w \in Workers |->
                                  IF x \in DOMAIN local[w].hits THEN local[w].hits[x] ELSE 0])
        BY DEF NothingLost, Idle
    <2>1. ASSUME NEW w \in Workers, NEW x \in DOMAIN local[w].words
          PROVE  x \in DOMAIN map /\ local[w].words[x] \subseteq map[x] /\ x[2] \in codes
        BY DEF MergeInv, WorkersOK, DoneOK
    <2>2. ASSUME NEW x \in DOMAIN raw
          PROVE  raw[x] = SumFunction([w \in Workers |->
                              IF x \in DOMAIN local[w].hits THEN local[w].hits[x] ELSE 0])
        <3> DEFINE f == [w \in Workers |-> IF x \in DOMAIN local[w].hits THEN local[w].hits[x] ELSE 0]
        <3>1. x \in Covered \X Nat
            BY DEF RawOK
        <3>2. RawAt(raw, x) = SumOn(Shares(local, todo, x), Workers)
            BY <3>1 DEF RawOK, Shares
        <3>3. RawAt(raw, x) = raw[x]
            BY DEF RawAt
        <3>4. Shares(local, todo, x) = f
            BY DEF Shares, Share
        <3>5. SumFunction(f) = SumOn(f, Workers)
            BY DEF SumFunction, SumOn
        <3> HIDE DEF f
        <3>6. raw[x] = SumFunction(f)
            BY <3>2, <3>3, <3>4, <3>5
        <3> QED
            BY <3>6 DEF f
    <2> QED
        BY <2>1, <2>2
<1>2. MergeInv /\ CountOK => CountBetween
    <2> SUFFICES ASSUME MergeInv, CountOK, reader.left = {}
                 PROVE  reader.low <= reader.sum /\ reader.sum <= HitCount
        BY DEF CountBetween
    <2>1. SumOn(BitsOf(map), reader.left) = 0
        BY SumOfNothing
    <2>2. HitCount = SumOn(BitsOf(map), CountedWords)
        BY HitCountIsSum DEF MergeInv
    <2>3. CountedWords \ reader.left = CountedWords
        OBVIOUS
    <2> QED
        BY <2>1, <2>2, <2>3 DEF CountOK
<1>3. MergeInv /\ [MergeNext]_mergeVars => MergeInv'
    BY MergeInvKept
<1>4. MergeInv /\ RawOK(local, todo, raw) /\ [MergeNext]_mergeVars => RawOK(local, todo, raw)'
    BY SharesKept
<1>5. MergeInv /\ CountOK /\ [MergeNext]_mergeVars => CountOK'
    BY CountKept
<1>6. NothingLost /\ CountBetween => CoverageKept
    BY DEF CoverageKept
<1> QED
    BY <1>1, <1>2, <1>3, <1>4, <1>5, <1>6, MergeInvStarts, SharesStart, CountInit, PTL DEF MergeSpec

-----------------------------------------------------------------------------
(***************************************************************************)
(* The statistics of a campaign.                                           *)
(***************************************************************************)

(* Counting *)

\* The sizes of two sets that differ at most in t.
Moved(A, B, t) ==
    /\ Cardinality(A) \in Nat /\ Cardinality(B) \in Nat
    /\ (t \in A <=> t \in B) => Cardinality(B) = Cardinality(A)
    /\ t \notin A /\ t \in B => Cardinality(B) = Cardinality(A) + 1
    /\ t \in A /\ t \notin B => Cardinality(A) = Cardinality(B) + 1

LEMMA OneMoves ==
    ASSUME NEW R, IsFiniteSet(R), NEW A, A \subseteq R, NEW B, B \subseteq R, NEW t,
           \A u \in R : u # t => (u \in A <=> u \in B)
    PROVE  Moved(A, B, t)
<1>1. /\ IsFiniteSet(A) /\ Cardinality(A) \in Nat
      /\ IsFiniteSet(B) /\ Cardinality(B) \in Nat
    BY FS_Subset, FS_CardinalityType
<1>2. (t \in A <=> t \in B) => B = A
    OBVIOUS
<1>3. t \notin A /\ t \in B => B = A \union {t}
    OBVIOUS
<1>4. t \in A /\ t \notin B => A = B \union {t}
    OBVIOUS
<1> QED
    BY <1>1, <1>2, <1>3, <1>4, FS_AddElement DEF Moved

\* The smaller and the larger of two numbers.
LEMMA OfTwo ==
    ASSUME NEW a \in Nat, NEW b \in Nat
    PROVE  /\ Min({a, b}) \in Nat /\ Min({a, b}) <= a /\ Min({a, b}) <= b
           /\ Max({a, b}) \in Nat /\ Max({a, b}) >= a /\ Max({a, b}) >= b
<1>1. \E x \in {a, b} : \A y \in {a, b} : x <= y
    OBVIOUS
<1>2. Min({a, b}) \in {a, b} /\ \A y \in {a, b} : Min({a, b}) <= y
    BY <1>1 DEF Min
<1>3. \E x \in {a, b} : \A y \in {a, b} : x >= y
    OBVIOUS
<1>4. Max({a, b}) \in {a, b} /\ \A y \in {a, b} : Max({a, b}) >= y
    BY <1>3 DEF Max
<1> QED
    BY <1>2, <1>4

\* One more time keeps the total between the extremes.
LEMMA TotalBetween ==
    ASSUME NEW n \in Nat, NEW lo \in Nat, NEW hi \in Nat, NEW total \in Nat, NEW ns \in Nat,
           NEW low \in Nat, NEW high \in Nat, low <= lo, low <= ns, high >= hi, high >= ns,
           n * lo <= total, total <= n * hi
    PROVE  (n + 1) * low <= total + ns /\ total + ns <= (n + 1) * high
<1>1. n * low <= n * lo /\ n * hi <= n * high
    OBVIOUS
<1>2. (n + 1) * low = n * low + low /\ (n + 1) * high = n * high + high
    OBVIOUS
<1>3. /\ n * low \in Nat /\ n * lo \in Nat /\ n * hi \in Nat /\ n * high \in Nat
    OBVIOUS
<1> DEFINE p == n * low
           q == n * lo
           x == n * hi
           y == n * high
<1>4. p <= q /\ x <= y /\ q <= total /\ total <= x /\ p \in Nat /\ q \in Nat /\ x \in Nat /\ y \in Nat
    BY <1>1, <1>3
<1> HIDE DEF p, q, x, y
<1>5. p + low <= total + ns /\ total + ns <= y + high
    BY <1>4
<1> QED
    BY <1>2, <1>5 DEF p, q, x, y

\* The mean of numbers lies where their total says.
LEMMA MeanBetween ==
    ASSUME NEW n \in Nat \ {0}, NEW lo \in Nat, NEW hi \in Nat, NEW total \in Nat,
           n * lo <= total, total <= n * hi
    PROVE  lo <= total \div n /\ total \div n <= hi
<1> DEFINE q == total \div n
           r == total % n
<1>1. q \in Nat /\ r \in 0 .. n - 1 /\ total = n * q + r
    OBVIOUS
<1> HIDE DEF q, r
<1>2. ASSUME q < lo PROVE FALSE
    <2>1. n * (q + 1) <= n * lo
        BY <1>1, <1>2
    <2>2. n * (q + 1) = n * q + n /\ n * q \in Nat
        BY <1>1
    <2>3. PICK m \in Nat : m = n * q
        BY <2>2
    <2> QED
        BY <1>1, <2>1, <2>2, <2>3
<1>3. ASSUME hi < q PROVE FALSE
    <2>1. n * (hi + 1) <= n * q
        BY <1>1, <1>3
    <2>2. n * (hi + 1) = n * hi + n /\ n * hi \in Nat
        OBVIOUS
    <2>3. n * q \in Nat
        BY <1>1
    <2> QED
        BY <1>1, <2>1, <2>2, <2>3
<1> QED
    BY <1>1, <1>2, <1>3 DEF q

\* Counting the keys of one result raises the sum by one if it failed, and
\* no other count.
LEMMA GroupedAddsOne ==
    ASSUME NEW groups, IsFiniteSet(DOMAIN groups), \A k \in DOMAIN groups : groups[k] \in Nat,
           NEW r, r.success \in BOOLEAN
    PROVE  LET g == Grouped(groups, Classify(r))
           IN  /\ IsFiniteSet(DOMAIN g) /\ \A k \in DOMAIN g : g[k] \in Nat
               /\ \A k : CountIn(g, k) = CountIn(groups, k) + (IF k \in Classify(r) THEN 1 ELSE 0)
               /\ SumOn(g, DOMAIN g) = SumOn(groups, DOMAIN groups) + (IF r.success THEN 0 ELSE 1)
<1> DEFINE D == DOMAIN groups
           keys == Classify(r)
           g == Grouped(groups, keys)
<1>1. /\ DOMAIN g = D \union keys
      /\ \A k \in D \union keys : g[k] = CountIn(groups, k) + (IF k \in keys THEN 1 ELSE 0)
    BY DEF Grouped
<1>2. IsFiniteSet(keys)
    BY FS_EmptySet, FS_Singleton DEF Classify
<1>3. IsFiniteSet(D \union keys)
    BY <1>2, FS_Union
<1>4. \A k : CountIn(groups, k) \in Nat
    BY DEF CountIn
<1> HIDE DEF g, keys
<1>5. \A k \in DOMAIN g : g[k] \in Nat
    BY <1>1, <1>4
<1>6. \A k : CountIn(g, k) = CountIn(groups, k) + (IF k \in keys THEN 1 ELSE 0)
    BY <1>1, <1>4 DEF CountIn
<1>7. SumOn(groups, D) \in Nat
    BY SumIsNat
<1>8. CASE r.success
    <2>1. keys = {}
        BY <1>8 DEF keys, Classify
    <2>2. DOMAIN g = D /\ \A k \in D : g[k] = groups[k]
        BY <1>1, <2>1 DEF CountIn
    <2>3. SumOn(g, D) = SumOn(groups, D)
        BY <2>2, SumSame
    <2> QED
        BY <1>1, <1>3, <1>5, <1>6, <1>7, <1>8, <2>2, <2>3 DEF g, keys
<1>9. CASE ~r.success
    <2>1. PICK k : keys = {k}
        BY <1>9 DEF keys, Classify
    <2> DEFINE E == D \ {k}
    <2>2. k \in DOMAIN g /\ DOMAIN g = D \union {k} /\ g[k] = CountIn(groups, k) + 1
        BY <1>1, <2>1
    <2>3. SumOn(g, DOMAIN g) = g[k] + SumOn(g, DOMAIN g \ {k})
        BY <1>1, <1>3, <1>5, <2>2, SumWithout
    <2>4. DOMAIN g \ {k} = E /\ IsFiniteSet(E)
        BY <2>2, FS_Subset
    <2>5. \A x \in E : g[x] = groups[x]
        BY <1>1, <2>1 DEF CountIn
    <2>6. SumOn(g, E) = SumOn(groups, E)
        BY <2>4, <2>5, SumSame
    <2>7. SumOn(groups, D) = CountIn(groups, k) + SumOn(groups, E)
        <3>1. CASE k \in D
            BY <3>1, SumWithout DEF CountIn
        <3>2. CASE k \notin D
            <4>1. E = D
                BY <3>2
            <4> QED
                BY <1>7, <3>2, <4>1 DEF CountIn
        <3> QED
            BY <3>1, <3>2
    <2>8. SumOn(groups, E) \in Nat /\ CountIn(groups, k) \in Nat
        BY <1>4, <2>4, SumIsNat
    <2>9. SumOn(g, DOMAIN g) = SumOn(groups, D) + 1
        BY <2>2, <2>3, <2>4, <2>6, <2>7, <2>8
    <2> QED
        BY <1>1, <1>3, <1>5, <1>6, <1>9, <2>9 DEF g, keys
<1> QED
    BY <1>8, <1>9

-----------------------------------------------------------------------------
(* The counters while threads record *)

\* The threads of f that are at one of these steps, that have counted a
\* revert but not its group, and whose result has the key k.
At(f, steps) == {t \in Recorders : f[t].at \in steps}
Failing(f) == {t \in Recorders : f[t].at \in {"time", "group"} /\ ~f[t].result.success}
Holding(f, k) == {t \in Recorders : f[t].at # "idle" /\ k \in Classify(f[t].result)}

\* The results with the key k.
WithKey(s, k) == {i \in DOMAIN s : k \in Classify(s[i])}

RecordingOK(x) ==
    \/ x = NoResult
    \/ \E at \in {"outcome", "time", "group"}, r \in Results : x = [at |-> at, result |-> r]

StatsTypes ==
    /\ DOMAIN recording = Recorders /\ \A t \in Recorders : RecordingOK(recording[t])
    /\ recorded \in Seq(Results)
    /\ DOMAIN counters = {"calls", "successful", "reverts", "total", "min", "max", "groups"}
    /\ counters.calls \in Nat /\ counters.successful \in Nat /\ counters.reverts \in Nat
    /\ counters.total \in Nat /\ counters.min \in Nat /\ counters.max \in Nat
    /\ IsFiniteSet(DOMAIN counters.groups)
    /\ \A k \in DOMAIN counters.groups : counters.groups[k] \in Nat

\* Every result is counted, or its thread has still to count it.
CallsCounted ==
    /\ counters.calls + Cardinality(At(recording, {"outcome"})) = Len(recorded)
    /\ counters.calls = counters.successful + counters.reverts

\* The total of n times lies between n times the extremes.
TimesCounted ==
    \E n \in Nat :
        /\ n + Cardinality(At(recording, {"time"})) = counters.calls
        /\ n * counters.min <= counters.total /\ counters.total <= n * counters.max

\* A revert is in a group, or its thread has still to put it there.
GroupsCounted ==
    /\ counters.reverts = SumOn(counters.groups, DOMAIN counters.groups) + Cardinality(Failing(recording))
    /\ \A k : CountIn(counters.groups, k) + Cardinality(Holding(recording, k))
                = Cardinality(WithKey(recorded, k))

StatsInv == StatsTypes /\ CallsCounted /\ TimesCounted /\ GroupsCounted

\* What a step of one thread does to the sets of threads.
LEMMA ThreadMoves ==
    ASSUME NEW f, DOMAIN f = Recorders, NEW t \in Recorders, NEW x, NEW g, g = [f EXCEPT ![t] = x]
    PROVE  /\ DOMAIN g = Recorders /\ g[t] = x /\ \A u \in Recorders : u # t => g[u] = f[u]
           /\ Moved(At(f, {"outcome"}), At(g, {"outcome"}), t)
           /\ Moved(At(f, {"time"}), At(g, {"time"}), t)
           /\ Moved(Failing(f), Failing(g), t)
           /\ \A k : Moved(Holding(f, k), Holding(g, k), t)
<1>1. DOMAIN g = Recorders /\ g[t] = x /\ \A u \in Recorders : u # t => g[u] = f[u]
    OBVIOUS
<1>2. IsFiniteSet(Recorders)
    BY StatsAssumption
<1>3. ASSUME NEW S PROVE Moved(At(f, S), At(g, S), t)
    <2>1. At(f, S) \subseteq Recorders /\ At(g, S) \subseteq Recorders
        BY DEF At
    <2>2. \A u \in Recorders : u # t => (u \in At(f, S) <=> u \in At(g, S))
        BY <1>1 DEF At
    <2> QED
        BY <1>2, <2>1, <2>2, OneMoves
<1>4. Moved(Failing(f), Failing(g), t)
    <2>1. Failing(f) \subseteq Recorders /\ Failing(g) \subseteq Recorders
        BY DEF Failing
    <2>2. \A u \in Recorders : u # t => (u \in Failing(f) <=> u \in Failing(g))
        BY <1>1 DEF Failing
    <2> QED
        BY <1>2, <2>1, <2>2, OneMoves
<1>5. ASSUME NEW k PROVE Moved(Holding(f, k), Holding(g, k), t)
    <2>1. Holding(f, k) \subseteq Recorders /\ Holding(g, k) \subseteq Recorders
        BY DEF Holding
    <2>2. \A u \in Recorders : u # t => (u \in Holding(f, k) <=> u \in Holding(g, k))
        BY <1>1 DEF Holding
    <2> QED
        BY <1>2, <2>1, <2>2, OneMoves
<1> QED
    BY <1>1, <1>3, <1>4, <1>5

\* At first nothing is counted and nobody records.
LEMMA StatsStart == StatsIdle => StatsInv
<1> SUFFICES ASSUME StatsIdle PROVE StatsInv
    OBVIOUS
<1>1. /\ counters.calls = 0 /\ counters.successful = 0 /\ counters.reverts = 0 /\ counters.total = 0
      /\ counters.min = MaxNs /\ counters.max = 0 /\ counters.groups = [key \in {} |-> 0]
      /\ DOMAIN counters.groups = {}
      /\ recorded = <<>> /\ DOMAIN recording = Recorders
      /\ \A t \in Recorders : recording[t] = NoResult /\ recording[t].at = "idle"
    BY DEF StatsIdle, NoResult
<1>2. /\ At(recording, {"outcome"}) = {} /\ At(recording, {"time"}) = {} /\ Failing(recording) = {}
      /\ \A k : Holding(recording, k) = {} /\ WithKey(recorded, k) = {}
    BY <1>1 DEF At, Failing, Holding, WithKey
<1>3. Cardinality({}) = 0 /\ IsFiniteSet({}) /\ MaxNs \in Nat /\ Len(recorded) = 0
    BY <1>1, FS_EmptySet, StatsAssumption
<1>4. StatsTypes
    <2>1. DOMAIN counters = {"calls", "successful", "reverts", "total", "min", "max", "groups"}
        BY DEF StatsIdle
    <2>2. recorded \in Seq(Results)
        BY <1>1
    <2> QED
        BY <1>1, <1>3, <2>1, <2>2 DEF StatsTypes, RecordingOK
<1>5. CallsCounted
    <2>1. counters.calls = 0 /\ counters.successful = 0 /\ counters.reverts = 0
        BY <1>1
    <2>2. Cardinality(At(recording, {"outcome"})) = 0
        BY <1>2, <1>3
    <2> QED
        BY <1>3, <2>1, <2>2 DEF CallsCounted
<1>6. TimesCounted
    <2>1. 0 * MaxNs = 0 /\ 0 * 0 = 0 /\ 0 + 0 = 0
        BY <1>3
    <2>2. Cardinality(At(recording, {"time"})) = 0
        BY <1>2, <1>3
    <2>3. counters.calls = 0 /\ counters.total = 0 /\ counters.min = MaxNs /\ counters.max = 0
        BY <1>1
    <2> QED
        BY <2>1, <2>2, <2>3 DEF TimesCounted
<1>7. GroupsCounted
    <2>1. SumOn(counters.groups, DOMAIN counters.groups) = 0
        BY <1>1, SumOfNothing
    <2>2. Cardinality(Failing(recording)) = 0
        BY <1>2, <1>3
    <2>3. ASSUME NEW k
          PROVE  CountIn(counters.groups, k) = 0 /\ Cardinality(Holding(recording, k)) = 0
                 /\ Cardinality(WithKey(recorded, k)) = 0
        <3>1. k \notin DOMAIN counters.groups
            BY <1>1
        <3> QED
            BY <1>2, <1>3, <3>1 DEF CountIn
    <2>4. counters.reverts = 0
        BY <1>1
    <2> QED
        BY <2>1, <2>2, <2>3, <2>4 DEF GroupsCounted
<1> QED
    BY <1>4, <1>5, <1>6, <1>7 DEF StatsInv

\* A thread that records has a result.
LEMMA HasResult ==
    ASSUME NEW x, RecordingOK(x), x.at # "idle"
    PROVE  /\ x.at \in {"outcome", "time", "group"} /\ x.result \in Results
           /\ x = [at |-> x.at, result |-> x.result]
           /\ x.result.success \in BOOLEAN /\ x.result.elapsed \in Nat
<1>1. PICK at \in {"outcome", "time", "group"}, r \in Results : x = [at |-> at, result |-> r]
    BY DEF RecordingOK, NoResult
<1>2. r.success \in BOOLEAN /\ r.elapsed \in 0 .. MaxNs /\ MaxNs \in Nat
    BY StatsAssumption
<1> QED
    BY <1>1, <1>2

\* A step of one thread from x to y, in the state f of the threads.
LEMMA BeginKeeps ==
    ASSUME StatsInv, NEW t \in Recorders, NEW r \in Results, BeginRecord(t, r)
    PROVE  StatsInv'
<1> DEFINE y == [at |-> "outcome", result |-> r]
<1>0. /\ recording[t] = NoResult /\ recording' = [recording EXCEPT ![t] = y]
      /\ recorded' = Append(recorded, r) /\ counters' = counters
      /\ DOMAIN recording = Recorders /\ recorded \in Seq(Results)
    BY DEF BeginRecord, StatsInv, StatsTypes
<1>1. recording[t].at = "idle" /\ y.at = "outcome" /\ y.result = r
    BY <1>0 DEF NoResult
<1> HIDE DEF y
<1>2. /\ DOMAIN recording' = Recorders /\ recording'[t] = y
      /\ \A u \in Recorders : u # t => recording'[u] = recording[u]
      /\ Moved(At(recording, {"outcome"}), At(recording', {"outcome"}), t)
      /\ Moved(At(recording, {"time"}), At(recording', {"time"}), t)
      /\ Moved(Failing(recording), Failing(recording'), t)
      /\ \A k : Moved(Holding(recording, k), Holding(recording', k), t)
    BY <1>0, ThreadMoves
<1>3. /\ t \notin At(recording, {"outcome"}) /\ t \in At(recording', {"outcome"})
      /\ t \notin At(recording, {"time"}) /\ t \notin At(recording', {"time"})
      /\ t \notin Failing(recording) /\ t \notin Failing(recording')
      /\ \A k : t \notin Holding(recording, k) /\ (t \in Holding(recording', k) <=> k \in Classify(r))
    BY <1>1, <1>2 DEF At, Failing, Holding
<1>4. /\ Len(recorded') = Len(recorded) + 1 /\ recorded' \in Seq(Results) /\ Len(recorded) \in Nat
      /\ DOMAIN recorded' = 1 .. Len(recorded) + 1 /\ DOMAIN recorded = 1 .. Len(recorded)
      /\ recorded'[Len(recorded) + 1] = r /\ \A i \in 1 .. Len(recorded) : recorded'[i] = recorded[i]
    BY <1>0
<1>5. StatsTypes'
    <2>1. RecordingOK(y)
        BY DEF RecordingOK, y
    <2>2. \A u \in Recorders : RecordingOK(recording'[u])
        BY <1>2, <2>1 DEF StatsInv, StatsTypes
    <2> QED
        BY <1>0, <1>2, <1>4, <2>2 DEF StatsInv, StatsTypes
<1>6. CallsCounted'
    <2>1. /\ Cardinality(At(recording', {"outcome"})) = Cardinality(At(recording, {"outcome"})) + 1
          /\ Cardinality(At(recording, {"outcome"})) \in Nat
        BY <1>2, <1>3 DEF Moved
    <2>2. counters.calls \in Nat
        BY DEF StatsInv, StatsTypes
    <2>3. counters.calls + Cardinality(At(recording', {"outcome"})) = Len(recorded')
        BY <1>4, <2>1, <2>2 DEF StatsInv, CallsCounted
    <2> QED
        BY <1>0, <2>3 DEF StatsInv, CallsCounted
<1>7. TimesCounted'
    <2>1. Cardinality(At(recording', {"time"})) = Cardinality(At(recording, {"time"}))
        BY <1>2, <1>3 DEF Moved
    <2> QED
        BY <1>0, <2>1 DEF StatsInv, TimesCounted
<1>8. GroupsCounted'
    <2>1. Cardinality(Failing(recording')) = Cardinality(Failing(recording))
        BY <1>2, <1>3 DEF Moved
    <2>2. ASSUME NEW k
          PROVE  CountIn(counters.groups, k) + Cardinality(Holding(recording', k))
                   = Cardinality(WithKey(recorded', k))
        <3> DEFINE n == Len(recorded) + 1
                   A == WithKey(recorded, k)
                   B == WithKey(recorded', k)
        <3>1. Moved(A, B, n)
            <4>0. 1 \in Int /\ n \in Int
                BY <1>4
            <4>1. A \subseteq 1 .. n /\ B \subseteq 1 .. n
                BY <1>4 DEF WithKey
            <4>3. IsFiniteSet(1 .. n)
                <5> HIDE DEF n
                <5> QED
                    BY <4>0, FS_Interval
            <4>2. \A i \in 1 .. n : i # n => (i \in A <=> i \in B)
                BY <1>4 DEF WithKey
            <4> HIDE DEF A, B
            <4> QED
                BY <4>1, <4>2, <4>3, OneMoves
        <3>2. n \notin A /\ (n \in B <=> k \in Classify(r))
            BY <1>4 DEF WithKey
        <3>3. Moved(Holding(recording, k), Holding(recording', k), t)
            BY <1>2
        <3>4. t \notin Holding(recording, k) /\ (t \in Holding(recording', k) <=> k \in Classify(r))
            BY <1>3
        <3>5. CountIn(counters.groups, k) + Cardinality(Holding(recording, k)) = Cardinality(A)
            BY DEF StatsInv, GroupsCounted
        <3>6. CountIn(counters.groups, k) \in Nat
            BY DEF StatsInv, StatsTypes, CountIn
        <3> HIDE DEF A, B, n
        <3>7. CASE k \in Classify(r)
            <4>1. /\ Cardinality(B) = Cardinality(A) + 1
                  /\ Cardinality(Holding(recording', k)) = Cardinality(Holding(recording, k)) + 1
                  /\ Cardinality(A) \in Nat /\ Cardinality(Holding(recording, k)) \in Nat
                BY <3>1, <3>2, <3>3, <3>4, <3>7 DEF Moved
            <4> QED
                BY <3>5, <3>6, <4>1 DEF B
        <3>8. CASE k \notin Classify(r)
            <4>1. /\ Cardinality(B) = Cardinality(A)
                  /\ Cardinality(Holding(recording', k)) = Cardinality(Holding(recording, k))
                BY <3>1, <3>2, <3>3, <3>4, <3>8 DEF Moved
            <4> QED
                BY <3>5, <4>1 DEF B
        <3> QED
            BY <3>7, <3>8
    <2> QED
        BY <1>0, <2>1, <2>2 DEF StatsInv, GroupsCounted
<1> QED
    BY <1>5, <1>6, <1>7, <1>8 DEF StatsInv

\* What a thread does to the sets of threads when it goes on with its result.
Advances(f, g, t, at) == g = [f EXCEPT ![t].at = at]
Goes(f, g, t, at) ==
    /\ DOMAIN g = Recorders /\ \A u \in Recorders : RecordingOK(g[u])
    /\ g[t].at = at /\ g[t].result = f[t].result
    /\ Moved(At(f, {"outcome"}), At(g, {"outcome"}), t)
    /\ Moved(At(f, {"time"}), At(g, {"time"}), t)
    /\ Moved(Failing(f), Failing(g), t)
    /\ \A k : Cardinality(Holding(g, k)) = Cardinality(Holding(f, k))

LEMMA ThreadGoesOn ==
    ASSUME StatsInv, NEW t \in Recorders, recording[t].at # "idle", NEW at \in {"outcome", "time", "group"},
           NEW g, Advances(recording, g, t, at)
    PROVE  Goes(recording, g, t, at)
<1> DEFINE x == recording[t]
           y == [at |-> at, result |-> x.result]
<1>1. DOMAIN recording = Recorders /\ RecordingOK(x)
    BY DEF StatsInv, StatsTypes
<1>2. x.result \in Results /\ x = [at |-> x.at, result |-> x.result]
    BY <1>1, HasResult
<1>3. g = [recording EXCEPT ![t] = y]
    <2>1. ASSUME NEW z, NEW q, z = [at |-> z.at, result |-> q]
          PROVE  [z EXCEPT !.at = at] = [at |-> at, result |-> q]
        BY <2>1
    <2>2. [x EXCEPT !.at = at] = y
        BY <1>2, <2>1
    <2> QED
        BY <2>2 DEF Advances
<1>4. RecordingOK(y) /\ y.at = at /\ y.result = recording[t].result
    BY <1>2 DEF RecordingOK
<1> HIDE DEF y
<1>5. /\ DOMAIN g = Recorders /\ g[t] = y /\ \A u \in Recorders : u # t => g[u] = recording[u]
      /\ Moved(At(recording, {"outcome"}), At(g, {"outcome"}), t)
      /\ Moved(At(recording, {"time"}), At(g, {"time"}), t)
      /\ Moved(Failing(recording), Failing(g), t)
      /\ \A k : Moved(Holding(recording, k), Holding(g, k), t)
    BY <1>1, <1>3, ThreadMoves
<1>6. \A k : t \in Holding(recording, k) <=> t \in Holding(g, k)
    BY <1>4, <1>5 DEF Holding
<1>7. \A k : Cardinality(Holding(g, k)) = Cardinality(Holding(recording, k))
    BY <1>5, <1>6 DEF Moved
<1>8. \A u \in Recorders : RecordingOK(g[u])
    BY <1>4, <1>5 DEF StatsInv, StatsTypes
<1> QED
    BY <1>4, <1>5, <1>7, <1>8 DEF Goes

\* Counting the outcome.
LEMMA OutcomeKeeps ==
    ASSUME StatsInv, NEW t \in Recorders, RecordOutcome(t)
    PROVE  StatsInv'
<1>1. PICK ok : ok = recording[t].result.success
    OBVIOUS
<1>2. /\ recording[t].at = "outcome" /\ recording' = [recording EXCEPT ![t].at = "time"]
      /\ recorded' = recorded
      /\ counters' = [counters EXCEPT !.calls = @ + 1,
                                      !.successful = IF ok THEN @ + 1 ELSE @,
                                      !.reverts = IF ok THEN @ ELSE @ + 1]
    BY <1>1 DEF RecordOutcome
<1>3. ok \in BOOLEAN
    BY <1>1, <1>2, HasResult DEF StatsInv, StatsTypes
<1>4. /\ counters'.calls = counters.calls + 1
      /\ counters'.successful = IF ok THEN counters.successful + 1 ELSE counters.successful
      /\ counters'.reverts = IF ok THEN counters.reverts ELSE counters.reverts + 1
      /\ counters'.total = counters.total /\ counters'.min = counters.min
      /\ counters'.max = counters.max /\ counters'.groups = counters.groups
      /\ DOMAIN counters' = DOMAIN counters
    <2>1. DOMAIN counters = {"calls", "successful", "reverts", "total", "min", "max", "groups"}
        BY DEF StatsInv, StatsTypes
    <2> QED
        BY <1>2, <1>3, <2>1
<1>5. /\ DOMAIN recording' = Recorders /\ \A u \in Recorders : RecordingOK(recording'[u])
      /\ recording'[t].at = "time" /\ recording'[t].result = recording[t].result
      /\ Moved(At(recording, {"outcome"}), At(recording', {"outcome"}), t)
      /\ Moved(At(recording, {"time"}), At(recording', {"time"}), t)
      /\ Moved(Failing(recording), Failing(recording'), t)
      /\ \A k : Cardinality(Holding(recording', k)) = Cardinality(Holding(recording, k))
    <2>1. recording[t].at # "idle" /\ "time" \in {"outcome", "time", "group"}
        BY <1>2
    <2>2. Advances(recording, recording', t, "time")
        BY <1>2 DEF Advances
    <2>3. Goes(recording, recording', t, "time")
        BY <2>1, <2>2, ThreadGoesOn
    <2> QED
        BY <2>3 DEF Goes
<1>6. /\ t \in At(recording, {"outcome"}) /\ t \notin At(recording', {"outcome"})
      /\ t \notin At(recording, {"time"}) /\ t \in At(recording', {"time"})
      /\ t \notin Failing(recording) /\ (t \in Failing(recording') <=> ~ok)
    BY <1>1, <1>2, <1>3, <1>5 DEF At, Failing
<1>7. /\ counters.calls \in Nat /\ counters.successful \in Nat /\ counters.reverts \in Nat
    BY DEF StatsInv, StatsTypes
<1>8. StatsTypes'
    BY <1>2, <1>4, <1>5, <1>7 DEF StatsInv, StatsTypes
<1>9. CallsCounted'
    <2>1. /\ Cardinality(At(recording, {"outcome"})) = Cardinality(At(recording', {"outcome"})) + 1
          /\ Cardinality(At(recording', {"outcome"})) \in Nat
        BY <1>5, <1>6 DEF Moved
    <2>2. /\ counters.calls + Cardinality(At(recording, {"outcome"})) = Len(recorded)
          /\ counters.calls = counters.successful + counters.reverts
        BY DEF StatsInv, CallsCounted
    <2>3. counters'.calls + Cardinality(At(recording', {"outcome"})) = Len(recorded')
        BY <1>2, <1>4, <1>7, <2>1, <2>2
    <2>4. counters'.calls = counters'.successful + counters'.reverts
        BY <1>3, <1>4, <1>7, <2>2
    <2> QED
        BY <2>3, <2>4 DEF CallsCounted
<1>10. TimesCounted'
    <2>1. /\ Cardinality(At(recording', {"time"})) = Cardinality(At(recording, {"time"})) + 1
          /\ Cardinality(At(recording, {"time"})) \in Nat
        BY <1>5, <1>6 DEF Moved
    <2>2. PICK n \in Nat : /\ n + Cardinality(At(recording, {"time"})) = counters.calls
                           /\ n * counters.min <= counters.total /\ counters.total <= n * counters.max
        BY DEF StatsInv, TimesCounted
    <2>3. n + Cardinality(At(recording', {"time"})) = counters'.calls
        BY <1>4, <2>1, <2>2
    <2>4. n * counters'.min <= counters'.total /\ counters'.total <= n * counters'.max
        BY <1>4, <2>2
    <2> QED
        BY <2>3, <2>4 DEF TimesCounted
<1>11. GroupsCounted'
    <2>1. counters.reverts = SumOn(counters.groups, DOMAIN counters.groups) + Cardinality(Failing(recording))
        BY DEF StatsInv, GroupsCounted
    <2>2. SumOn(counters.groups, DOMAIN counters.groups) \in Nat
        BY SumIsNat DEF StatsInv, StatsTypes
    <2>3. counters'.reverts = SumOn(counters'.groups, DOMAIN counters'.groups) + Cardinality(Failing(recording'))
        <3>1. CASE ok
            <4>1. Cardinality(Failing(recording')) = Cardinality(Failing(recording))
                BY <1>5, <1>6, <3>1 DEF Moved
            <4> QED
                BY <1>4, <2>1, <3>1, <4>1
        <3>2. CASE ~ok
            <4>1. /\ Cardinality(Failing(recording')) = Cardinality(Failing(recording)) + 1
                  /\ Cardinality(Failing(recording)) \in Nat
                BY <1>5, <1>6, <3>2 DEF Moved
            <4> QED
                BY <1>4, <2>1, <2>2, <3>2, <4>1
        <3> QED
            BY <3>1, <3>2
    <2> QED
        BY <1>2, <1>4, <1>5, <2>3 DEF StatsInv, GroupsCounted
<1> QED
    BY <1>8, <1>9, <1>10, <1>11 DEF StatsInv

\* Counting the time.
LEMMA TimeKeeps ==
    ASSUME StatsInv, NEW t \in Recorders, RecordTime(t)
    PROVE  StatsInv'
<1>1. PICK ns : ns = recording[t].result.elapsed
    OBVIOUS
<1>2. /\ recording[t].at = "time" /\ recording' = [recording EXCEPT ![t].at = "group"]
      /\ recorded' = recorded
      /\ counters' = [counters EXCEPT !.total = @ + ns, !.min = Min({@, ns}), !.max = Max({@, ns})]
    BY <1>1 DEF RecordTime
<1>3. ns \in Nat
    BY <1>1, <1>2, HasResult DEF StatsInv, StatsTypes
<1>4. /\ counters'.calls = counters.calls /\ counters'.successful = counters.successful
      /\ counters'.reverts = counters.reverts /\ counters'.groups = counters.groups
      /\ counters'.total = counters.total + ns /\ counters'.min = Min({counters.min, ns})
      /\ counters'.max = Max({counters.max, ns})
      /\ DOMAIN counters' = DOMAIN counters
    <2>1. DOMAIN counters = {"calls", "successful", "reverts", "total", "min", "max", "groups"}
        BY DEF StatsInv, StatsTypes
    <2> QED
        BY <1>2, <1>3, <2>1
<1>5. /\ DOMAIN recording' = Recorders /\ \A u \in Recorders : RecordingOK(recording'[u])
      /\ recording'[t].at = "group" /\ recording'[t].result = recording[t].result
      /\ Moved(At(recording, {"outcome"}), At(recording', {"outcome"}), t)
      /\ Moved(At(recording, {"time"}), At(recording', {"time"}), t)
      /\ Moved(Failing(recording), Failing(recording'), t)
      /\ \A k : Cardinality(Holding(recording', k)) = Cardinality(Holding(recording, k))
    <2>1. recording[t].at # "idle" /\ "group" \in {"outcome", "time", "group"}
        BY <1>2
    <2>2. Advances(recording, recording', t, "group")
        BY <1>2 DEF Advances
    <2>3. Goes(recording, recording', t, "group")
        BY <2>1, <2>2, ThreadGoesOn
    <2> QED
        BY <2>3 DEF Goes
<1>6. /\ t \notin At(recording, {"outcome"}) /\ t \notin At(recording', {"outcome"})
      /\ t \in At(recording, {"time"}) /\ t \notin At(recording', {"time"})
      /\ (t \in Failing(recording) <=> t \in Failing(recording'))
    BY <1>2, <1>5 DEF At, Failing
<1>7. /\ counters.total \in Nat /\ counters.min \in Nat /\ counters.max \in Nat
      /\ counters'.total \in Nat /\ counters'.min \in Nat /\ counters'.max \in Nat
      /\ counters'.min <= counters.min /\ counters'.min <= ns
      /\ counters'.max >= counters.max /\ counters'.max >= ns
    <2>1. counters.total \in Nat /\ counters.min \in Nat /\ counters.max \in Nat
        BY DEF StatsInv, StatsTypes
    <2> QED
        BY <1>3, <1>4, <2>1, OfTwo
<1>8. StatsTypes'
    BY <1>2, <1>4, <1>5, <1>7 DEF StatsInv, StatsTypes
<1>9. CallsCounted'
    <2>1. Cardinality(At(recording', {"outcome"})) = Cardinality(At(recording, {"outcome"}))
        BY <1>5, <1>6 DEF Moved
    <2> QED
        BY <1>2, <1>4, <2>1 DEF StatsInv, CallsCounted
<1>10. TimesCounted'
    <2>1. /\ Cardinality(At(recording, {"time"})) = Cardinality(At(recording', {"time"})) + 1
          /\ Cardinality(At(recording', {"time"})) \in Nat
        BY <1>5, <1>6 DEF Moved
    <2>2. PICK n \in Nat : /\ n + Cardinality(At(recording, {"time"})) = counters.calls
                           /\ n * counters.min <= counters.total /\ counters.total <= n * counters.max
        BY DEF StatsInv, TimesCounted
    <2>3. (n + 1) + Cardinality(At(recording', {"time"})) = counters'.calls /\ n + 1 \in Nat
        BY <1>4, <2>1, <2>2
    <2>4. /\ (n + 1) * counters'.min <= counters.total + ns
          /\ counters.total + ns <= (n + 1) * counters'.max
        BY <1>3, <1>7, <2>2, TotalBetween
    <2> QED
        BY <1>4, <2>3, <2>4 DEF TimesCounted
<1>11. GroupsCounted'
    <2>1. Cardinality(Failing(recording')) = Cardinality(Failing(recording))
        BY <1>5, <1>6 DEF Moved
    <2> QED
        BY <1>2, <1>4, <1>5, <2>1 DEF StatsInv, GroupsCounted
<1> QED
    BY <1>8, <1>9, <1>10, <1>11 DEF StatsInv

\* Counting the group.
LEMMA GroupKeeps ==
    ASSUME StatsInv, NEW t \in Recorders, RecordGroup(t)
    PROVE  StatsInv'
<1>1. PICK r : r = recording[t].result
    OBVIOUS
<1>2. /\ recording[t].at = "group" /\ recording' = [recording EXCEPT ![t] = NoResult]
      /\ recorded' = recorded
      /\ counters' = [counters EXCEPT !.groups = Grouped(@, Classify(r))]
    BY <1>1 DEF RecordGroup
<1>3. r.success \in BOOLEAN
    BY <1>1, <1>2, HasResult DEF StatsInv, StatsTypes
<1>4. PICK gs : gs = counters.groups
    OBVIOUS
<1>5. PICK hs : hs = Grouped(gs, Classify(r))
    OBVIOUS
<1>6. /\ counters'.calls = counters.calls /\ counters'.successful = counters.successful
      /\ counters'.reverts = counters.reverts /\ counters'.total = counters.total
      /\ counters'.min = counters.min /\ counters'.max = counters.max
      /\ counters'.groups = hs /\ DOMAIN counters' = DOMAIN counters
    <2>1. DOMAIN counters = {"calls", "successful", "reverts", "total", "min", "max", "groups"}
        BY DEF StatsInv, StatsTypes
    <2> QED
        BY <1>2, <1>4, <1>5, <2>1
<1>7. IsFiniteSet(DOMAIN gs) /\ \A k \in DOMAIN gs : gs[k] \in Nat
    BY <1>4 DEF StatsInv, StatsTypes
<1>8. /\ IsFiniteSet(DOMAIN hs) /\ \A k \in DOMAIN hs : hs[k] \in Nat
      /\ \A k : CountIn(hs, k) = CountIn(gs, k) + (IF k \in Classify(r) THEN 1 ELSE 0)
      /\ SumOn(hs, DOMAIN hs) = SumOn(gs, DOMAIN gs) + (IF r.success THEN 0 ELSE 1)
    BY <1>3, <1>5, <1>7, GroupedAddsOne
<1>9. /\ DOMAIN recording' = Recorders /\ recording'[t] = NoResult
      /\ \A u \in Recorders : u # t => recording'[u] = recording[u]
      /\ Moved(At(recording, {"outcome"}), At(recording', {"outcome"}), t)
      /\ Moved(At(recording, {"time"}), At(recording', {"time"}), t)
      /\ Moved(Failing(recording), Failing(recording'), t)
      /\ \A k : Moved(Holding(recording, k), Holding(recording', k), t)
    <2>1. DOMAIN recording = Recorders
        BY DEF StatsInv, StatsTypes
    <2> QED
        BY <1>2, <2>1, ThreadMoves
<1>10. /\ t \notin At(recording, {"outcome"}) /\ t \notin At(recording', {"outcome"})
       /\ t \notin At(recording, {"time"}) /\ t \notin At(recording', {"time"})
       /\ (t \in Failing(recording) <=> ~r.success) /\ t \notin Failing(recording')
       /\ \A k : (t \in Holding(recording, k) <=> k \in Classify(r)) /\ t \notin Holding(recording', k)
    BY <1>1, <1>2, <1>3, <1>9 DEF At, Failing, Holding, NoResult
<1>11. StatsTypes'
    <2>1. \A u \in Recorders : RecordingOK(recording'[u])
        BY <1>9 DEF StatsInv, StatsTypes, RecordingOK
    <2> QED
        BY <1>2, <1>6, <1>8, <1>9, <2>1 DEF StatsInv, StatsTypes
<1>12. CallsCounted'
    <2>1. Cardinality(At(recording', {"outcome"})) = Cardinality(At(recording, {"outcome"}))
        BY <1>9, <1>10 DEF Moved
    <2> QED
        BY <1>2, <1>6, <2>1 DEF StatsInv, CallsCounted
<1>13. TimesCounted'
    <2>1. Cardinality(At(recording', {"time"})) = Cardinality(At(recording, {"time"}))
        BY <1>9, <1>10 DEF Moved
    <2> QED
        BY <1>6, <2>1 DEF StatsInv, TimesCounted
<1>14. GroupsCounted'
    <2>1. counters.reverts = SumOn(gs, DOMAIN gs) + Cardinality(Failing(recording))
        BY <1>4 DEF StatsInv, GroupsCounted
    <2>2. SumOn(gs, DOMAIN gs) \in Nat
        BY <1>7, SumIsNat
    <2>3. counters.reverts = SumOn(hs, DOMAIN hs) + Cardinality(Failing(recording'))
        <3>1. CASE r.success
            <4>1. Cardinality(Failing(recording')) = Cardinality(Failing(recording))
                BY <1>9, <1>10, <3>1 DEF Moved
            <4> QED
                BY <1>8, <2>1, <2>2, <3>1, <4>1
        <3>2. CASE ~r.success
            <4>1. /\ Cardinality(Failing(recording)) = Cardinality(Failing(recording')) + 1
                  /\ Cardinality(Failing(recording')) \in Nat
                BY <1>9, <1>10, <3>2 DEF Moved
            <4> QED
                BY <1>8, <2>1, <2>2, <3>2, <4>1
        <3> QED
            BY <3>1, <3>2
    <2>4. ASSUME NEW k
          PROVE  CountIn(hs, k) + Cardinality(Holding(recording', k)) = Cardinality(WithKey(recorded, k))
        <3>1. /\ CountIn(gs, k) + Cardinality(Holding(recording, k)) = Cardinality(WithKey(recorded, k))
              /\ CountIn(gs, k) \in Nat
            BY <1>4, <1>7 DEF StatsInv, GroupsCounted, CountIn
        <3>2. Moved(Holding(recording, k), Holding(recording', k), t)
            BY <1>9
        <3>3. /\ CountIn(hs, k) = CountIn(gs, k) + (IF k \in Classify(r) THEN 1 ELSE 0)
              /\ (t \in Holding(recording, k) <=> k \in Classify(r)) /\ t \notin Holding(recording', k)
            BY <1>8, <1>10
        <3>4. CASE k \in Classify(r)
            <4>1. /\ Cardinality(Holding(recording, k)) = Cardinality(Holding(recording', k)) + 1
                  /\ Cardinality(Holding(recording', k)) \in Nat
                BY <3>2, <3>3, <3>4 DEF Moved
            <4> QED
                BY <3>1, <3>3, <3>4, <4>1
        <3>5. CASE k \notin Classify(r)
            <4>1. Cardinality(Holding(recording, k)) = Cardinality(Holding(recording', k))
                BY <3>2, <3>3, <3>5 DEF Moved
            <4> QED
                BY <3>1, <3>3, <3>5, <4>1
        <3> QED
            BY <3>4, <3>5
    <2> QED
        BY <1>2, <1>6, <2>3, <2>4 DEF GroupsCounted
<1> QED
    BY <1>11, <1>12, <1>13, <1>14 DEF StatsInv

LEMMA StatsStep == StatsInv /\ [StatsNext]_statsVars => StatsInv'
<1> SUFFICES ASSUME StatsInv, [StatsNext]_statsVars PROVE StatsInv'
    OBVIOUS
<1>1. CASE StatsNext
    BY <1>1, BeginKeeps, OutcomeKeeps, TimeKeeps, GroupKeeps DEF StatsNext, RecordStep
<1>2. CASE UNCHANGED statsVars
    <2>1. counters' = counters /\ recording' = recording /\ recorded' = recorded
        BY <1>2 DEF statsVars
    <2> QED
        BY <2>1 DEF StatsInv, StatsTypes, CallsCounted, TimesCounted, GroupsCounted
<1> QED
    BY <1>1, <1>2

-----------------------------------------------------------------------------
(* What the counters say when nobody records *)

LEMMA CountersAddUp == StatsInv => StatsAddUp
<1> SUFFICES ASSUME StatsInv, \A t \in Recorders : recording[t] = NoResult
             PROVE  LET s == Snapshot
                    IN  /\ s.calls = Len(recorded) /\ s.calls = s.successful + s.reverts
                        /\ s.reverts = SumFunctionOnSet(s.groups, DOMAIN s.groups)
                        /\ \A k \in DOMAIN s.groups :
                              s.groups[k] = Cardinality({i \in DOMAIN recorded : k \in Classify(recorded[i])})
                        /\ s.min <= s.avg /\ s.avg <= s.max
    BY DEF StatsAddUp
<1>1. /\ At(recording, {"outcome"}) = {} /\ At(recording, {"time"}) = {} /\ Failing(recording) = {}
      /\ \A k : Holding(recording, k) = {}
    BY DEF At, Failing, Holding, NoResult
<1>2. Cardinality({}) = 0
    BY FS_EmptySet
<1>3. /\ counters.calls \in Nat /\ counters.min \in Nat /\ counters.max \in Nat /\ counters.total \in Nat
      /\ \A k \in DOMAIN counters.groups : counters.groups[k] \in Nat
      /\ IsFiniteSet(DOMAIN counters.groups)
    BY DEF StatsInv, StatsTypes
<1>4. counters.calls = Len(recorded) /\ counters.calls = counters.successful + counters.reverts
    <2>1. Cardinality(At(recording, {"outcome"})) = 0
        BY <1>1, <1>2
    <2> QED
        BY <1>3, <2>1 DEF StatsInv, CallsCounted
<1>5. counters.reverts = SumOn(counters.groups, DOMAIN counters.groups)
    <2>1. Cardinality(Failing(recording)) = 0 /\ SumOn(counters.groups, DOMAIN counters.groups) \in Nat
        BY <1>1, <1>2, <1>3, SumIsNat
    <2> QED
        BY <2>1 DEF StatsInv, GroupsCounted
<1>6. ASSUME NEW k \in DOMAIN counters.groups
      PROVE  counters.groups[k] = Cardinality({i \in DOMAIN recorded : k \in Classify(recorded[i])})
    <2>1. Cardinality(Holding(recording, k)) = 0
        BY <1>1, <1>2
    <2>2. CountIn(counters.groups, k) = counters.groups[k] /\ counters.groups[k] \in Nat
        BY <1>3 DEF CountIn
    <2>3. counters.groups[k] + 0 = Cardinality(WithKey(recorded, k))
        BY <2>1, <2>2 DEF StatsInv, GroupsCounted
    <2> QED
        BY <2>2, <2>3 DEF WithKey
<1>7. PICK n \in Nat : /\ n + Cardinality(At(recording, {"time"})) = counters.calls
                       /\ n * counters.min <= counters.total /\ counters.total <= n * counters.max
    BY DEF StatsInv, TimesCounted
<1>8. n = counters.calls
    BY <1>1, <1>2, <1>7
<1>9. /\ Snapshot.calls = counters.calls /\ Snapshot.successful = counters.successful
      /\ Snapshot.reverts = counters.reverts /\ Snapshot.groups = counters.groups
      /\ Snapshot.max = counters.max
      /\ Snapshot.min = IF counters.calls = 0 THEN 0 ELSE counters.min
      /\ Snapshot.avg = IF counters.calls = 0 THEN 0 ELSE counters.total \div counters.calls
    BY DEF Snapshot
<1>10. Snapshot.min <= Snapshot.avg /\ Snapshot.avg <= Snapshot.max
    <2>1. CASE counters.calls = 0
        BY <1>3, <1>9, <2>1
    <2>2. CASE counters.calls # 0
        <3>1. /\ counters.min <= counters.total \div counters.calls
              /\ counters.total \div counters.calls <= counters.max
            BY <1>3, <1>7, <1>8, <2>2, MeanBetween
        <3> QED
            BY <1>9, <2>2, <3>1
    <2> QED
        BY <2>1, <2>2
<1> QED
    BY <1>4, <1>5, <1>6, <1>9, <1>10 DEF SumOn

-----------------------------------------------------------------------------
(* How the revert of a result is read *)

\* What is known of an output.
LEMMA OutputIs ==
    ASSUME NEW o, Wellformed(o)
    PROVE  /\ o.halt \in BOOLEAN /\ o.decodes \in BOOLEAN /\ o.len \in Nat
           /\ (o.halt => o.len = 0) /\ (o.len < 4 <=> o.sel = NoText) /\ (o.decodes => o.len >= 4)
BY DEF Wellformed

\* What a revert is counted as, in each case.
ReadAs(o) ==
    \/ o.halt /\ Reading(o) = Key("Halt", NoText)
    \/ ~o.halt /\ o.len = 0 /\ Reading(o) = Key("EmptyRevert", NoText)
    \/ /\ ~o.halt /\ o.len # 0 /\ o.sel = "BrokenInvariantError" /\ o.decodes /\ o.id # NoText
       /\ Reading(o) = Key("BrokenInvariantError", o.id)
    \/ ~o.halt /\ o.len # 0 /\ o.sel = "Error" /\ o.decodes /\ Reading(o) = Key("Error", o.id)
    \/ ~o.halt /\ o.len # 0 /\ o.sel = "Panic" /\ o.decodes /\ Reading(o) = Key("Panic", o.id)
    \/ /\ ~o.halt /\ o.len >= 4 /\ ~(o.sel = "Error" /\ o.decodes) /\ ~(o.sel = "Panic" /\ o.decodes)
       /\ ~(o.sel = "BrokenInvariantError" /\ o.decodes /\ o.id # NoText)
       /\ Reading(o) = Key("CustomError", o.sel)
    \/ ~o.halt /\ o.len # 0 /\ o.len < 4 /\ Reading(o) = Key("UnknownRevert", o.id)

LEMMA ReadingIs ==
    ASSUME NEW o, Wellformed(o)
    PROVE  ReadAs(o)
<1>1. /\ o.halt \in BOOLEAN /\ o.decodes \in BOOLEAN /\ o.len \in Nat
      /\ (o.halt => o.len = 0) /\ (o.len < 4 <=> o.sel = NoText) /\ (o.decodes => o.len >= 4)
    BY OutputIs
<1>2. CASE o.halt
    BY <1>2 DEF ReadAs, Reading
<1>3. CASE ~o.halt /\ o.len = 0
    BY <1>3 DEF ReadAs, Reading
<1>4. CASE ~o.halt /\ o.len # 0 /\ o.sel = "BrokenInvariantError" /\ o.decodes /\ o.id # NoText
    BY <1>4 DEF ReadAs, Reading
<1>5. CASE ~o.halt /\ o.len # 0 /\ o.sel = "Error" /\ o.decodes
    BY <1>5 DEF ReadAs, Reading
<1>6. CASE ~o.halt /\ o.len # 0 /\ o.sel = "Panic" /\ o.decodes
    BY <1>6 DEF ReadAs, Reading
<1>7. CASE /\ ~o.halt /\ o.len # 0 /\ ~(o.sel = "Error" /\ o.decodes) /\ ~(o.sel = "Panic" /\ o.decodes)
           /\ ~(o.sel = "BrokenInvariantError" /\ o.decodes /\ o.id # NoText)
    <2>1. CASE o.len >= 4
        BY <1>7, <2>1 DEF ReadAs, Reading
    <2>2. CASE o.len < 4
        BY <1>1, <1>7, <2>2 DEF ReadAs, Reading
    <2>3. o.len >= 4 \/ o.len < 4
        BY <1>1
    <2> QED
        BY <2>1, <2>2, <2>3
<1> QED
    BY <1>1, <1>2, <1>3, <1>4, <1>5, <1>6, <1>7

\* The campaign reports what is counted as a broken invariant.
LEMMA BrokenIsReported ==
    ASSUME NEW o, Wellformed(o)
    PROVE  (Reading(o).kind = "BrokenInvariantError") <=> FromRevert(o) = {Reading(o).data}
<1>1. FromRevert(o) = IF o.sel = "BrokenInvariantError" /\ o.decodes /\ o.id # NoText THEN {o.id} ELSE {}
    BY DEF FromRevert
<1>0. /\ o.halt \in BOOLEAN /\ o.decodes \in BOOLEAN /\ o.len \in Nat
      /\ (o.halt => o.len = 0) /\ (o.len < 4 <=> o.sel = NoText) /\ (o.decodes => o.len >= 4)
      /\ ReadAs(o)
    BY OutputIs, ReadingIs
<1> QED
    BY <1>0, <1>1 DEF ReadAs, Key

\* The trace prints what the statistics show.
LEMMA TraceShows ==
    ASSUME NEW o, Wellformed(o)
    PROVE  LET key == Reading(o)
           IN  CASE Shows(key) = "report" -> DecodeRevert(o) \in {"named", "bytes"}
                 [] Shows(key) = "selector" -> DecodeRevert(o) = "bytes"
                 [] OTHER -> DecodeRevert(o) = Shows(key)
<1>8. NoText \notin KnownErrors
    BY StatsAssumption
<1>0. /\ o.halt \in BOOLEAN /\ o.decodes \in BOOLEAN /\ o.len \in Nat
      /\ (o.halt => o.len = 0) /\ (o.len < 4 <=> o.sel = NoText) /\ (o.decodes => o.len >= 4)
      /\ ReadAs(o)
    BY OutputIs, ReadingIs
<1>1. CASE Reading(o).kind \in {"Halt", "EmptyRevert"}
    <2>1. DecodeRevert(o) = "reverted"
        BY <1>1, <1>0 DEF ReadAs, Key, DecodeRevert
    <2>2. Shows(Reading(o)) = "reverted"
        BY <1>1 DEF Shows
    <2> QED
        BY <2>1, <2>2
<1>2. CASE Reading(o).kind = "BrokenInvariantError"
    <2>1. DecodeRevert(o) \in {"named", "bytes"}
        BY <1>2, <1>0 DEF ReadAs, Key, DecodeRevert
    <2>2. Shows(Reading(o)) = "report"
        BY <1>2 DEF Shows
    <2> QED
        BY <2>1, <2>2
<1>3. CASE Reading(o).kind = "Error"
    <2>1. DecodeRevert(o) = "message"
        BY <1>3, <1>0 DEF ReadAs, Key, DecodeRevert
    <2>2. Shows(Reading(o)) = "message"
        BY <1>3 DEF Shows
    <2> QED
        BY <2>1, <2>2
<1>4. CASE Reading(o).kind = "Panic"
    <2>1. DecodeRevert(o) = "panic"
        BY <1>4, <1>0 DEF ReadAs, Key, DecodeRevert
    <2>2. Shows(Reading(o)) = "panic"
        BY <1>4 DEF Shows
    <2> QED
        BY <2>1, <2>2
<1>5. CASE Reading(o).kind = "CustomError"
    <2>1. DecodeRevert(o) = IF o.sel \in KnownErrors THEN "named" ELSE "bytes"
        BY <1>5, <1>0 DEF ReadAs, Key, DecodeRevert
    <2>2. Reading(o).data = o.sel
        BY <1>5, <1>0 DEF ReadAs, Key
    <2>3. Shows(Reading(o)) = IF o.sel \in KnownErrors THEN "named" ELSE "selector"
        BY <1>5, <2>2 DEF Shows
    <2> QED
        BY <2>1, <2>3
<1>6. CASE Reading(o).kind = "UnknownRevert"
    <2>1. DecodeRevert(o) = "bytes"
        BY <1>8, <1>6, <1>0 DEF ReadAs, Key, DecodeRevert
    <2>2. Shows(Reading(o)) = "bytes"
        BY <1>6 DEF Shows
    <2> QED
        BY <2>1, <2>2
<1>7. Reading(o).kind \in {"Halt", "EmptyRevert", "BrokenInvariantError", "Error", "Panic",
                           "CustomError", "UnknownRevert"}
    BY <1>0 DEF ReadAs, Key
<1> QED
    BY <1>1, <1>2, <1>3, <1>4, <1>5, <1>6, <1>7

\* A replayed output has the id of a finding exactly when it counts as it.
LEMMA IdsAgree ==
    ASSUME NEW o, Wellformed(o), NEW q, Wellformed(q)
    PROVE  /\ IsPanic(o) => (MatchesPanic(q, PanicId(o)) <=> PanicId(q) = PanicId(o))
           /\ MatchesRevert(q, RevertId(o)) <=> RevertId(q) = RevertId(o)
<1>1. IsPanic(o) => (MatchesPanic(q, PanicId(o)) <=> PanicId(q) = PanicId(o))
    BY DEF IsPanic, MatchesPanic, PanicId
<1>2. MatchesRevert(q, RevertId(o)) <=> RevertId(q) = RevertId(o)
    <2>1. /\ o.halt \in BOOLEAN /\ o.len \in Nat /\ (o.halt => o.len = 0)
          /\ q.halt \in BOOLEAN /\ q.len \in Nat /\ (q.halt => q.len = 0)
        BY OutputIs
    <2>2. CASE o.halt
        BY <2>1, <2>2 DEF MatchesRevert, RevertId
    <2>3. CASE ~o.halt /\ o.len >= 4
        BY <2>1, <2>3 DEF MatchesRevert, RevertId
    <2>4. CASE ~o.halt /\ o.len = 0
        BY <2>1, <2>4 DEF MatchesRevert, RevertId
    <2>5. CASE ~o.halt /\ o.len \in 1 .. 3
        BY <2>1, <2>5 DEF MatchesRevert, RevertId
    <2>6. o.len >= 4 \/ o.len = 0 \/ o.len \in 1 .. 3
        BY <2>1
    <2> QED
        BY <2>1, <2>2, <2>3, <2>4, <2>5, <2>6
<1> QED
    BY <1>1, <1>2

LEMMA RecordedAgree == StatsInv => RevertsAgree
<1> SUFFICES ASSUME StatsInv PROVE RevertsAgree
    OBVIOUS
<1>1. \A i \in DOMAIN recorded : /\ Wellformed(recorded[i].output)
                                 /\ recorded[i].success \in BOOLEAN
    <2>1. \A i \in DOMAIN recorded : recorded[i] \in Results
        BY DEF StatsInv, StatsTypes
    <2> QED
        BY <2>1, StatsAssumption
<1>2. ReportsAgree
    <2> SUFFICES ASSUME NEW i \in DOMAIN recorded, NEW key \in Classify(recorded[i])
                 PROVE  LET o == recorded[i].output
                        IN  /\ (key.kind = "BrokenInvariantError") <=> FromRevert(o) = {key.data}
                            /\ CASE Shows(key) = "report" -> DecodeRevert(o) \in {"named", "bytes"}
                                 [] Shows(key) = "selector" -> DecodeRevert(o) = "bytes"
                                 [] OTHER -> DecodeRevert(o) = Shows(key)
        BY DEF ReportsAgree
    <2>1. key = Reading(recorded[i].output)
        BY DEF Classify
    <2> QED
        BY <1>1, <2>1, BrokenIsReported, TraceShows
<1>3. FindingsKeepTheirId
    <2> SUFFICES ASSUME NEW i \in DOMAIN recorded, NEW j \in DOMAIN recorded, NEW filter \in Filters,
                        Matches(filter, recorded[i])
                 PROVE  MatchesExpected(recorded[j], FindingId(filter, recorded[i]))
                        <=> ~recorded[j].success
                            /\ FindingId(filter, recorded[j]) = FindingId(filter, recorded[i])
        BY DEF FindingsKeepTheirId
    <2>1. PICK o, q : o = recorded[i].output /\ q = recorded[j].output
        OBVIOUS
    <2>2. Wellformed(o) /\ Wellformed(q)
        BY <1>1, <2>1
    <2>3. CASE filter.kind = "panic"
        <3>1. IsPanic(o)
            BY <2>1, <2>3 DEF Matches
        <3>2. MatchesPanic(q, PanicId(o)) <=> PanicId(q) = PanicId(o)
            BY <2>2, <3>1, IdsAgree
        <3>3. /\ FindingId(filter, recorded[i]) = [kind |-> filter.kind, id |-> PanicId(o)]
              /\ FindingId(filter, recorded[j]) = [kind |-> filter.kind, id |-> PanicId(q)]
            BY <2>1, <2>3 DEF FindingId
        <3>4. MatchesExpected(recorded[j], FindingId(filter, recorded[i]))
                <=> ~recorded[j].success /\ MatchesPanic(q, PanicId(o))
            BY <2>1, <2>3, <3>3 DEF MatchesExpected
        <3> QED
            BY <3>2, <3>3, <3>4
    <2>4. CASE filter.kind # "panic"
        <3>2. MatchesRevert(q, RevertId(o)) <=> RevertId(q) = RevertId(o)
            BY <2>2, IdsAgree
        <3>3. /\ FindingId(filter, recorded[i]) = [kind |-> filter.kind, id |-> RevertId(o)]
              /\ FindingId(filter, recorded[j]) = [kind |-> filter.kind, id |-> RevertId(q)]
            BY <2>1, <2>4 DEF FindingId
        <3>4. MatchesExpected(recorded[j], FindingId(filter, recorded[i]))
                <=> ~recorded[j].success /\ MatchesRevert(q, RevertId(o))
            BY <2>1, <2>4, <3>3 DEF MatchesExpected
        <3> QED
            BY <3>2, <3>3, <3>4
    <2> QED
        BY <2>3, <2>4
<1> QED
    BY <1>2, <1>3 DEF RevertsAgree

\* The saved statistics add up, and say of a revert what everyone else says
\* (stats.rs, stop.rs), for any threads, results and filters.
THEOREM StatisticsAreSound == StatsSpec => []StatsSound
<1>1. StatsInv => StatsSound
    BY CountersAddUp, RecordedAgree DEF StatsSound
<1> QED
    BY StatsStart, StatsStep, <1>1, PTL DEF StatsSpec

-----------------------------------------------------------------------------
(***************************************************************************)
(* The labels of a trace.                                                  *)
(***************************************************************************)

\* The labels after the first n frames of a root, and after the first n roots.
PassUpto(pass, labels, root) ==
    CHOOSE upto : upto = [n \in 0 .. Len(root) |->
                             IF n = 0 THEN labels ELSE Labelled(pass, upto[n - 1], root[n])]
CollectUpto(tr) ==
    CHOOSE upto : upto = [n \in 0 .. Len(tr) |->
                             IF n = 0 THEN NoLabels ELSE CollectRoot(upto[n - 1], tr[n])]

\* A pass goes over the frames one by one.
LEMMA PassSteps ==
    ASSUME NEW pass, NEW labels, NEW root, Len(root) \in Nat
    PROVE  /\ PassUpto(pass, labels, root)[0] = labels
           /\ \A n \in 1 .. Len(root) :
                 PassUpto(pass, labels, root)[n] = Labelled(pass, PassUpto(pass, labels, root)[n - 1], root[n])
           /\ Pass(pass, labels, root) = PassUpto(pass, labels, root)[Len(root)]
<1> DEFINE L == Len(root)
           Collects(s, m) == s = [n \in 0 .. m |-> IF n = 0 THEN labels ELSE Labelled(pass, s[n - 1], root[n])]
           S == {m \in 0 .. L : \E s : Collects(s, m)}
<1>1. 0 \in S
    <2>1. Collects([k \in 0 .. 0 |-> labels], 0)
        OBVIOUS
    <2> HIDE DEF Collects
    <2> QED
        BY <2>1
<1>2. ASSUME NEW m \in 1 .. L, m - 1 \in S
      PROVE  m \in S
    <2>1. PICK s : Collects(s, m - 1)
        BY <1>2
    <2> DEFINE t == [k \in 0 .. m |-> IF k < m THEN s[k] ELSE Labelled(pass, s[m - 1], root[m])]
    <2>2. \A k \in 0 .. m : t[k] = IF k = 0 THEN labels ELSE Labelled(pass, t[k - 1], root[k])
        <3> TAKE k \in 0 .. m
        <3>1. k # 0 => t[k - 1] = s[k - 1]
            OBVIOUS
        <3>2. k < m => s[k] = IF k = 0 THEN labels ELSE Labelled(pass, s[k - 1], root[k])
            BY <2>1
        <3> QED
            BY <3>1, <3>2
    <2>3. Collects(t, m)
        BY <2>2
    <2>4. m \in 0 .. L
        OBVIOUS
    <2> HIDE DEF t, Collects
    <2> QED
        BY <2>3, <2>4
<1> HIDE DEF S
<1>3. \A m \in 0 .. L : m \in S
    BY <1>1, <1>2, InductionUpTo
<1>4. \E s : Collects(s, L)
    BY <1>3 DEF S
<1>5. Collects(PassUpto(pass, labels, root), L)
    BY <1>4, Zenon DEF PassUpto
<1>6. Pass(pass, labels, root) = PassUpto(pass, labels, root)[Len(root)]
    BY DEF Pass, PassUpto
<1> QED
    BY <1>5, <1>6

\* The roots are collected one by one.
LEMMA CollectSteps ==
    ASSUME NEW tr, Len(tr) \in Nat
    PROVE  /\ CollectUpto(tr)[0] = NoLabels
           /\ \A n \in 1 .. Len(tr) :
                 CollectUpto(tr)[n] = CollectRoot(CollectUpto(tr)[n - 1], tr[n])
           /\ Collect(tr) = CollectUpto(tr)[Len(tr)]
<1> DEFINE L == Len(tr)
           Collects(s, m) == s = [n \in 0 .. m |-> IF n = 0 THEN NoLabels ELSE CollectRoot(s[n - 1], tr[n])]
           S == {m \in 0 .. L : \E s : Collects(s, m)}
<1>1. 0 \in S
    <2>1. Collects([k \in 0 .. 0 |-> NoLabels], 0)
        OBVIOUS
    <2> HIDE DEF Collects
    <2> QED
        BY <2>1
<1>2. ASSUME NEW m \in 1 .. L, m - 1 \in S
      PROVE  m \in S
    <2>1. PICK s : Collects(s, m - 1)
        BY <1>2
    <2> DEFINE t == [k \in 0 .. m |-> IF k < m THEN s[k] ELSE CollectRoot(s[m - 1], tr[m])]
    <2>2. \A k \in 0 .. m : t[k] = IF k = 0 THEN NoLabels ELSE CollectRoot(t[k - 1], tr[k])
        <3> TAKE k \in 0 .. m
        <3>1. k # 0 => t[k - 1] = s[k - 1]
            OBVIOUS
        <3>2. k < m => s[k] = IF k = 0 THEN NoLabels ELSE CollectRoot(s[k - 1], tr[k])
            BY <2>1
        <3> QED
            BY <3>1, <3>2
    <2>3. Collects(t, m)
        BY <2>2
    <2>4. m \in 0 .. L
        OBVIOUS
    <2> HIDE DEF t, Collects
    <2> QED
        BY <2>3, <2>4
<1> HIDE DEF S
<1>3. \A m \in 0 .. L : m \in S
    BY <1>1, <1>2, InductionUpTo
<1>4. \E s : Collects(s, L)
    BY <1>3 DEF S
<1>5. Collects(CollectUpto(tr), L)
    BY <1>4, Zenon DEF CollectUpto
<1>6. Collect(tr) = CollectUpto(tr)[Len(tr)]
    BY DEF Collect, CollectUpto
<1> QED
    BY <1>5, <1>6

-----------------------------------------------------------------------------
(* What a pass keeps.                                                      *)

Texts == {NoName} \union {ContextLabels[a] : a \in Places} \union {f.named : f \in Frames}
         \union {f.label[2] : f \in Frames}
Labelings == [Places -> Texts]

\* The labelings that give the address one of some names.
Naming(a, V) == {l \in Labelings : l[a] \in V}

Keeps(pass, frame, a, V) == \A l \in Naming(a, V) : Labelled(pass, l, frame) \in Naming(a, V)

\* A frame leaves labels behind.
LEMMA LabelledType ==
    ASSUME NEW l \in Labelings, NEW frame \in Frames, NEW pass \in {"create", "vm", "code"}
    PROVE  Labelled(pass, l, frame) \in Labelings
<1>0. /\ frame.kind = "create" => frame.addr = NoAddress \/ frame.addr \in Places
      /\ frame.kind # "create" => frame.codeAddr \in Places
      /\ frame.label # <<>> => frame.label[1] \in Places
    BY LabelsAssumption
<1>1. frame.named \in Texts /\ frame.label[2] \in Texts
    BY DEF Texts
<1>2. \A p \in Places : ContextLabels[p] \in Texts
    BY DEF Texts
<1>3. \A p \in Places, t \in Texts : [l EXCEPT ![p] = t] \in Labelings
    BY DEF Labelings
<1>4. \A p \in Places : l[p] \in Texts
    BY DEF Labelings
<1>5. CreateLabels(l, frame) \in Labelings
    BY <1>0, <1>1, <1>2, <1>3, <1>4 DEF CreateLabels
<1>6. VmLabels(l, frame) \in Labelings
    BY <1>0, <1>1, <1>3 DEF VmLabels
<1>7. CodeLabels(l, frame) \in Labelings
    BY <1>0, <1>1, <1>3 DEF CodeLabels
<1> QED
    BY <1>5, <1>6, <1>7 DEF Labelled

\* What every frame behind a position keeps, the pass ends with.
LEMMA PassFrom ==
    ASSUME NEW pass \in {"create", "vm", "code"}, NEW labels, NEW root \in Seq(Frames),
           NEW a \in Places, NEW V, NEW k \in 0 .. Len(root),
           PassUpto(pass, labels, root)[k] \in Naming(a, V),
           \A n \in k + 1 .. Len(root) : Keeps(pass, root[n], a, V)
    PROVE  Pass(pass, labels, root) \in Naming(a, V)
<1> DEFINE L == Len(root)
           U == PassUpto(pass, labels, root)
           S == {n \in 0 .. L : n >= k => U[n] \in Naming(a, V)}
<1>0. /\ L \in Nat /\ Pass(pass, labels, root) = U[L]
      /\ \A n \in 1 .. L : U[n] = Labelled(pass, U[n - 1], root[n])
    BY PassSteps
<1>a. U[k] \in Naming(a, V)
    OBVIOUS
<1> HIDE DEF U
<1>1. 0 \in S
    BY <1>0, <1>a
<1>2. ASSUME NEW n \in 1 .. L, n - 1 \in S PROVE n \in S
    <2>1. CASE n <= k
        BY <2>1, <1>a
    <2>2. CASE n > k
        <3>1. U[n - 1] \in Naming(a, V)
            BY <1>2, <2>2
        <3>2. Keeps(pass, root[n], a, V)
            BY <2>2
        <3>3. Labelled(pass, U[n - 1], root[n]) \in Naming(a, V)
            BY <3>1, <3>2, Zenon DEF Keeps
        <3> QED
            BY <1>0, <3>3
    <2> QED
        BY <2>1, <2>2
<1> HIDE DEF S
<1>3. \A n \in 0 .. L : n \in S
    BY <1>0, <1>1, <1>2, InductionUpTo
<1> QED
    BY <1>0, <1>3 DEF S

\* The same for the roots.
LEMMA CollectFrom ==
    ASSUME NEW tr \in Seq(Seq(Frames)), NEW a \in Places, NEW V, NEW k \in 0 .. Len(tr),
           CollectUpto(tr)[k] \in Naming(a, V),
           \A n \in k + 1 .. Len(tr) : \A l \in Naming(a, V) : CollectRoot(l, tr[n]) \in Naming(a, V)
    PROVE  Collect(tr) \in Naming(a, V)
<1> DEFINE L == Len(tr)
           U == CollectUpto(tr)
           S == {n \in 0 .. L : n >= k => U[n] \in Naming(a, V)}
<1>0. /\ L \in Nat /\ Collect(tr) = U[L]
      /\ \A n \in 1 .. L : U[n] = CollectRoot(U[n - 1], tr[n])
    BY CollectSteps
<1>a. U[k] \in Naming(a, V)
    OBVIOUS
<1> HIDE DEF U
<1>1. 0 \in S
    BY <1>0, <1>a
<1>2. ASSUME NEW n \in 1 .. L, n - 1 \in S PROVE n \in S
    <2>1. CASE n <= k
        BY <2>1, <1>a
    <2>2. CASE n > k
        <3>1. U[n - 1] \in Naming(a, V)
            BY <1>2, <2>2
        <3>3. CollectRoot(U[n - 1], tr[n]) \in Naming(a, V)
            BY <3>1, <2>2
        <3> QED
            BY <1>0, <3>3
    <2> QED
        BY <2>1, <2>2
<1> HIDE DEF S
<1>3. \A n \in 0 .. L : n \in S
    BY <1>0, <1>1, <1>2, InductionUpTo
<1> QED
    BY <1>0, <1>3 DEF S

\* A pass all of whose frames keep a set of names keeps it.
LEMMA PassKeeps ==
    ASSUME NEW pass \in {"create", "vm", "code"}, NEW root \in Seq(Frames),
           NEW a \in Places, NEW V, NEW labels \in Naming(a, V),
           \A n \in 1 .. Len(root) : Keeps(pass, root[n], a, V)
    PROVE  Pass(pass, labels, root) \in Naming(a, V)
<1>1. PassUpto(pass, labels, root)[0] \in Naming(a, V)
    BY PassSteps
<1>2. 0 \in 0 .. Len(root) /\ \A n \in 0 + 1 .. Len(root) : Keeps(pass, root[n], a, V)
    OBVIOUS
<1> QED
    BY <1>1, <1>2, PassFrom

\* Labels stay labels, in a pass and in a trace.
LEMMA PassType ==
    ASSUME NEW pass \in {"create", "vm", "code"}, NEW root \in Seq(Frames), NEW labels \in Labelings
    PROVE  /\ Pass(pass, labels, root) \in Labelings
           /\ \A k \in 0 .. Len(root) : PassUpto(pass, labels, root)[k] \in Labelings
<1> DEFINE L == Len(root)
           U == PassUpto(pass, labels, root)
           S == {n \in 0 .. L : U[n] \in Labelings}
<1>0. /\ L \in Nat /\ U[0] = labels /\ Pass(pass, labels, root) = U[L]
      /\ \A n \in 1 .. L : U[n] = Labelled(pass, U[n - 1], root[n])
    BY PassSteps
<1> HIDE DEF U
<1>1. 0 \in S
    BY <1>0
<1>2. ASSUME NEW n \in 1 .. L, n - 1 \in S PROVE n \in S
    <2>1. U[n - 1] \in Labelings /\ root[n] \in Frames
        BY <1>2
    <2>2. Labelled(pass, U[n - 1], root[n]) \in Labelings
        BY <2>1, LabelledType
    <2> QED
        BY <1>0, <2>2
<1> HIDE DEF S
<1>3. \A n \in 0 .. L : n \in S
    BY <1>0, <1>1, <1>2, InductionUpTo
<1> QED
    BY <1>0, <1>3 DEF S, U

LEMMA CollectType ==
    ASSUME NEW tr \in Seq(Seq(Frames))
    PROVE  \A k \in 0 .. Len(tr) : CollectUpto(tr)[k] \in Labelings
<1> DEFINE L == Len(tr)
           U == CollectUpto(tr)
           S == {n \in 0 .. L : U[n] \in Labelings}
<1>0. /\ L \in Nat /\ U[0] = NoLabels
      /\ \A n \in 1 .. L : U[n] = CollectRoot(U[n - 1], tr[n])
    BY CollectSteps
<1> HIDE DEF U
<1>1. 0 \in S
    BY <1>0 DEF NoLabels, Labelings, Texts
<1>2. ASSUME NEW n \in 1 .. L, n - 1 \in S PROVE n \in S
    <2>1. U[n - 1] \in Labelings /\ tr[n] \in Seq(Frames)
        BY <1>2
    <2>2. CollectRoot(U[n - 1], tr[n]) \in Labelings
        BY <2>1, PassType DEF CollectRoot
    <2> QED
        BY <1>0, <2>2
<1> HIDE DEF S
<1>3. \A n \in 0 .. L : n \in S
    BY <1>0, <1>1, <1>2, InductionUpTo
<1> QED
    BY <1>3 DEF S, U

-----------------------------------------------------------------------------
(* What a frame keeps of the labels of an address.                         *)

\* Some frame of the root labels the address, or creates it.
LabelIn(root, a) == \E n \in 1 .. Len(root) : root[n].label # <<>> /\ root[n].label[1] = a
CreateIn(root, a) == \E n \in 1 .. Len(root) : root[n].kind = "create" /\ root[n].addr = a

\* A label is kept by what neither labels nor creates the address.
LEMMA KeepsLabel ==
    ASSUME NEW frame \in Frames, NEW a \in Places, NEW t, t # NoName
    PROVE  /\ ~(frame.kind = "create" /\ frame.addr = a) => Keeps("create", frame, a, {t})
           /\ ~(frame.label # <<>> /\ frame.label[1] = a) => Keeps("vm", frame, a, {t})
           /\ Keeps("code", frame, a, {t})
<1>0. /\ frame.kind = "create" => frame.addr = NoAddress \/ frame.addr \in Places
      /\ frame.kind # "create" => frame.codeAddr \in Places
      /\ frame.label # <<>> => frame.label[1] \in Places
    BY LabelsAssumption
<1>1. ASSUME NEW l \in Naming(a, {t})
      PROVE  /\ ~(frame.kind = "create" /\ frame.addr = a) => CreateLabels(l, frame)[a] = t
             /\ ~(frame.label # <<>> /\ frame.label[1] = a) => VmLabels(l, frame)[a] = t
             /\ CodeLabels(l, frame)[a] = t
    <2>0. l \in Labelings /\ l[a] = t
        BY DEF Naming
    <2>1. \A p \in Places : \A x : p # a => [l EXCEPT ![p] = x][a] = t
        BY <2>0 DEF Labelings
    <2>2. ~(frame.kind = "create" /\ frame.addr = a) => CreateLabels(l, frame)[a] = t
        BY <1>0, <2>0, <2>1 DEF CreateLabels
    <2>3. ~(frame.label # <<>> /\ frame.label[1] = a) => VmLabels(l, frame)[a] = t
        BY <1>0, <2>0, <2>1 DEF VmLabels
    <2>4. CodeLabels(l, frame)[a] = t
        BY <1>0, <2>0, <2>1 DEF CodeLabels
    <2> QED
        BY <2>2, <2>3, <2>4
<1>2. ASSUME NEW l \in Naming(a, {t}), NEW pass \in {"create", "vm", "code"}, Labelled(pass, l, frame)[a] = t
      PROVE  Labelled(pass, l, frame) \in Naming(a, {t})
    BY <1>2, LabelledType DEF Naming
<1>3. \A l : /\ Labelled("create", l, frame) = CreateLabels(l, frame)
             /\ Labelled("vm", l, frame) = VmLabels(l, frame)
             /\ Labelled("code", l, frame) = CodeLabels(l, frame)
    BY DEF Labelled
<1> QED
    BY <1>1, <1>2, <1>3 DEF Keeps

\* So a root that does neither keeps it.
LEMMA RootKeepsLabel ==
    ASSUME NEW root \in Seq(Frames), NEW a \in Places, NEW t, t # NoName, NEW l \in Naming(a, {t}),
           ~LabelIn(root, a), ~CreateIn(root, a)
    PROVE  CollectRoot(l, root) \in Naming(a, {t})
<1>1. \A n \in 1 .. Len(root) : /\ Keeps("create", root[n], a, {t})
                                /\ Keeps("vm", root[n], a, {t})
                                /\ Keeps("code", root[n], a, {t})
    <2> TAKE n \in 1 .. Len(root)
    <2>1. root[n] \in Frames
        OBVIOUS
    <2> QED
        BY <2>1, KeepsLabel DEF LabelIn, CreateIn
<1> DEFINE c == Pass("create", l, root)
           v == Pass("vm", c, root)
<1>2. c \in Naming(a, {t})
    BY <1>1, PassKeeps
<1> HIDE DEF c
<1>3. v \in Naming(a, {t})
    BY <1>1, <1>2, PassKeeps
<1> HIDE DEF v
<1>4. Pass("code", v, root) \in Naming(a, {t})
    BY <1>1, <1>3, PassKeeps
<1> QED
    BY <1>4 DEF CollectRoot, c, v

\* The last label of a root is the one it leaves.
LEMMA RootLabels ==
    ASSUME NEW root \in Seq(Frames), NEW a \in Places, NEW l \in Labelings, NEW i \in 1 .. Len(root),
           root[i].label # <<>>, root[i].label[1] = a,
           \A n \in i + 1 .. Len(root) : ~(root[n].label # <<>> /\ root[n].label[1] = a)
    PROVE  CollectRoot(l, root) \in Naming(a, {root[i].label[2]})
<1> DEFINE t == root[i].label[2]
           c == Pass("create", l, root)
           U == PassUpto("vm", c, root)
           v == Pass("vm", c, root)
<1>0. root[i] \in Frames /\ t # NoName /\ t \in Texts
    BY LabelsAssumption DEF Texts
<1>1. c \in Labelings
    BY PassType
<1> HIDE DEF c
<1>2. U[i - 1] \in Labelings /\ U[i] \in Labelings
    BY <1>1, PassType
<1>3. U[i] = Labelled("vm", U[i - 1], root[i])
    BY PassSteps
<1> HIDE DEF U
<1>4. U[i] = [U[i - 1] EXCEPT ![a] = t]
    BY <1>3 DEF Labelled, VmLabels
<1>5. U[i] \in Naming(a, {t})
    BY <1>2, <1>4 DEF Naming, Labelings
<1> HIDE DEF t
<1>6. \A n \in i + 1 .. Len(root) : Keeps("vm", root[n], a, {t})
    <2> TAKE n \in i + 1 .. Len(root)
    <2>1. root[n] \in Frames
        OBVIOUS
    <2> QED
        BY <1>0, <2>1, KeepsLabel
<1>7. v \in Naming(a, {t})
    <2>1. i \in 0 .. Len(root) /\ PassUpto("vm", c, root)[i] \in Naming(a, {t})
        BY <1>5 DEF U
    <2> QED
        BY <2>1, <1>6, PassFrom
<1>8. \A n \in 1 .. Len(root) : Keeps("code", root[n], a, {t})
    <2> TAKE n \in 1 .. Len(root)
    <2>1. root[n] \in Frames
        OBVIOUS
    <2> QED
        BY <1>0, <2>1, KeepsLabel
<1> HIDE DEF v
<1>9. Pass("code", v, root) \in Naming(a, {t})
    BY <1>7, <1>8, PassKeeps
<1> QED
    BY <1>9 DEF CollectRoot, c, v, t

\* Where the frames of a trace are.
LEMMA PositionsAre ==
    ASSUME NEW tr \in Seq(Seq(Frames)), NEW p
    PROVE  p \in Positions(tr) <=> \E j \in 1 .. Len(tr) : \E i \in 1 .. Len(tr[j]) : p = <<j, i>>
<1>1. DOMAIN tr = 1 .. Len(tr) /\ \A j \in 1 .. Len(tr) : DOMAIN tr[j] = 1 .. Len(tr[j])
    OBVIOUS
<1>2. p \in Positions(tr) <=> \E j \in DOMAIN tr : \E i \in DOMAIN tr[j] : p = <<j, i>>
    <2> DEFINE Row(j) == {<<j, i>> : i \in DOMAIN tr[j]}
    <2>1. p \in Positions(tr) <=> \E j \in DOMAIN tr : p \in Row(j)
        <3> HIDE DEF Row
        <3>1. Positions(tr) = UNION {Row(j) : j \in DOMAIN tr}
            BY DEF Positions, Row
        <3> QED
            BY <3>1
    <2> QED
        BY <2>1
<1> QED
    BY <1>1, <1>2

\* The last label of a trace is the one it leaves, if nothing creates the
\* address later.
LEMMA TraceNamesLabelled ==
    ASSUME NEW tr \in Seq(Seq(Frames)), NEW a \in Places, NEW p \in Positions(tr),
           LastCall(tr, a, p), ~CreatedLater(tr, a, p)
    PROVE  Collect(tr) \in Naming(a, {tr[p[1]][p[2]].label[2]})
<1>a. PICK j \in 1 .. Len(tr) : \E i \in 1 .. Len(tr[j]) : p = <<j, i>>
    BY PositionsAre
<1>1. PICK i \in 1 .. Len(tr[j]) : p = <<j, i>>
    BY <1>a
<1> DEFINE t == tr[j][i].label[2]
           U == CollectUpto(tr)
<1>2. /\ tr[j] \in Seq(Frames) /\ tr[j][i] \in Frames
      /\ \A k \in 1 .. Len(tr) : tr[k] \in Seq(Frames)
    OBVIOUS
<1>3. tr[j][i].label # <<>> /\ tr[j][i].label[1] = a
    BY <1>1 DEF LastCall, LabelCalls
<1>4. t # NoName
    BY <1>2, <1>3, LabelsAssumption
<1>5. ASSUME NEW k \in 1 .. Len(tr), NEW n \in 1 .. Len(tr[k]), k > j \/ (k = j /\ n > i)
      PROVE  ~(tr[k][n].label # <<>> /\ tr[k][n].label[1] = a)
    <2>1. <<k, n>> \in Positions(tr)
        BY DEF Positions
    <2>2. Before(p, <<k, n>>)
        BY <1>1, <1>5 DEF Before
    <2> QED
        BY <2>1, <2>2 DEF LastCall, LabelCalls
<1>6. ASSUME NEW k \in 1 .. Len(tr), k > j PROVE ~LabelIn(tr[k], a) /\ ~CreateIn(tr[k], a)
    <2>1. ~LabelIn(tr[k], a)
        BY <1>5, <1>6 DEF LabelIn
    <2>2. ASSUME NEW n \in 1 .. Len(tr[k]) PROVE ~(tr[k][n].kind = "create" /\ tr[k][n].addr = a)
        <3>1. <<k, n>> \in Positions(tr)
            BY DEF Positions
        <3> QED
            BY <1>1, <1>6, <3>1 DEF CreatedLater
    <2> QED
        BY <2>1, <2>2 DEF CreateIn
<1>7. U[j] = CollectRoot(U[j - 1], tr[j]) /\ U[j - 1] \in Labelings
    BY CollectSteps, CollectType
<1> HIDE DEF U
<1>8. \A n \in i + 1 .. Len(tr[j]) : ~(tr[j][n].label # <<>> /\ tr[j][n].label[1] = a)
    BY <1>2, <1>5
<1>9. U[j] \in Naming(a, {t})
    BY <1>2, <1>3, <1>7, <1>8, RootLabels
<1> HIDE DEF t
<1>10. \A n \in j + 1 .. Len(tr) : \A l \in Naming(a, {t}) : CollectRoot(l, tr[n]) \in Naming(a, {t})
    <2> TAKE n \in j + 1 .. Len(tr)
    <2>1. n \in 1 .. Len(tr) /\ n > j
        OBVIOUS
    <2>2. tr[n] \in Seq(Frames) /\ ~LabelIn(tr[n], a) /\ ~CreateIn(tr[n], a)
        BY <1>2, <1>6, <2>1
    <2> QED
        BY <1>4, <2>2, RootKeepsLabel
<1>11. Collect(tr) \in Naming(a, {t})
    <2>1. j \in 0 .. Len(tr) /\ CollectUpto(tr)[j] \in Naming(a, {t})
        BY <1>9 DEF U
    <2> QED
        BY <2>1, <1>10, CollectFrom
<1> QED
    BY <1>1, <1>11 DEF t

-----------------------------------------------------------------------------
(* What the code behind an address is named.                               *)

\* All frames with the code of the address name it N.
CodeNamed(a, N) == \A f \in Frames : f.codeAddr = a => f.named = N

\* Without labels, an address has no other name than that of its code.
LEMMA KeepsCode ==
    ASSUME NEW frame \in Frames, NEW a \in Places, NEW N, N # NoName, CodeNamed(a, N),
           ~(frame.label # <<>> /\ frame.label[1] = a), NEW pass \in {"create", "vm", "code"}
    PROVE  Keeps(pass, frame, a, {NoName, N}) /\ Keeps(pass, frame, a, {N})
<1>0. /\ frame.kind = "create" => frame.addr = NoAddress \/ frame.addr \in Places
      /\ frame.kind # "create" => frame.codeAddr \in Places
      /\ frame.kind = "create" => frame.codeAddr = frame.addr
      /\ frame.label # <<>> => frame.label[1] \in Places
      /\ frame.codeAddr = a => frame.named = N
    BY LabelsAssumption DEF CodeNamed
<1>1. ASSUME NEW l \in Labelings
      PROVE  Labelled(pass, l, frame)[a] \in {l[a], N} /\ (l[a] = N => Labelled(pass, l, frame)[a] = N)
    <2>0. \A b \in Places : \A x : [l EXCEPT ![b] = x][a] = IF b = a THEN x ELSE l[a]
        BY DEF Labelings
    <2>1. CreateLabels(l, frame)[a] \in {l[a], N} /\ (l[a] = N => CreateLabels(l, frame)[a] = N)
        BY <1>0, <2>0 DEF CreateLabels
    <2>2. VmLabels(l, frame)[a] = l[a]
        BY <1>0, <2>0 DEF VmLabels
    <2>3. CodeLabels(l, frame)[a] \in {l[a], N} /\ (l[a] = N => CodeLabels(l, frame)[a] = N)
        BY <1>0, <2>0 DEF CodeLabels
    <2> QED
        BY <2>1, <2>2, <2>3 DEF Labelled
<1> QED
    BY <1>1, LabelledType DEF Keeps, Naming

\* So does a root, and one that has a frame with that code names it.
LEMMA RootNames ==
    ASSUME NEW root \in Seq(Frames), NEW a \in Places, NEW N, N # NoName, CodeNamed(a, N),
           ~LabelIn(root, a), ContextLabels[a] = NoName, NEW l \in Naming(a, {NoName, N})
    PROVE  /\ CollectRoot(l, root) \in Naming(a, {NoName, N})
           /\ l \in Naming(a, {N}) => CollectRoot(l, root) \in Naming(a, {N})
           /\ (\E i \in 1 .. Len(root) : root[i].codeAddr = a) => CollectRoot(l, root) \in Naming(a, {N})
<1>1. \A n \in 1 .. Len(root), pass \in {"create", "vm", "code"} :
         Keeps(pass, root[n], a, {NoName, N}) /\ Keeps(pass, root[n], a, {N})
    BY KeepsCode DEF LabelIn
<1> DEFINE c == Pass("create", l, root)
           v == Pass("vm", c, root)
           w == Pass("code", v, root)
<1>2. CollectRoot(l, root) = w
    BY DEF CollectRoot
<1>3. c \in Naming(a, {NoName, N}) /\ (l \in Naming(a, {N}) => c \in Naming(a, {N}))
    BY <1>1, PassKeeps
<1>4. v \in Naming(a, {NoName, N}) /\ (c \in Naming(a, {N}) => v \in Naming(a, {N}))
    <2> HIDE DEF c
    <2> QED
        BY <1>1, <1>3, PassKeeps
<1>5. w \in Naming(a, {NoName, N}) /\ (v \in Naming(a, {N}) => w \in Naming(a, {N}))
    <2> HIDE DEF v
    <2> QED
        BY <1>1, <1>4, PassKeeps
<1>6. ASSUME NEW i \in 1 .. Len(root), root[i].codeAddr = a PROVE w \in Naming(a, {N})
    <2>0. /\ root[i] \in Frames /\ root[i].named = N /\ a # NoAddress
          /\ root[i].kind = "create" => root[i].addr = a
        BY <1>6, LabelsAssumption DEF CodeNamed
    <2>1. CASE root[i].kind = "create"
        <3> DEFINE U == PassUpto("create", l, root)
        <3>1. U[i] = Labelled("create", U[i - 1], root[i]) /\ U[i - 1] \in Labelings /\ U[i] \in Labelings
            BY PassSteps, PassType DEF Naming
        <3> HIDE DEF U
        <3>2. U[i] = [U[i - 1] EXCEPT ![a] = N]
            BY <2>0, <2>1, <3>1 DEF Labelled, CreateLabels
        <3>3. U[i] \in Naming(a, {N})
            BY <3>1, <3>2 DEF Naming, Labelings
        <3>4. \A n \in i + 1 .. Len(root) : Keeps("create", root[n], a, {N})
            <4> TAKE n \in i + 1 .. Len(root)
            <4>1. n \in 1 .. Len(root)
                OBVIOUS
            <4> QED
                BY <1>1, <4>1
        <3>a. i \in 0 .. Len(root) /\ PassUpto("create", l, root)[i] \in Naming(a, {N})
            BY <3>3 DEF U
        <3>5. c \in Naming(a, {N})
            BY <3>a, <3>4, PassFrom
        <3> QED
            BY <1>4, <1>5, <3>5
    <2>2. CASE root[i].kind # "create"
        <3> DEFINE U == PassUpto("code", v, root)
                   K == {n \in 0 .. Len(root) : U[n] \in Naming(a, {NoName, N})}
        <3> HIDE DEF v
        <3>1. /\ U[0] = v /\ U[i] = Labelled("code", U[i - 1], root[i])
              /\ \A n \in 1 .. Len(root) : U[n] = Labelled("code", U[n - 1], root[n])
            BY PassSteps
        <3>2. U[i] \in Labelings
            BY <1>4, PassType DEF Naming
        <3> HIDE DEF U
        <3>3. 0 \in K
            BY <1>4, <3>1
        <3>4. ASSUME NEW n \in 1 .. Len(root), n - 1 \in K PROVE n \in K
            <4>1. U[n - 1] \in Naming(a, {NoName, N})
                BY <3>4
            <4>2. Labelled("code", U[n - 1], root[n]) \in Naming(a, {NoName, N})
                BY <1>1, <4>1 DEF Keeps
            <4> QED
                BY <3>1, <4>2
        <3> HIDE DEF K
        <3>b. Len(root) \in Nat
            OBVIOUS
        <3>5. \A n \in 0 .. Len(root) : n \in K
            BY <3>b, <3>3, <3>4, InductionUpTo
        <3>6. U[i - 1] \in Labelings /\ U[i - 1][a] \in {NoName, N}
            BY <3>5 DEF K, Naming
        <3>7. U[i] = IF U[i - 1][a] # NoName THEN U[i - 1] ELSE [U[i - 1] EXCEPT ![a] = N]
            BY <1>6, <2>0, <2>2, <3>1 DEF Labelled, CodeLabels
        <3>8. U[i] \in Naming(a, {N})
            BY <3>2, <3>6, <3>7 DEF Naming, Labelings
        <3>9. \A n \in i + 1 .. Len(root) : Keeps("code", root[n], a, {N})
            <4> TAKE n \in i + 1 .. Len(root)
            <4>1. n \in 1 .. Len(root)
                OBVIOUS
            <4> QED
                BY <1>1, <4>1
        <3>a. i \in 0 .. Len(root) /\ PassUpto("code", v, root)[i] \in Naming(a, {N})
            BY <3>8 DEF U
        <3> QED
            BY <3>a, <3>9, PassFrom
    <2> QED
        BY <2>1, <2>2
<1> HIDE DEF c, v, w
<1> QED
    BY <1>2, <1>3, <1>4, <1>5, <1>6

\* And so does a trace.
LEMMA TraceNames ==
    ASSUME NEW tr \in Seq(Seq(Frames)), NEW a \in Places, CodeStays,
           LabelCalls(tr, a) = {}, ContextLabels[a] = NoName,
           NEW p \in Positions(tr), tr[p[1]][p[2]].codeAddr = a, tr[p[1]][p[2]].named # NoName
    PROVE  Collect(tr) \in Naming(a, {tr[p[1]][p[2]].named})
<1>a. PICK j \in 1 .. Len(tr) : \E i \in 1 .. Len(tr[j]) : p = <<j, i>>
    BY PositionsAre
<1>1. PICK i \in 1 .. Len(tr[j]) : p = <<j, i>>
    BY <1>a
<1> DEFINE N == tr[j][i].named
           U == CollectUpto(tr)
           K == {n \in 0 .. Len(tr) : U[n] \in Naming(a, {NoName, N})}
<1>2. /\ tr[j] \in Seq(Frames) /\ tr[j][i] \in Frames
      /\ \A k \in 1 .. Len(tr) : tr[k] \in Seq(Frames)
    OBVIOUS
<1>3. tr[j][i].codeAddr = a /\ N # NoName
    BY <1>1
<1>4. CodeNamed(a, N)
    BY <1>2, <1>3, LabelsAssumption DEF CodeStays, CodeNamed
<1>5. ASSUME NEW k \in 1 .. Len(tr) PROVE ~LabelIn(tr[k], a)
    <2>1. \A n \in 1 .. Len(tr[k]) : <<k, n>> \in Positions(tr)
        BY PositionsAre
    <2>2. ASSUME NEW n \in 1 .. Len(tr[k]), tr[k][n].label # <<>>, tr[k][n].label[1] = a PROVE FALSE
        <3>1. <<k, n>> \in LabelCalls(tr, a)
            BY <2>1, <2>2 DEF LabelCalls
        <3> QED
            BY <3>1
    <2> QED
        BY <2>2 DEF LabelIn
<1> HIDE DEF N
<1>6. /\ U[0] = NoLabels
      /\ \A n \in 1 .. Len(tr) : U[n] = CollectRoot(U[n - 1], tr[n])
    BY CollectSteps
<1>7. NoLabels \in Naming(a, {NoName, N})
    BY DEF NoLabels, Naming, Labelings, Texts
<1> HIDE DEF U
<1>8. 0 \in K
    BY <1>6, <1>7
<1>9. ASSUME NEW n \in 1 .. Len(tr), n - 1 \in K PROVE n \in K
    <2>1. U[n - 1] \in Naming(a, {NoName, N})
        BY <1>9
    <2>2. CollectRoot(U[n - 1], tr[n]) \in Naming(a, {NoName, N})
        BY <1>2, <1>3, <1>4, <1>5, <2>1, RootNames
    <2> QED
        BY <1>6, <2>2
<1> HIDE DEF K
<1>b. Len(tr) \in Nat
    OBVIOUS
<1>10. \A n \in 0 .. Len(tr) : n \in K
    BY <1>b, <1>8, <1>9, InductionUpTo
<1>11. U[j - 1] \in Naming(a, {NoName, N})
    <2>1. j - 1 \in 0 .. Len(tr)
        OBVIOUS
    <2> QED
        BY <1>10, <2>1 DEF K
<1>12. U[j] \in Naming(a, {N})
    <2>1. CollectRoot(U[j - 1], tr[j]) \in Naming(a, {N})
        BY <1>2, <1>3, <1>4, <1>5, <1>11, RootNames
    <2> QED
        BY <1>6, <2>1
<1>13. \A l \in Naming(a, {N}) : l \in Naming(a, {NoName, N})
    BY DEF Naming
<1>14. \A n \in j + 1 .. Len(tr) : \A l \in Naming(a, {N}) : CollectRoot(l, tr[n]) \in Naming(a, {N})
    <2> TAKE n \in j + 1 .. Len(tr)
    <2>1. n \in 1 .. Len(tr)
        OBVIOUS
    <2>2. tr[n] \in Seq(Frames) /\ ~LabelIn(tr[n], a)
        BY <1>2, <1>5, <2>1
    <2> QED
        BY <1>3, <1>4, <1>13, <2>2, RootNames
<1>15. Collect(tr) \in Naming(a, {N})
    <2>1. j \in 0 .. Len(tr) /\ CollectUpto(tr)[j] \in Naming(a, {N})
        BY <1>12 DEF U
    <2> QED
        BY <2>1, <1>14, CollectFrom
<1> QED
    BY <1>1, <1>15 DEF N

-----------------------------------------------------------------------------
(* The traces a sequence can have.                                         *)

LabelsInv == roots \in Seq(Seq(Frames))

LEMMA TracesGrow == LabelsInv /\ [LabelsNext]_roots => LabelsInv'
<1> SUFFICES ASSUME LabelsInv, LabelsNext PROVE LabelsInv'
    BY DEF LabelsInv
<1>1. PICK frame \in Frames : NextRoot(frame) \/ NextFrame(frame)
    BY DEF LabelsNext
<1>2. <<frame>> \in Seq(Frames)
    OBVIOUS
<1>3. CASE NextRoot(frame)
    BY <1>2, <1>3 DEF NextRoot, LabelsInv
<1>4. CASE NextFrame(frame)
    <2>1. roots \in Seq(Seq(Frames)) /\ roots # <<>>
        BY <1>4 DEF NextFrame, LabelsInv
    <2>2. Len(roots) \in 1 .. Len(roots) /\ roots[Len(roots)] \in Seq(Frames)
        BY <2>1
    <2>3. Append(roots[Len(roots)], frame) \in Seq(Frames)
        BY <2>2
    <2>4. roots' = [roots EXCEPT ![Len(roots)] = Append(roots[Len(roots)], frame)]
        BY <1>4 DEF NextFrame
    <2> QED
        BY <2>1, <2>2, <2>3, <2>4 DEF LabelsInv
<1> QED
    BY <1>1, <1>3, <1>4

\* The name an address is printed with is its last label, or that of its code.
LEMMA NamesAreRight == ASSUME CodeStays, LabelsInv PROVE LabelWins
<1>0. roots \in Seq(Seq(Frames))
    BY DEF LabelsInv
<1>1. \A p \in Positions(roots) : FrameAt(roots, p) \in Frames
    BY <1>0 DEF Positions, FrameAt
<1>2. ASSUME NEW a \in Places, NEW t, t # NoName, Collect(roots) \in Naming(a, {t})
      PROVE  PrintedName(roots, a) = t
    BY <1>2 DEF PrintedName, Naming
<1>3. ASSUME NEW a \in Places, NEW f, f.codeAddr = a,
             ~(f.kind = "create" /\ f.deployed # NoName)
      PROVE  LineName(roots, f) = PrintedName(roots, a)
    BY <1>3, LabelsAssumption DEF LineName
<1>4. ASSUME NEW a \in Places, NEW p \in Positions(roots),
             LastCall(roots, a, p), ~CreatedLater(roots, a, p)
      PROVE  /\ PrintedName(roots, a) = FrameAt(roots, p).label[2]
             /\ \A q \in Positions(roots) :
                   LET f == FrameAt(roots, q)
                   IN  f.codeAddr = a /\ (f.kind = "create" => f.deployed = NoName) =>
                           LineName(roots, f) = FrameAt(roots, p).label[2]
    <2>1. FrameAt(roots, p).label # <<>>
        BY <1>4 DEF LastCall, LabelCalls, FrameAt
    <2>2. FrameAt(roots, p).label[2] # NoName
        BY <1>1, <2>1, LabelsAssumption
    <2>3. Collect(roots) \in Naming(a, {FrameAt(roots, p).label[2]})
        BY <1>0, <1>4, TraceNamesLabelled DEF FrameAt
    <2>4. PrintedName(roots, a) = FrameAt(roots, p).label[2]
        BY <1>2, <2>2, <2>3
    <2> QED
        BY <1>3, <2>4
<1>5. ASSUME NEW a \in Places, NEW p \in Positions(roots),
             LabelCalls(roots, a) = {}, ContextLabels[a] = NoName,
             FrameAt(roots, p).codeAddr = a, FrameAt(roots, p).named # NoName
      PROVE  /\ PrintedName(roots, a) = FrameAt(roots, p).named
             /\ LineName(roots, FrameAt(roots, p)) = FrameAt(roots, p).named
    <2>1. Collect(roots) \in Naming(a, {FrameAt(roots, p).named})
        BY <1>0, <1>5, TraceNames DEF FrameAt
    <2>2. PrintedName(roots, a) = FrameAt(roots, p).named
        BY <1>2, <1>5, <2>1
    <2>3. CASE FrameAt(roots, p).kind = "create" /\ FrameAt(roots, p).deployed # NoName
        BY <1>1, <2>2, <2>3, LabelsAssumption DEF LineName
    <2>4. CASE ~(FrameAt(roots, p).kind = "create" /\ FrameAt(roots, p).deployed # NoName)
        BY <1>3, <1>5, <2>2, <2>4
    <2> QED
        BY <2>2, <2>3, <2>4
<1> QED
    BY <1>4, <1>5 DEF LabelWins

\* The name printed for an address is the last one the harness gave it, or
\* that of the code behind it, but on a line that creates recognised code
\* (trace/mod.rs), for any frames, any labels of the command and any trace,
\* as long as code is not replaced.
THEOREM NamesArePrinted == ASSUME CodeStays PROVE LabelsSpec => []LabelWins
<1>1. LabelsIdle => LabelsInv
    BY DEF LabelsIdle, LabelsInv
<1>2. LabelsInv => LabelWins
    BY NamesAreRight
<1> QED
    BY <1>1, <1>2, TracesGrow, PTL DEF LabelsSpec

-----------------------------------------------------------------------------
(***************************************************************************)
(* Deploying a contract and calling it.                                    *)
(***************************************************************************)

LinksOf(program, id) == program[id].links
Links(id) == LinksOf(command.program, id)

\* A call of deploy_library, or the deployment of the target at the bottom.
IsVisit(program, v) ==
    /\ v = [id |-> v.id, rest |-> v.rest] /\ v.id \in DOMAIN program
    /\ v.rest \in Seq(Range(LinksOf(program, v.id)))

\* A library the contract of a visit links is deployed, yet to be visited,
\* or the one visited now.
Provided(vs, D, k, l) ==
    \/ l \in D
    \/ l \in Range(vs[k].rest)
    \/ k < Len(vs) /\ l = vs[k + 1].id

Compiled(program, vs, below) ==
    /\ below \subseteq DOMAIN program /\ ClosedBelow(program, below)
    /\ \A k \in 2 .. Len(vs) : vs[k].id \in below

\* The recursion when the libraries D are deployed.
Recursion(program, vs, D) ==
    /\ IsList(vs) /\ vs # <<>> /\ vs[1].id = Target
    /\ \A k \in 1 .. Len(vs) : IsVisit(program, vs[k])
    /\ \E below : Compiled(program, vs, below)
    /\ \A k \in 1 .. Len(vs) - 1 : vs[k + 1].id \in Range(LinksOf(program, vs[k].id))
    /\ \A k \in 1 .. Len(vs) : \A l \in Range(LinksOf(program, vs[k].id)) : Provided(vs, D, k, l)

Visiting == Recursion(command.program, visits, DOMAIN addresses)

\* The links of a compiled contract are sequences.
Linkable(program) ==
    /\ Target \in DOMAIN program
    /\ \A id \in DOMAIN program : LinksOf(program, id) \in Seq(Range(LinksOf(program, id)))

\* Libraries have the addresses they were created at, and the libraries they
\* use are deployed with them.
AddressesRight ==
    \A l \in DOMAIN addresses :
        /\ addresses[l] \in 1 .. Len(chainCode) /\ chainCode[addresses[l]].id = l
        /\ l # Target /\ Range(Links(l)) \subseteq DOMAIN addresses

\* The chain holds these libraries and, on top, the target.
ChainRight ==
    /\ IsList(chainCode)
    /\ \A i \in 1 .. Len(chainCode) :
          \/ chainCode[i].id \in DOMAIN addresses /\ addresses[chainCode[i].id] = i
          \/ chainCode[i].id = Target /\ i = Len(chainCode) /\ stage # "deploy"
    /\ \A i \in 1 .. Len(chainCode) : \A l \in DOMAIN chainCode[i].linked :
          \E a \in 1 .. i - 1 : chainCode[i].linked[l] = <<a>> /\ chainCode[a].id = l

\* What the command may call.
SendableBy(c) == {f \in Range(c.abi.functions) : c.kind = "max" \/ Bare(f)}
Sendable == SendableBy(command)

\* The inductive invariant.
DeployInv ==
    /\ stage \in {"idle", "deploy", "setup", "run", "done", "failed"}
    /\ stage = "idle" => addresses = <<>> /\ chainCode = <<>> /\ calls = <<>>
    /\ stage # "idle" => command \in Commands /\ AddressesRight /\ ChainRight /\ calls \in Seq(Sendable)
    /\ stage \notin {"idle", "failed"} => Accepts(command.kind, command.abi)
    /\ stage = "deploy" => Visiting
    /\ stage = "setup" => SetupOf(command.abi) # <<>>

\* The overloads of a name are functions of the ABI with that name.
LEMMA OverloadsAre ==
    ASSUME NEW c \in Commands, NEW name
    PROVE  /\ Overloads(c.abi, name) \in Seq(Range(c.abi.functions))
           /\ \A i \in 1 .. Len(Overloads(c.abi, name)) :
                 /\ Overloads(c.abi, name)[i] \in Range(c.abi.functions)
                 /\ Overloads(c.abi, name)[i].name = name
<1> DEFINE fs == c.abi.functions
           K == {i \in DOMAIN fs : fs[i].name = name}
           o == ElementsAt(fs, K)
<1>1. fs \in Seq(Range(fs)) /\ K \in SUBSET DOMAIN fs
    BY DeploymentAssumption
<1>2. \A k \in K : fs[k].name = name
    OBVIOUS
<1>a. Overloads(c.abi, name) = o
    BY DEF Overloads
<1> HIDE DEF fs, K
<1>3. /\ ElementsAt(fs, K) \in Seq(Range(fs))
      /\ \A i \in DOMAIN ElementsAt(fs, K) : \E k \in K : ElementsAt(fs, K)[i] = fs[k]
    BY <1>1, ElementsAre
<1> HIDE DEF o
<1>4. o \in Seq(Range(fs)) /\ \A i \in 1 .. Len(o) : o[i] \in Range(fs) /\ o[i].name = name
    BY <1>2, <1>3 DEF o
<1> QED
    BY <1>a, <1>4 DEF fs

\* Code that is created is linked with the libraries deployed before it.
LEMMA CodeIsLinked ==
    ASSUME AddressesRight, ChainRight, stage = "deploy", NEW id \in DOMAIN command.program,
           Range(Links(id)) \subseteq DOMAIN addresses, CreateRaw(id)
    PROVE  /\ IsList(chainCode') /\ Len(chainCode') = Len(chainCode) + 1 /\ Len(chainCode) \in Nat
           /\ chainCode'[Len(chainCode) + 1].id = id
           /\ \A i \in 1 .. Len(chainCode) : chainCode'[i] = chainCode[i]
           /\ \A i \in 1 .. Len(chainCode') : \A l \in DOMAIN chainCode'[i].linked :
                 \E a \in 1 .. i - 1 : chainCode'[i].linked[l] = <<a>> /\ chainCode'[a].id = l
<1> DEFINE n == Len(chainCode)
           new == [id |-> id, linked |-> Linked(id)]
<1>1. IsList(chainCode) /\ n \in Nat
    BY ListLength DEF ChainRight
<1>2. chainCode' = Append(chainCode, new)
    BY DEF CreateRaw
<1> HIDE DEF new
<1>3. /\ IsList(chainCode') /\ Len(chainCode') = n + 1 /\ chainCode'[n + 1] = new
      /\ \A i \in 1 .. n : chainCode'[i] = chainCode[i]
    BY <1>1, <1>2, ListAppend
<1>4. new.id = id /\ new.linked = Linked(id)
    BY DEF new
<1>5. ASSUME NEW l \in DOMAIN Linked(id)
      PROVE  \E a \in 1 .. n : Linked(id)[l] = <<a>> /\ chainCode[a].id = l
    <2>0. Linked(id) = [m \in Range(Links(id)) |-> IF m \in DOMAIN addresses THEN <<addresses[m]>> ELSE <<>>]
        BY DEF Linked, Links, LinksOf
    <2>1. l \in Range(Links(id)) /\ l \in DOMAIN addresses
        BY <2>0
    <2>2. Linked(id)[l] = <<addresses[l]>>
        BY <2>0, <2>1
    <2>3. addresses[l] \in 1 .. n /\ chainCode[addresses[l]].id = l
        BY <2>1 DEF AddressesRight
    <2> QED
        BY <2>2, <2>3
<1> HIDE DEF n
<1>6. ASSUME NEW i \in 1 .. n + 1, NEW l \in DOMAIN chainCode'[i].linked
      PROVE  \E a \in 1 .. i - 1 : chainCode'[i].linked[l] = <<a>> /\ chainCode'[a].id = l
    <2>1. CASE i = n + 1
        <3>1. PICK a \in 1 .. n : Linked(id)[l] = <<a>> /\ chainCode[a].id = l
            BY <1>3, <1>4, <1>5, <2>1
        <3>2. a \in 1 .. i - 1 /\ chainCode'[i].linked[l] = <<a>> /\ chainCode'[a].id = l
            BY <1>1, <1>3, <1>4, <2>1, <3>1
        <3> QED
            BY <3>2
    <2>2. CASE i # n + 1
        <3>0. i \in 1 .. n /\ chainCode'[i] = chainCode[i]
            BY <1>1, <1>3, <2>2
        <3>1. PICK a \in 1 .. i - 1 : chainCode[i].linked[l] = <<a>> /\ chainCode[a].id = l
            BY <3>0 DEF ChainRight, n
        <3>2. a \in 1 .. n
            BY <1>1, <3>0, <3>1
        <3>3. chainCode'[i].linked[l] = <<a>> /\ chainCode'[a].id = l
            BY <1>3, <3>0, <3>1, <3>2
        <3> QED
            BY <3>3
    <2> QED
        BY <2>1, <2>2
<1> QED
    BY <1>1, <1>3, <1>4, <1>6 DEF n

\* The first visit is that of the target.
LEMMA FirstVisit ==
    ASSUME NEW program, Linkable(program), NEW D
    PROVE  LET vs == <<VisitOf(program, Target)>> IN
           Resolves(program) => Recursion(program, vs, D)
<1> SUFFICES ASSUME Resolves(program) PROVE Recursion(program, <<VisitOf(program, Target)>>, D)
    OBVIOUS
<1>0. PICK v : v = VisitOf(program, Target)
    OBVIOUS
<1>1. v = [id |-> v.id, rest |-> v.rest] /\ v.id = Target /\ v.rest = LinksOf(program, Target)
    BY <1>0 DEF VisitOf, LinksOf
<1>2. PICK vs : vs = <<v>>
    OBVIOUS
<1>3. vs \in Seq({v}) /\ Len(vs) = 1 /\ vs[1] = v /\ vs # <<>>
    BY <1>2
<1>4. IsList(vs)
    BY <1>3 DEF IsList
<1>5. IsVisit(program, v)
    BY <1>1 DEF IsVisit, Linkable
<1>6. PICK below \in SUBSET DOMAIN program : ClosedBelow(program, below)
    BY DEF Resolves
<1>7. Compiled(program, vs, below)
    BY <1>3, <1>6 DEF Compiled
<1>8. \A l \in Range(LinksOf(program, Target)) : Provided(vs, D, 1, l)
    BY <1>1, <1>3 DEF Provided
<1> QED
    BY <1>0, <1>1, <1>2, <1>3, <1>4, <1>5, <1>7, <1>8 DEF Recursion

\* What is left of a visit when the next library is taken.
LEMMA RestOfVisit ==
    ASSUME NEW R, NEW r \in Seq(R), r # <<>>
    PROVE  /\ Head(r) \in R /\ Tail(r) \in Seq(R)
           /\ \A l \in Range(r) : l = Head(r) \/ l \in Range(Tail(r))
<1>1. Head(r) \in R /\ Tail(r) \in Seq(R) /\ Len(Tail(r)) = Len(r) - 1 /\ Head(r) = r[1]
      /\ \A i \in 1 .. Len(r) - 1 : Tail(r)[i] = r[i + 1]
    OBVIOUS
<1>2. ASSUME NEW i \in 1 .. Len(r), i # 1 PROVE r[i] \in Range(Tail(r))
    <2>1. i - 1 \in 1 .. Len(r) - 1 /\ (i - 1) + 1 = i
        BY <1>2
    <2>2. Tail(r)[i - 1] = r[i] /\ i - 1 \in DOMAIN Tail(r)
        BY <1>1, <2>1
    <2> QED
        BY <2>2 DEF Range
<1> QED
    BY <1>1, <1>2 DEF Range

\* Visiting a nested library.
LEMMA NextVisit ==
    ASSUME NEW program, Linkable(program), NEW D, NEW vs, Recursion(program, vs, D), Last(vs).rest # <<>>
    PROVE  Recursion(program, Append([vs EXCEPT ![Len(vs)].rest = Tail(@)],
                                     VisitOf(program, Head(Last(vs).rest))), D)
<1>1. IsList(vs) /\ vs # <<>>
    BY DEF Recursion
<1>2. PICK n \in Nat : n = Len(vs) /\ n >= 1 /\ DOMAIN vs = 1 .. n
    BY <1>1, ListEnds
<1>3. PICK top : top = vs[n]
    OBVIOUS
<1>a. Last(vs) = top
    BY <1>2, <1>3 DEF Last
<1>b. n \in 1 .. n
    BY <1>2
<1>c. IsVisit(program, top)
    BY <1>2, <1>3, <1>b DEF Recursion
<1>d. top.rest # <<>>
    BY <1>a
<1>4. /\ top.rest \in Seq(Range(LinksOf(program, top.id))) /\ top = [id |-> top.id, rest |-> top.rest]
      /\ top.id \in DOMAIN program /\ top.rest # <<>>
    BY <1>c, <1>d DEF IsVisit
<1>5. PICK l0 : l0 = Head(top.rest)
    OBVIOUS
<1>6. /\ l0 \in Range(LinksOf(program, top.id)) /\ Tail(top.rest) \in Seq(Range(LinksOf(program, top.id)))
      /\ \A l \in Range(top.rest) : l = l0 \/ l \in Range(Tail(top.rest))
    BY <1>4, <1>5, RestOfVisit
<1>7. PICK low : low = [top EXCEPT !.rest = Tail(@)]
    OBVIOUS
<1>8. PICK new : new = VisitOf(program, l0)
    OBVIOUS
<1>9. /\ low = [id |-> low.id, rest |-> low.rest] /\ low.id = top.id /\ low.rest = Tail(top.rest)
    BY <1>4, <1>7
<1>10. new = [id |-> new.id, rest |-> new.rest] /\ new.id = l0 /\ new.rest = LinksOf(program, l0)
    BY <1>8 DEF VisitOf, LinksOf
<1>11. PICK mid : mid = [vs EXCEPT ![Len(vs)].rest = Tail(@)]
    OBVIOUS
<1>12. mid = [k \in DOMAIN vs |-> mid[k]] /\ \A k \in 1 .. n : mid[k] = IF k = n THEN low ELSE vs[k]
    BY <1>2, <1>3, <1>7, <1>11
<1>13. IsList(mid) /\ Len(mid) = n
    BY <1>1, <1>2, <1>12, ListReplace
<1>14. mid[n] = low /\ \A k \in 1 .. n - 1 : mid[k] = vs[k]
    BY <1>2, <1>12
<1>15. PICK w : w = Append(mid, new)
    OBVIOUS
<1>16. /\ IsList(w) /\ Len(w) = n + 1 /\ w[n + 1] = new
       /\ \A k \in 1 .. n : w[k] = mid[k]
    BY <1>13, <1>15, ListAppend
<1>17. w[n] = low /\ \A k \in 1 .. n - 1 : w[k] = vs[k]
    BY <1>2, <1>14, <1>16
<1>18. \A k \in 1 .. n : w[k].id = vs[k].id
    <2> TAKE k \in 1 .. n
    <2>1. CASE k = n
        BY <1>3, <1>9, <1>17, <2>1
    <2>2. CASE k # n
        <3>1. k \in 1 .. n - 1
            BY <1>2, <2>2
        <3> QED
            BY <1>17, <3>1
    <2> QED
        BY <2>1, <2>2
<1>19. PICK below : Compiled(program, vs, below)
    BY DEF Recursion
<1>20. l0 \in below /\ l0 \in DOMAIN program
    <2>1. CASE n = 1
        <3>1. top.id = Target
            BY <1>3, <2>1 DEF Recursion
        <3> QED
            BY <1>6, <1>19, <3>1 DEF Compiled, ClosedBelow, LinksOf
    <2>2. CASE n # 1
        <3>1. top.id \in below
            <4>1. n \in 2 .. n
                BY <1>2, <2>2
            <4>2. vs[n].id \in below
                BY <1>2, <1>19, <4>1 DEF Compiled
            <4> QED
                BY <1>3, <4>2
        <3> QED
            BY <1>6, <1>19, <3>1 DEF Compiled, ClosedBelow, LinksOf
    <2> QED
        BY <2>1, <2>2
<1>21. Compiled(program, w, below)
    <2>1. ASSUME NEW k \in 2 .. n + 1 PROVE w[k].id \in below
        BY <1>2, <1>10, <1>16, <1>18, <1>19, <1>20 DEF Compiled
    <2> QED
        BY <1>16, <1>19, <2>1 DEF Compiled
<1>22. ASSUME NEW k \in 1 .. n + 1 PROVE IsVisit(program, w[k])
    <2>1. IsVisit(program, low)
        BY <1>4, <1>6, <1>9 DEF IsVisit
    <2>2. IsVisit(program, new)
        BY <1>10, <1>20 DEF IsVisit, Linkable
    <2>3. \A j \in 1 .. n - 1 : IsVisit(program, w[j])
        BY <1>2, <1>17 DEF Recursion
    <2> QED
        BY <1>2, <1>16, <1>17, <2>1, <2>2, <2>3
<1>23. ASSUME NEW k \in 1 .. n PROVE w[k + 1].id \in Range(LinksOf(program, w[k].id))
    <2>1. CASE k = n
        BY <1>3, <1>6, <1>10, <1>16, <1>18, <2>1
    <2>2. CASE k # n
        <3>1. k \in 1 .. n - 1 /\ k + 1 \in 1 .. n
            BY <1>2, <2>2
        <3>2. vs[k + 1].id \in Range(LinksOf(program, vs[k].id))
            BY <1>2, <3>1 DEF Recursion
        <3> QED
            BY <1>18, <3>1, <3>2
    <2> QED
        BY <2>1, <2>2
<1>24. ASSUME NEW k \in 1 .. n + 1, NEW l \in Range(LinksOf(program, w[k].id)) PROVE Provided(w, D, k, l)
    <2>1. CASE k = n + 1
        BY <1>10, <1>16, <2>1 DEF Provided
    <2>2. CASE k # n + 1
        <3>0. k \in 1 .. n /\ l \in Range(LinksOf(program, vs[k].id))
            BY <1>2, <1>18, <2>2
        <3>1. Provided(vs, D, k, l)
            BY <1>2, <3>0 DEF Recursion
        <3>2. CASE k = n
            <4>1. l \in D \/ l \in Range(top.rest)
                BY <1>2, <1>3, <3>1, <3>2 DEF Provided
            <4>2. l \in Range(top.rest) => l = l0 \/ l \in Range(Tail(top.rest))
                BY <1>6
            <4>3. w[n + 1].id = l0 /\ w[n].rest = Tail(top.rest) /\ n < Len(w)
                BY <1>2, <1>9, <1>10, <1>16, <1>17
            <4> QED
                BY <3>2, <4>1, <4>2, <4>3 DEF Provided
        <3>3. CASE k # n
            <4>1. k \in 1 .. n - 1 /\ k + 1 \in 1 .. n
                BY <1>2, <3>0, <3>3
            <4>2. w[k] = vs[k] /\ w[k + 1].id = vs[k + 1].id
                BY <1>17, <1>18, <4>1
            <4> QED
                BY <1>2, <1>16, <3>1, <4>1, <4>2 DEF Provided
        <3> QED
            BY <3>2, <3>3
    <2> QED
        BY <2>1, <2>2
<1>25. w[1].id = Target /\ w # <<>>
    BY <1>2, <1>16, <1>18 DEF Recursion
<1>26. Len(w) - 1 = n
    BY <1>2, <1>16
<1>27. Recursion(program, w, D)
    BY <1>16, <1>21, <1>22, <1>23, <1>24, <1>25, <1>26 DEF Recursion
<1> QED
    BY <1>a, <1>5, <1>8, <1>11, <1>15, <1>27

\* Leaving a library that is deployed.
LEMMA LastVisit ==
    ASSUME NEW program, NEW D, NEW E, D \subseteq E, NEW vs, Recursion(program, vs, D), Len(vs) > 1,
           Last(vs).id \in E
    PROVE  Recursion(program, Front(vs), E)
<1>1. IsList(vs) /\ vs # <<>>
    BY DEF Recursion
<1>2. PICK n \in Nat : n = Len(vs) /\ n > 1 /\ vs[n] = Last(vs)
    BY <1>1, ListEnds
<1>3. PICK w : w = Front(vs)
    OBVIOUS
<1>4. IsList(w) /\ Len(w) = n - 1 /\ \A k \in 1 .. n - 1 : w[k] = vs[k]
    BY <1>1, <1>2, <1>3, ListEnds
<1>5. w # <<>> /\ w[1].id = Target
    BY <1>2, <1>4 DEF Recursion
<1>6. PICK below : Compiled(program, vs, below)
    BY DEF Recursion
<1>7. Compiled(program, w, below)
    BY <1>2, <1>4, <1>6 DEF Compiled
<1>8. ASSUME NEW k \in 1 .. n - 1 PROVE IsVisit(program, w[k])
    BY <1>2, <1>4 DEF Recursion
<1>9. ASSUME NEW k \in 1 .. n - 2 PROVE w[k + 1].id \in Range(LinksOf(program, w[k].id))
    <2>1. k \in 1 .. n - 1 /\ k + 1 \in 1 .. n - 1
        BY <1>2
    <2>2. vs[k + 1].id \in Range(LinksOf(program, vs[k].id))
        BY <1>2, <2>1 DEF Recursion
    <2> QED
        BY <1>4, <2>1, <2>2
<1>10. ASSUME NEW k \in 1 .. n - 1, NEW l \in Range(LinksOf(program, w[k].id)) PROVE Provided(w, E, k, l)
    <2>1. k \in 1 .. n /\ w[k] = vs[k]
        BY <1>2, <1>4
    <2>2. Provided(vs, D, k, l)
        BY <1>2, <2>1 DEF Recursion
    <2>3. CASE k = n - 1
        BY <1>2, <2>1, <2>2, <2>3 DEF Provided
    <2>4. CASE k # n - 1
        <3>1. k + 1 \in 1 .. n - 1 /\ k < n - 1
            BY <1>2, <2>4
        <3> QED
            BY <1>2, <1>4, <2>1, <2>2, <3>1 DEF Provided
    <2> QED
        BY <2>3, <2>4
<1>11. Len(w) - 1 = n - 2
    BY <1>2, <1>4
<1>12. Recursion(program, w, E)
    BY <1>4, <1>5, <1>7, <1>8, <1>9, <1>10, <1>11 DEF Recursion
<1> QED
    BY <1>3, <1>12

\* A contract visited while its own visit is under way is deployed already,
\* since libraries are only deployed after those they use.
LEMMA NoCycleIsDeployed ==
    ASSUME NEW program, NEW D, NEW vs, Recursion(program, vs, D), Len(vs) > 1,
           Range(LinksOf(program, Target)) \subseteq D,
           \A l \in D : Range(LinksOf(program, l)) \subseteq D
    PROVE  Last(vs).id \in D
<1>a. IsList(vs) /\ vs # <<>>
    BY DEF Recursion
<1>b. PICK n \in Nat : n = Len(vs) /\ n > 1 /\ vs[n] = Last(vs)
    BY <1>a, ListEnds
<1> DEFINE S == {k \in 0 .. n - 2 : vs[k + 2].id \in D}
<1>1. vs[1].id = Target /\ \A k \in 1 .. n - 1 : vs[k + 1].id \in Range(LinksOf(program, vs[k].id))
    BY <1>b DEF Recursion
<1>2. 0 \in S
    BY <1>b, <1>1
<1>3. ASSUME NEW k \in 1 .. n - 2, k - 1 \in S PROVE k \in S
    <2>1. vs[k + 1].id \in D
        BY <1>b, <1>3
    <2>2. vs[k + 2].id \in Range(LinksOf(program, vs[k + 1].id))
        <3>1. k + 1 \in 1 .. n - 1 /\ (k + 1) + 1 = k + 2
            BY <1>b
        <3> QED
            BY <1>1, <3>1
    <2> QED
        BY <1>b, <2>1, <2>2
<1> HIDE DEF S
<1>4. n - 2 \in Nat
    BY <1>b
<1>5. \A k \in 0 .. n - 2 : k \in S
    BY <1>2, <1>3, <1>4, InductionUpTo
<1>6. n - 2 \in S
    BY <1>4, <1>5
<1>7. (n - 2) + 2 = n
    BY <1>b
<1> QED
    BY <1>b, <1>6, <1>7 DEF S

-----------------------------------------------------------------------------
(* What every step keeps.                                                  *)

\* The code on the chain does not change with the stage, once the target is
\* there.
LEMMA ChainStays ==
    ASSUME AddressesRight, ChainRight, UNCHANGED <<command, addresses, chainCode>>,
           stage' # "deploy" \/ stage = "deploy"
    PROVE  AddressesRight' /\ ChainRight'
<1>1. AddressesRight'
    BY DEF AddressesRight, Links
<1>2. ChainRight'
    BY DEF ChainRight
<1> QED
    BY <1>1, <1>2

LEMMA CommandsLink == ASSUME NEW c \in Commands PROVE Linkable(c.program)
BY DeploymentAssumption DEF Linkable, LinksOf

LEMMA StartKeeps ==
    ASSUME DeployInv, NEW c \in Commands, StartCommand(c)
    PROVE  DeployInv'
<1>0. /\ stage = "idle" /\ command' = c /\ addresses' = <<>> /\ chainCode' = <<>> /\ calls' = <<>>
      /\ stage' \in {"deploy", "failed"}
    BY DEF StartCommand, DeployInv
<1>1. AddressesRight' /\ ChainRight'
    <2>1. IsList(chainCode') /\ Len(chainCode') = 0
        BY <1>0, EmptyList
    <2>2. AddressesRight'
        BY <1>0 DEF AddressesRight
    <2> QED
        BY <2>1, <2>2 DEF ChainRight
<1>2. calls' \in Seq(Sendable')
    BY <1>0
<1>3. ASSUME stage' = "deploy" PROVE Accepts(c.kind, c.abi) /\ Visiting'
    <2>1. /\ Resolves(c.program) /\ Accepts(c.kind, c.abi)
          /\ visits' = <<VisitOf(c.program, Target)>>
        BY <1>0, <1>3 DEF StartCommand
    <2>2. Recursion(c.program, <<VisitOf(c.program, Target)>>, DOMAIN addresses')
        BY <2>1, CommandsLink, FirstVisit
    <2>3. Visiting'
        BY <1>0, <2>1, <2>2 DEF Visiting
    <2> QED
        BY <2>1, <2>3
<1> QED
    BY <1>0, <1>1, <1>2, <1>3 DEF DeployInv

LEMMA VisitKeeps ==
    ASSUME DeployInv, VisitNested
    PROVE  DeployInv'
<1>0. /\ stage = "deploy" /\ stage' = stage /\ Last(visits).rest # <<>> /\ Visiting
      /\ visits' = Append([visits EXCEPT ![Len(visits)].rest = Tail(@)],
                          VisitOf(command.program, Head(Last(visits).rest)))
      /\ UNCHANGED <<command, addresses, chainCode, calls>>
      /\ command \in Commands
    BY DEF VisitNested, DeployInv
<1>1. PICK w : w = Append([visits EXCEPT ![Len(visits)].rest = Tail(@)],
                          VisitOf(command.program, Head(Last(visits).rest)))
    OBVIOUS
<1>2. Recursion(command.program, w, DOMAIN addresses)
    BY <1>0, <1>1, CommandsLink, NextVisit DEF Visiting
<1>3. visits' = w
    BY <1>0, <1>1
<1>4. Visiting'
    BY <1>0, <1>2, <1>3 DEF Visiting
<1>5. AddressesRight' /\ ChainRight'
    BY <1>0, ChainStays DEF DeployInv
<1>6. Sendable' = Sendable
    BY <1>0 DEF Sendable
<1> QED
    BY <1>0, <1>4, <1>5, <1>6 DEF DeployInv

LEMMA DeployKeeps ==
    ASSUME DeployInv, DeployLibrary
    PROVE  DeployInv'
<1>0. /\ stage = "deploy" /\ stage' = stage /\ Len(visits) > 1 /\ Last(visits).rest = <<>> /\ Visiting
      /\ visits' = Front(visits)
      /\ UNCHANGED <<command, calls>>
      /\ command \in Commands /\ AddressesRight /\ ChainRight
    BY DEF DeployLibrary, DeployInv, NestedDone
<1>1. PICK id : id = Last(visits).id
    OBVIOUS
<1>2. /\ id \in DOMAIN command.program /\ Range(Links(id)) \subseteq DOMAIN addresses
    <2>1. IsList(visits) /\ visits # <<>>
        BY <1>0 DEF Visiting, Recursion
    <2>2. PICK n \in Nat : n = Len(visits) /\ n >= 1 /\ Last(visits) = visits[n]
        BY <2>1, ListEnds
    <2>3. n \in 1 .. n
        BY <2>2
    <2>4. /\ IsVisit(command.program, visits[n])
          /\ \A l \in Range(LinksOf(command.program, visits[n].id)) : Provided(visits, DOMAIN addresses, n, l)
        BY <1>0, <2>2, <2>3 DEF Visiting, Recursion
    <2>5. visits[n].rest = <<>> /\ visits[n].id = id
        BY <1>0, <1>1, <2>2
    <2>6. Range(visits[n].rest) = {}
        BY <2>5 DEF Range
    <2>7. id \in DOMAIN command.program
        BY <2>4, <2>5 DEF IsVisit
    <2>8. ASSUME NEW l \in Range(Links(id)) PROVE l \in DOMAIN addresses
        <3>1. Provided(visits, DOMAIN addresses, n, l)
            BY <2>4, <2>5 DEF Links
        <3>2. ~(n < Len(visits))
            BY <2>2
        <3> QED
            BY <2>6, <3>1, <3>2 DEF Provided
    <2> QED
        BY <2>7, <2>8
<1>3. ASSUME id \in DOMAIN addresses' , DOMAIN addresses \subseteq DOMAIN addresses' PROVE Visiting'
    <2>1. PICK E : E = DOMAIN addresses'
        OBVIOUS
    <2>2. Recursion(command.program, Front(visits), E)
        BY <1>0, <1>1, <1>3, <2>1, LastVisit DEF Visiting
    <2> QED
        BY <1>0, <2>1, <2>2 DEF Visiting
<1>4. Sendable' = Sendable
    BY <1>0 DEF Sendable
<1>5. CASE id \in DOMAIN addresses
    <2>1. UNCHANGED <<addresses, chainCode>>
        BY <1>1, <1>5 DEF DeployLibrary
    <2>2. AddressesRight' /\ ChainRight' /\ Visiting'
        BY <1>0, <1>3, <1>5, <2>1, ChainStays
    <2> QED
        BY <1>0, <1>4, <2>2 DEF DeployInv
<1>6. CASE id \notin DOMAIN addresses
    <2>1. /\ CreateRaw(id)
          /\ addresses' = [l \in DOMAIN addresses \union {id} |->
                              IF l = id THEN Len(chainCode) + 1 ELSE addresses[l]]
        BY <1>1, <1>6 DEF DeployLibrary
    <2>2. id # Target
        <3>1. \A l \in DOMAIN addresses : Range(LinksOf(command.program, l)) \subseteq DOMAIN addresses
            BY <1>0 DEF AddressesRight, Links
        <3>2. Range(LinksOf(command.program, Target)) \subseteq DOMAIN addresses => id \in DOMAIN addresses
            BY <1>0, <1>1, <3>1, NoCycleIsDeployed DEF Visiting
        <3> QED
            BY <1>2, <1>6, <3>2 DEF Links
    <2>3. PICK n : n = Len(chainCode)
        OBVIOUS
    <2>4. /\ IsList(chainCode') /\ Len(chainCode') = n + 1 /\ n \in Nat
          /\ chainCode'[n + 1].id = id
          /\ \A i \in 1 .. n : chainCode'[i] = chainCode[i]
          /\ \A i \in 1 .. Len(chainCode') : \A l \in DOMAIN chainCode'[i].linked :
                \E a \in 1 .. i - 1 : chainCode'[i].linked[l] = <<a>> /\ chainCode'[a].id = l
        BY <1>0, <1>2, <2>1, <2>3, CodeIsLinked
    <2>5. /\ DOMAIN addresses' = DOMAIN addresses \union {id}
          /\ addresses'[id] = n + 1
          /\ \A l \in DOMAIN addresses : addresses'[l] = addresses[l]
        BY <1>6, <2>1, <2>3
    <2>6. ASSUME NEW l \in DOMAIN addresses'
          PROVE  /\ addresses'[l] \in 1 .. n + 1 /\ chainCode'[addresses'[l]].id = l
                 /\ l # Target /\ Range(Links(l)) \subseteq DOMAIN addresses'
        <3>1. CASE l = id
            BY <1>2, <2>2, <2>4, <2>5, <3>1
        <3>2. CASE l # id
            <4>1. l \in DOMAIN addresses
                BY <2>5, <3>2
            <4>2. /\ addresses[l] \in 1 .. n /\ chainCode[addresses[l]].id = l
                  /\ l # Target /\ Range(Links(l)) \subseteq DOMAIN addresses
                BY <1>0, <2>3, <4>1 DEF AddressesRight
            <4>3. addresses'[l] = addresses[l] /\ chainCode'[addresses[l]] = chainCode[addresses[l]]
                BY <2>4, <2>5, <4>1, <4>2
            <4> QED
                BY <2>4, <2>5, <4>2, <4>3
        <3> QED
            BY <3>1, <3>2
    <2>7. AddressesRight'
        BY <1>0, <2>4, <2>6 DEF AddressesRight, Links
    <2>8. ASSUME NEW i \in 1 .. n + 1 PROVE chainCode'[i].id \in DOMAIN addresses' /\ addresses'[chainCode'[i].id] = i
        <3>1. CASE i = n + 1
            BY <2>4, <2>5, <3>1
        <3>2. CASE i # n + 1
            <4>1. i \in 1 .. n
                BY <2>4, <3>2
            <4>2. chainCode[i].id \in DOMAIN addresses /\ addresses[chainCode[i].id] = i
                BY <1>0, <2>3, <4>1 DEF ChainRight
            <4> QED
                BY <2>4, <2>5, <4>1, <4>2
        <3> QED
            BY <3>1, <3>2
    <2>9. ChainRight'
        BY <2>4, <2>8 DEF ChainRight
    <2>10. Visiting'
        BY <1>3, <2>5
    <2> QED
        BY <1>0, <1>4, <2>7, <2>9, <2>10 DEF DeployInv
<1> QED
    BY <1>5, <1>6

LEMMA TargetKeeps ==
    ASSUME DeployInv, DeployTarget
    PROVE  DeployInv'
<1>0. /\ stage = "deploy" /\ Len(visits) = 1 /\ Last(visits).rest = <<>> /\ Visiting
      /\ CreateRaw(Target)
      /\ stage' = IF SetupOf(command.abi) = <<>> THEN "run" ELSE "setup"
      /\ UNCHANGED <<command, addresses, calls>>
      /\ command \in Commands /\ AddressesRight /\ ChainRight
    BY DEF DeployTarget, TargetIsNext, DeployInv, NestedDone
<1>1. Range(Links(Target)) \subseteq DOMAIN addresses /\ Target \in DOMAIN command.program
    <2>1. /\ visits[1].id = Target /\ visits[1].rest = <<>>
          /\ IsVisit(command.program, visits[1])
          /\ \A l \in Range(LinksOf(command.program, visits[1].id)) : Provided(visits, DOMAIN addresses, 1, l)
        BY <1>0 DEF Visiting, Recursion, Last
    <2>2. Range(visits[1].rest) = {}
        BY <2>1 DEF Range
    <2>3. ~(1 < Len(visits))
        BY <1>0
    <2> QED
        BY <2>1, <2>2, <2>3 DEF Provided, Links, IsVisit
<1>3. PICK n : n = Len(chainCode)
    OBVIOUS
<1>4. /\ IsList(chainCode') /\ Len(chainCode') = n + 1 /\ n \in Nat
      /\ chainCode'[n + 1].id = Target
      /\ \A i \in 1 .. n : chainCode'[i] = chainCode[i]
      /\ \A i \in 1 .. Len(chainCode') : \A l \in DOMAIN chainCode'[i].linked :
            \E a \in 1 .. i - 1 : chainCode'[i].linked[l] = <<a>> /\ chainCode'[a].id = l
    BY <1>0, <1>1, <1>3, CodeIsLinked
<1>5. ASSUME NEW l \in DOMAIN addresses
      PROVE  addresses[l] \in 1 .. n + 1 /\ chainCode'[addresses[l]].id = l
    <2>1. addresses[l] \in 1 .. n /\ chainCode[addresses[l]].id = l
        BY <1>0, <1>3 DEF AddressesRight
    <2> QED
        BY <1>4, <2>1
<1>6. AddressesRight'
    BY <1>0, <1>4, <1>5 DEF AddressesRight, Links
<1>7. ASSUME NEW i \in 1 .. n + 1
      PROVE  \/ chainCode'[i].id \in DOMAIN addresses /\ addresses[chainCode'[i].id] = i
             \/ chainCode'[i].id = Target /\ i = n + 1
    <2>1. CASE i = n + 1
        BY <1>4, <2>1
    <2>2. CASE i # n + 1
        <3>1. i \in 1 .. n
            BY <1>4, <2>2
        <3>2. chainCode[i].id \in DOMAIN addresses /\ addresses[chainCode[i].id] = i
            BY <1>0, <1>3, <3>1 DEF ChainRight
        <3> QED
            BY <1>4, <3>1, <3>2
    <2> QED
        BY <2>1, <2>2
<1>8. ChainRight'
    BY <1>0, <1>4, <1>7 DEF ChainRight
<1>9. Sendable' = Sendable /\ SetupOf(command.abi)' = SetupOf(command.abi)
    BY <1>0 DEF Sendable
<1> QED
    BY <1>0, <1>6, <1>8, <1>9 DEF DeployInv

-----------------------------------------------------------------------------
(* What the rules let through.                                             *)

\* The setup function takes nothing.
LEMMA SetupTakesNothing ==
    ASSUME NEW c \in Commands, Accepts(c.kind, c.abi), SetupOf(c.abi) # <<>>
    PROVE  Head(SetupOf(c.abi)) \in SendableBy(c)
<1>1. PICK o : o = Overloads(c.abi, "setup")
    OBVIOUS
<1>2. o \in Seq(Range(c.abi.functions)) /\ \A i \in 1 .. Len(o) : o[i] \in Range(c.abi.functions)
    BY <1>1, OverloadsAre
<1>3. o # <<>> /\ SetupOf(c.abi) = <<Head(o)>> /\ First(c.abi, "setup") = <<Head(o)>>
    BY <1>1 DEF SetupOf, First
<1>4. Head(o) = o[1] /\ 1 \in 1 .. Len(o) /\ DOMAIN o = 1 .. Len(o)
    BY <1>2, <1>3
<1>5. PICK f : f = o[1]
    OBVIOUS
<1>6. f \in Range(c.abi.functions) /\ f \in Range(o) /\ Head(SetupOf(c.abi)) = f /\ f \in Range(First(c.abi, "setup"))
    BY <1>2, <1>3, <1>4, <1>5 DEF Range
<1>7. CASE c.kind = "test"
    <2>1. TestAccepts(c.abi)
        BY <1>7 DEF Accepts
    <2>2. Bare(f)
        BY <1>6, <2>1 DEF TestAccepts
    <2> QED
        BY <1>6, <2>2 DEF SendableBy
<1>8. CASE c.kind = "max"
    BY <1>6, <1>8 DEF SendableBy
<1>9. CASE c.kind \notin {"test", "max"}
    <2>1. ScriptAccepts(c.abi)
        BY <1>9 DEF Accepts
    <2>2. Bare(f)
        BY <1>1, <1>6, <2>1 DEF ScriptAccepts, Bare
    <2> QED
        BY <1>6, <2>2 DEF SendableBy
<1> QED
    BY <1>7, <1>8, <1>9

\* So do the functions the command is about.
LEMMA MainTakesNothing ==
    ASSUME NEW c \in Commands, Accepts(c.kind, c.abi)
    PROVE  /\ c.kind = "exec" => Overloads(c.abi, "exec") \in Seq(SendableBy(c))
           /\ c.kind = "max" => Overloads(c.abi, "value") \in Seq(SendableBy(c))
           /\ c.kind = "test" => Overloads(c.abi, "invariant_") \in Seq(SendableBy(c))
<1>1. ASSUME NEW name, NEW o, o = Overloads(c.abi, name),
             \A i \in 1 .. Len(o) : c.kind = "max" \/ Bare(o[i])
      PROVE  o \in Seq(SendableBy(c))
    <2>1. o \in Seq(Range(c.abi.functions)) /\ \A i \in 1 .. Len(o) : o[i] \in Range(c.abi.functions)
        BY <1>1, OverloadsAre
    <2>2. \A i \in 1 .. Len(o) : o[i] \in SendableBy(c)
        BY <1>1, <2>1 DEF SendableBy
    <2> QED
        BY <2>1, <2>2
<1>2. CASE c.kind = "exec"
    <2>1. PICK o : o = Overloads(c.abi, "exec")
        OBVIOUS
    <2>2. ScriptAccepts(c.abi)
        BY <1>2 DEF Accepts
    <2>3. o \in Seq(Range(c.abi.functions)) /\ Len(o) = 1
        BY <2>1, <2>2, OverloadsAre DEF ScriptAccepts
    <2>4. Head(o).args = 0 /\ Head(o).mutability = "nonpayable"
        BY <2>1, <2>2 DEF ScriptAccepts
    <2>5. \A i \in 1 .. Len(o) : Bare(o[i])
        BY <2>3, <2>4 DEF Bare
    <2> QED
        BY <1>1, <1>2, <2>1, <2>5
<1>3. CASE c.kind = "max"
    BY <1>1, <1>3
<1>4. CASE c.kind = "test"
    <2>1. PICK o : o = Overloads(c.abi, "invariant_")
        OBVIOUS
    <2>2. TestAccepts(c.abi)
        BY <1>4 DEF Accepts
    <2>3. \A i \in 1 .. Len(o) : o[i] \in Range(c.abi.functions) /\ o[i].name = "invariant_"
        BY <2>1, OverloadsAre
    <2>4. \A i \in 1 .. Len(o) : Bare(o[i])
        BY <2>2, <2>3 DEF TestAccepts, Invariants
    <2> QED
        BY <1>1, <1>4, <2>1, <2>4
<1> QED
    BY <1>2, <1>3, <1>4

LEMMA SetupKeeps ==
    ASSUME DeployInv, CallSetup
    PROVE  DeployInv'
<1>0. /\ stage = "setup" /\ stage' = "run" /\ calls' = Append(calls, Head(SetupOf(command.abi)))
      /\ UNCHANGED <<command, addresses, chainCode>>
      /\ command \in Commands /\ AddressesRight /\ ChainRight /\ calls \in Seq(Sendable)
      /\ Accepts(command.kind, command.abi) /\ SetupOf(command.abi) # <<>>
    BY DEF CallSetup, DeployInv
<1>1. Head(SetupOf(command.abi)) \in Sendable
    BY <1>0, SetupTakesNothing DEF Sendable
<1>2. calls' \in Seq(Sendable)
    BY <1>0, <1>1
<1>3. Sendable' = Sendable
    BY <1>0 DEF Sendable
<1>4. AddressesRight' /\ ChainRight'
    BY <1>0, ChainStays
<1> QED
    BY <1>0, <1>2, <1>3, <1>4 DEF DeployInv

LEMMA RunKeeps ==
    ASSUME DeployInv, Run
    PROVE  DeployInv'
<1>0. /\ stage = "run" /\ stage' = "done"
      /\ UNCHANGED <<command, addresses, chainCode>>
      /\ command \in Commands /\ AddressesRight /\ ChainRight /\ calls \in Seq(Sendable)
      /\ Accepts(command.kind, command.abi)
    BY DEF Run, DeployInv
<1>1. command.kind \in {"test", "max", "exec"}
    BY <1>0, DeploymentAssumption
<1>2. /\ command.kind = "exec" => calls' = calls \o Overloads(command.abi, "exec")
      /\ command.kind = "max" => calls' = calls \o Overloads(command.abi, "value")
      /\ command.kind = "test" => calls' = calls \o Overloads(command.abi, "invariant_")
    BY DEF Run
<1>3. /\ command.kind = "exec" => Overloads(command.abi, "exec") \in Seq(Sendable)
      /\ command.kind = "max" => Overloads(command.abi, "value") \in Seq(Sendable)
      /\ command.kind = "test" => Overloads(command.abi, "invariant_") \in Seq(Sendable)
    BY <1>0, MainTakesNothing DEF Sendable
<1>4. \A o : o \in Seq(Sendable) => calls \o o \in Seq(Sendable)
    BY <1>0
<1>5. calls' \in Seq(Sendable)
    BY <1>1, <1>2, <1>3, <1>4
<1>6. Sendable' = Sendable
    BY <1>0 DEF Sendable
<1>7. AddressesRight' /\ ChainRight'
    BY <1>0, ChainStays
<1> QED
    BY <1>0, <1>5, <1>6, <1>7 DEF DeployInv

\* A failure leaves everything as it is.
LEMMA FailureKeeps ==
    ASSUME DeployInv, LibraryFails \/ TargetReverts
    PROVE  DeployInv'
<1>1. /\ stage # "idle" /\ stage' = "failed"
      /\ UNCHANGED <<command, addresses, chainCode, calls>>
      /\ command \in Commands /\ AddressesRight /\ ChainRight /\ calls \in Seq(Sendable)
    BY DEF LibraryFails, TargetReverts, TargetIsNext, DeployInv
<1>2. AddressesRight' /\ ChainRight'
    BY <1>1, ChainStays
<1>3. Sendable' = Sendable
    BY <1>1 DEF Sendable
<1> QED
    BY <1>1, <1>2, <1>3 DEF DeployInv

LEMMA DeployStep == DeployInv /\ [DeploymentNext]_deploymentVars => DeployInv'
<1> SUFFICES ASSUME DeployInv, [DeploymentNext]_deploymentVars PROVE DeployInv'
    OBVIOUS
<1>1. CASE DeploymentNext
    BY <1>1, StartKeeps, VisitKeeps, DeployKeeps, TargetKeeps, SetupKeeps, RunKeeps, FailureKeeps
       DEF DeploymentNext
<1>2. CASE UNCHANGED deploymentVars
    <2>1. UNCHANGED <<command, stage, visits, addresses, chainCode, calls>>
        BY <1>2 DEF deploymentVars
    <2>2. AddressesRight /\ ChainRight => AddressesRight' /\ ChainRight'
        BY <2>1, ChainStays
    <2>3. Sendable' = Sendable /\ (Visiting => Visiting')
        BY <2>1 DEF Sendable, Visiting
    <2> QED
        BY <2>1, <2>2, <2>3 DEF DeployInv
<1> QED
    BY <1>1, <1>2

LEMMA DeployStart == DeploymentIdle => DeployInv
BY DEF DeploymentIdle, DeployInv

\* What the invariant is for.
LEMMA TargetIsPrepared == DeployInv => PreparedTarget
<1> SUFFICES ASSUME DeployInv PROVE LinkedCompletely /\ CallsTakeNothing
    BY DEF PreparedTarget
<1>1. CASE stage = "idle"
    BY <1>1 DEF DeployInv, LinkedCompletely, CallsTakeNothing
<1>2. CASE stage # "idle"
    <2>1. AddressesRight /\ ChainRight /\ calls \in Seq(Sendable)
        BY <1>2 DEF DeployInv
    <2>2. IsList(chainCode) /\ DOMAIN chainCode = 1 .. Len(chainCode)
        BY <2>1, ListLength DEF ChainRight
    <2>3. ASSUME NEW i \in DOMAIN chainCode, NEW j \in DOMAIN chainCode, chainCode[i].id = chainCode[j].id
          PROVE  i = j
        <3>1. \A k \in DOMAIN chainCode :
                 \/ chainCode[k].id \in DOMAIN addresses /\ addresses[chainCode[k].id] = k
                 \/ chainCode[k].id = Target /\ k = Len(chainCode)
            BY <2>1, <2>2 DEF ChainRight
        <3>2. Target \notin DOMAIN addresses
            BY <2>1 DEF AddressesRight
        <3> QED
            BY <2>3, <3>1, <3>2
    <2>4. LinkedCompletely
        BY <2>1, <2>2, <2>3 DEF LinkedCompletely, ChainRight
    <2>5. CallsTakeNothing
        BY <2>1 DEF CallsTakeNothing, Sendable, SendableBy
    <2> QED
        BY <2>4, <2>5
<1> QED
    BY <1>1, <1>2

\* Nothing is deployed unlinked or twice, and nothing is called that takes
\* more than it is sent (linker.rs, chain/mod.rs deploy_library, the harness
\* rules), for any programs, ABIs and commands.
THEOREM TargetsArePrepared == DeploymentSpec => []PreparedTarget
BY DeployStart, DeployStep, TargetIsPrepared, PTL DEF DeploymentSpec
=============================================================================
