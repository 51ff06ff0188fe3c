---------------------------- MODULE MCExecution -----------------------------
(* What watches an execution, and what becomes of its coverage.  An         *)
(* inspector is private to its execution and the map sees only what the     *)
(* execution left, so a behaviour follows one of the two.                   *)
EXTENDS Inspectors, SharedCoverage

\* A harness, one contract it calls, one account without code.
CONSTANTS h1, t1, u1, vm, n1, s1

MCContracts == {h1, t1}
MCUsers == {u1}
MCPcs == {0, 1}
MCBlockFields == {"timestamp"}
MCBlockValues == {2}

\* Executions that meet in every kind of word: the same instruction at two
\* depths, two reverts in one word, a jump edge, an init code.
CONSTANTS c1, c2, c3, w1, w2

MCWorkers == {w1, w2}
MCRuntime == {c1, c2}
MCInitcode == {c3}

S(x, p, k) == [op |-> "step", c |-> x, pc |-> p, depth |-> k]
J(x, m) == [op |-> "jump", c |-> x, marker |-> m]
R(x, p) == [op |-> "revert", c |-> x, pc |-> p]

MCRuns == { <<S(c1, 0, 1), S(c1, 0, 1), S(c1, 0, 1), J(c1, 7)>>,
            <<S(c1, 0, 2), R(c1, 0)>>,
            <<S(c1, 2, 64), J(c1, 7), R(c1, 1)>>,
            <<S(c3, 0, 1), S(c2, 0, 1)>> }

VARIABLE part    \* which of the two the behaviour follows

MCInit == Init /\ MergeInit /\ part \in {"inspectors", "coverage"}
MCNext ==
    \/ part = "inspectors" /\ Next /\ UNCHANGED <<mergeVars, part>>
    \/ part = "coverage" /\ MergeNext /\ UNCHANGED <<vars, part>>
MCSpec == MCInit /\ [][MCNext]_<<vars, mergeVars, part>>
=============================================================================
