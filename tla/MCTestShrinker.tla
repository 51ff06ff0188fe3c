--------------------------- MODULE MCTestShrinker ---------------------------
(* A toggle: hit breaks the invariant while the toggle is on. *)
EXTENDS TestShrinker, FiniteSets

ToggleHandlers == {"toggle", "hit"}
ToggleTx(c, w, p) ==
    [world |-> IF c = "toggle" THEN 1 - w ELSE w,
     cheats |-> p,
     report |-> IF c = "hit" /\ w = 1 THEN "ON" ELSE NoId,
     revert |-> IF c = "hit" /\ w = 0 THEN "REVERT:off" ELSE NoId,
     panic |-> NoId,
     points |-> {}]

\* What the fuzzer records: only the last call shows the id.
Sequences(n) == UNION {[1 .. m -> ToggleHandlers] : m \in 1 .. n}
Recorded(id, s) ==
    /\ id \in LastIds(s)
    /\ \A m \in 1 .. Len(s) - 1 : id \notin LastIds(SubSeq(s, 1, m))
FindingsUpTo(n, ids) ==
    {f \in [id : ids, calls : Sequences(n)] : Recorded(f.id, f.calls)}

MixedSeeds == FindingsUpTo(4, {"ON", "REVERT:off"})
NoInvariants == <<>>
TwoWorkers == {1, 2}
=============================================================================
