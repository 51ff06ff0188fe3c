--------------------------- MODULE MCMaxShrinker ----------------------------
(* A lock: value() reverts while the last call was jam, and counts the open
   steps otherwise; close undoes one step. *)
EXTENDS MaxShrinker

LockHandlers == {"open", "close", "jam"}
LockStep(c, w) ==
    CASE c = "open"  -> [n |-> IF w.n < 2 THEN w.n + 1 ELSE w.n, jammed |-> FALSE]
      [] c = "close" -> [n |-> IF w.n > 0 THEN w.n - 1 ELSE w.n, jammed |-> FALSE]
      [] c = "jam"   -> [w EXCEPT !.jammed = TRUE]
LockTx(c, w, p) ==
    [world |-> LockStep(c, w), cheats |-> p, report |-> NoId, revert |-> NoId,
     panic |-> NoId, points |-> {}]
LockGenesis == [n |-> 0, jammed |-> FALSE]
LockValue(w) == IF w.jammed THEN NoValue ELSE w.n

BestsUpTo(n) ==
    {b \in [value : 1 .. 2, calls : UNION {[1 .. m -> LockHandlers] : m \in 1 .. n}] :
        ValueOf(b.calls) = b.value}
ShortBests == BestsUpTo(3)
NoInvariants == <<>>
TwoWorkers == {1, 2}
=============================================================================
