------------------------------ MODULE MaxExec -------------------------------
(***************************************************************************)
(* Measuring the objective of a max harness: value() is called on a chain  *)
(* after the handler calls.  It is a view function (src/maxer/harness.rs   *)
(* requires it), so it changes nothing; it may revert.                     *)
(***************************************************************************)
EXTENDS HarnessExec, Subsequences

CONSTANTS
    NoValue,     \* the value call reverts
    Measure(_)   \* value() on a world: a number, or NoValue

ASSUME NoValueAssumption == NoValue \notin Nat

\* The value reached by running a sequence in one execution on a clean chain.
ValueOf(calls) == Measure(Exec(Genesis, calls).world)

\* The sequence keeps the value at or above the target.
Preserves(calls, target) == ValueOf(calls) # NoValue /\ ValueOf(calls) >= target

\* What shrinking may return: the sequence itself, or what is left after
\* deleting calls from it, if that preserves the target value.
Shrinkings(calls, target) ==
    {calls} \cup
    {s \in {ElementsAt(calls, kept) : kept \in (SUBSET DOMAIN calls) \ {{}}} : Preserves(s, target)}
=============================================================================
