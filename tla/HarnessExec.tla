----------------------------- MODULE HarnessExec -----------------------------
(***************************************************************************)
(* Executing harness calls on a Chain clone, src/evm/chain/mod.rs.  A chain *)
(* is the world it committed so far (database, block and config); the      *)
(* cheatcode state (open pranks, labels) lives in the inspector, which     *)
(* Chain::exec creates from the state setup left and drops when it returns. *)
(*                                                                         *)
(* What one transaction does is the harness contract's business:           *)
(* Tx(call, world, cheats) is a record with the committed world, the       *)
(* cheatcode state after the call, the id the call reports with            *)
(* BrokenInvariantError (NoId when it does not), the finding id if the     *)
(* stop-on-revert or the stop-on-panic filter matches (NoId otherwise),    *)
(* and the coverage points it passes.                                      *)
(***************************************************************************)
EXTENDS Naturals, Sequences, SequencesExt

CONSTANTS
    Handlers,     \* handler calls with their arguments
    Invariants,   \* the invariant_* functions, in declaration order
    Genesis,      \* the world after deploy and setup
    Cheats,       \* the cheatcode state saved by setup
    NoId,         \* no report
    Tx(_, _, _)   \* effect of one transaction

\* Chain::exec: the transactions run in order on one inspector, so the
\* cheatcode state of a call is visible to the calls after it.
ExecFold(acc, c) ==
    LET r == Tx(c, acc.world, acc.cheats)
    IN  [world |-> r.world, cheats |-> r.cheats, results |-> Append(acc.results, r)]

Exec(world, calls) ==
    LET after[n \in 0 .. Len(calls)] ==
            IF n = 0 THEN [world |-> world, cheats |-> Cheats, results |-> <<>>]
            ELSE ExecFold(after[n - 1], calls[n])
    IN  after[Len(calls)]

\* The points covered by an execution.
Points(results) == UNION {results[i].points : i \in DOMAIN results}

\* The world a fuzzer reaches with a sequence: one Chain::exec per call.
CommitCall(world, c) == Exec(world, <<c>>).world
FuzzedWorld(calls) ==
    LET after[n \in 0 .. Len(calls)] ==
            IF n = 0 THEN Genesis ELSE CommitCall(after[n - 1], calls[n])
    IN  after[Len(calls)]

\* The ids the last call of a sequence is recorded under when the whole
\* sequence runs on a clean clone, the way Shrinker and reporter replay it.
LastIds(calls) ==
    LET r == Last(Exec(Genesis, calls).results) IN {r.report, r.revert, r.panic} \ {NoId}
=============================================================================
