--------------------------- MODULE MCTestCampaign ---------------------------
(* Harness contracts and bounds for checking TestCampaign with TLC. *)
EXTENDS TestCampaign

Result(world, cheats, report, revert, panic, points) ==
    [world |-> world, cheats |-> cheats, report |-> report, revert |-> revert,
     panic |-> panic, points |-> points]
Plain(world, cheats, points) == Result(world, cheats, NoId, NoId, NoId, points)

(* A bounded counter under --stop-on-revert and --stop-on-panic: an invariant
   breaks at one and another panics at two, poke panics at one, trip always
   reverts, in the first run too. *)
FilteredHandlers == {"inc", "poke", "trip"}
FilteredInvariants == <<"inv_revert", "inv_panic">>
FilteredTx(c, w, p) ==
    CASE c = "inc" /\ w < 2   -> Plain(w + 1, p, {IF w = 0 THEN "first" ELSE "second"})
      [] c = "inc" /\ w = 2   -> Plain(w, p, {"limit"})
      [] c = "poke" /\ w # 1  -> Plain(w, p, {"poke"})
      [] c = "poke" /\ w = 1  -> Result(w, p, NoId, NoId, "PANIC:0x01", {"poke"})
      [] c = "trip"           -> Result(w, p, NoId, "REVERT:trip", NoId, {"trip"})
      [] c = "inv_revert"     -> IF w = 1 THEN Result(w, p, "ODD", NoId, NoId, {})
                                 ELSE Plain(w, p, {})
      [] c = "inv_panic"      -> IF w = 2 THEN Result(w, p, NoId, NoId, "PANIC:0x11", {})
                                 ELSE Plain(w, p, {})

TwoWorkers == {0, 1}
=============================================================================
