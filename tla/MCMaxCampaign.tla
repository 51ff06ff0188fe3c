--------------------------- MODULE MCMaxCampaign ----------------------------
(* A harness contract with a climb, a dip below the initial value and a state
   behind the dip whose value reverts. *)
EXTENDS MaxCampaign

Hills == {"up", "down"}
HillsStep(c, w) ==
    CASE c = "up"   -> CASE w = 0 -> 2 [] w = 1 -> 4 [] OTHER -> 3
      [] c = "down" -> 1
HillsTx(c, w, p) ==
    [world |-> HillsStep(c, w), cheats |-> p, report |-> NoId, revert |-> NoId,
     panic |-> NoId, points |-> {IF HillsStep(c, w) = w THEN "idle" ELSE c}]
HillsValue(w) == CASE w = 0 -> 1 [] w = 1 -> 0 [] w = 2 -> 2 [] w = 3 -> 3 [] w = 4 -> NoValue
HillsSelector(c) == c

NoInvariants == <<>>
OneWorker == {0}
TwoWorkers == {0, 1}
=============================================================================
