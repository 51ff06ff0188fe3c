------------------------------ MODULE MCOnDisk ------------------------------
(* What one command leaves on disk for the next: corpus and artifacts of    *)
(* the test command, sources, cache and dependencies of a build.  They are  *)
(* different files: a behaviour follows one of the two.                     *)
EXTENDS TestCommand, Build

CONSTANTS a, b

\* a has a setup and a summary, b has neither
MCKey(h) == h
MCHasSetup(h) == h = a
MCHasSummary(h) == h = a
\* the edit of a harness removes the handler sequence 4 calls
MCDecodes(h, v) == IF v = 0 THEN 1..4 ELSE 1..3
MCBaseline(h, v) == {"deploy"}
\* 3 covers what 1 does, only an invariant check is new
MCCovers(h, v, s) ==
    CASE s \in {1, 3} -> {"x"} [] s = 2 -> {"x", "y", "w"} [] s = 4 -> {"t", "u", "v", "deploy"}
MCChecks(h, v, s) == IF s = 3 THEN {"check"} ELSE {}
-----------------------------------------------------------------------------
CONSTANTS p, q

H == <<"src", "H">>
MCTarget == H
\* H imports d/A, which the resolver looks for next to H first and solc takes
\* through the remappings; version 2 of H imports itself and lib/B through the
\* parent directory.  lib/A imports B over several lines.
MCImports(c) ==
    CASE c = [hash |-> "user", file |-> H] -> <<<<"d", "A">>>>
      [] c = [hash |-> "user2", file |-> H] -> <<<<"..", "src", "H">>, <<"..", "lib", "B">>>>
      [] c = [hash |-> "user", file |-> <<"src", "d", "A">>] -> <<<<"d", "B">>, <<"..", "H">>>>
      [] c = [hash |-> "lib", file |-> <<"lib", "A">>] -> <<<<".", "B">>>>
      [] OTHER -> <<>>
MCScanned(c) == IF c = [hash |-> "lib", file |-> <<"lib", "A">>] THEN <<>> ELSE MCImports(c)
MCBroken == {[hash |-> "typo", file |-> H]}
MCEdits == {[path |-> H, content |-> [hash |-> "user2", file |-> H]],
            [path |-> H, content |-> [hash |-> "typo", file |-> H]],
            [path |-> <<"src", "d", "A">>,
             content |-> [hash |-> "user", file |-> <<"src", "d", "A">>]],
            [path |-> <<"lib", "B">>, content |-> [hash |-> "user", file |-> <<"lib", "B">>]]}
MCDisk0 == H :> [hash |-> "user", file |-> H] @@
           <<"lib", "A">> :> [hash |-> "lib", file |-> <<"lib", "A">>] @@
           <<"lib", "B">> :> [hash |-> "lib", file |-> <<"lib", "B">>]
MCConfig0 == [version |-> 1, viaIr |-> FALSE, remappings |-> <<>>, dependencies |-> <<>>]
MCText == <<[prefix |-> <<"d">>, target |-> <<"lib">>]>>
Old == [hash |-> "old", entries |-> <<
          [path |-> <<"root", "A">>, kind |-> "file", safe |-> TRUE],
          [path |-> <<"root", "L">>, kind |-> "link", safe |-> TRUE]>>]
New == [hash |-> "new", entries |-> <<
          [path |-> <<"src", "A">>, kind |-> "file", safe |-> TRUE],
          [path |-> <<"B">>, kind |-> "file", safe |-> TRUE]>>]
Bad == [hash |-> "bad", entries |-> <<
          [path |-> <<"C">>, kind |-> "file", safe |-> TRUE],
          [path |-> <<"..">>, kind |-> "file", safe |-> FALSE]>>]
MCArchives == {Old, New, Bad}

\* What the theorems about the two suppose holds of this instance.
ASSUME Supposed == KeysDistinct /\ OnlyFetchWrites

VARIABLE part    \* which of the two the behaviour follows

MCInit ==
    /\ CommandInit /\ BuildInit /\ part \in {"command", "build"}
    /\ part = "build" => harness = a /\ \A k \in Keys : files[k] = Absent
MCNext ==
    \/ part = "command" /\ CommandNext /\ UNCHANGED <<buildVars, part>>
    \/ part = "build" /\ BuildNext /\ UNCHANGED <<commandVars, part>>
MCSpec == MCInit /\ [][MCNext]_<<commandVars, buildVars, part>>
=============================================================================
