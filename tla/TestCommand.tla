----------------------------- MODULE TestCommand -----------------------------
(***************************************************************************)
(* The test command (src/cli/test.rs) and the corpus file that outlives it *)
(* (src/tester/corpus/mod.rs).  Commands run one after the other on the    *)
(* same project: each one prepares a chain, loads and replays the corpus   *)
(* of its harness, fuzzes, shrinks, saves the corpus and writes its        *)
(* reports.  Between them the user edits harnesses and deletes files, and  *)
(* a process can die anywhere, also while it writes the file.              *)
(*                                                                         *)
(* The fuzzing phase is reduced to what it does to the corpus (its threads *)
(* are the subject of TestCampaign): a run merges the coverage of one      *)
(* sequence and adds the sequence when some of it is new.                  *)
(***************************************************************************)
EXTENDS Naturals, Sequences, FiniteSets, SequencesExt, FiniteSetsExt, Subsequences

CONSTANTS
    Harnesses,
    FileKey(_),      \* source file name and contract name of a harness
    HasSetup(_), HasSummary(_),
    Seqs,            \* call sequences
    Versions,        \* states of a harness' source, 0 is the first
    Decodes(_, _),   \* sequences whose calls the handlers of h at v resolve
    Baseline(_, _),  \* coverage of the deployment and the setup
    Covers(_, _, _), \* coverage of the handler calls of a sequence
    Checks(_, _, _), \* coverage of the invariant calls run after them
    MaxEntries,      \* MAX_ENTRIES, 256
    CorpusVersion,   \* CORPUS_VERSION
    MaxFuzzRuns,     \* sequences a campaign executes, max_fuzz_runs
    MaxFailures,     \* distinct broken invariants, max_failures
    MaxCommands      \* commands in a behaviour

ASSUME CommandAssumption ==
    /\ {MaxEntries, MaxFailures} \subseteq Nat \ {0}
    /\ {MaxFuzzRuns, MaxCommands, CorpusVersion} \subseteq Nat /\ 0 \in Versions

\* Coverage is counted in usize: there is finitely much of it.
ASSUME FiniteCoverage ==
    \A h \in Harnesses, v \in Versions :
        /\ IsFiniteSet(Baseline(h, v))
        /\ \A s \in Seqs : IsFiniteSet(Covers(h, v, s)) /\ IsFiniteSet(Checks(h, v, s))

Keys == {FileKey(h) : h \in Harnesses}

VARIABLES
    version,    \* the harness sources on disk
    files,      \* corpus.json per key
    harness,    \* the harness of the running command
    phase,      \* what the command does next, "idle" between commands
    corpus,     \* entries: [seq, edges, chain], chain is Option::is_some
    todo,       \* loaded entries that are not replayed yet
    coverage,   \* the shared coverage map
    runs,       \* sequences executed by the fuzzing phase
    broken,     \* broken invariants found
    reported,   \* broken invariants whose trace is written
    artifacts,  \* what the latest command wrote under .ripfuzz
    saved,      \* history: what the last complete save of a harness wrote
    commands    \* commands started

commandVars == <<version, files, harness, phase, corpus, todo, coverage, runs,
                 broken, reported, artifacts, saved, commands>>

kept == <<version, files, saved, commands>>
campaign == <<corpus, todo, coverage, runs, broken>>
reports == <<reported, artifacts>>

Absent == [state |-> "absent"]
Torn == [state |-> "torn"]       \* does not parse
Document(v, es) == [state |-> "json", version |-> v, entries |-> es]
NotSaved == [complete |-> FALSE]

CorpusKey == FileKey(harness)
SeqsOf(es) == [i \in DOMAIN es |-> es[i].seq]
-----------------------------------------------------------------------------
(* Corpus *)

\* min_by_key: the first of the entries with the fewest new edges
Weakest(es) ==
    CHOOSE i \in DOMAIN es :
        \A j \in DOMAIN es : es[i].edges < es[j].edges \/ (es[i].edges = es[j].edges /\ i <= j)

\* add_with_chain
Added(es, e) ==
    IF Len(es) < MaxEntries THEN Append(es, e)
    ELSE IF e.edges >= es[Weakest(es)].edges THEN Append(RemoveAt(es, Weakest(es)), e)
    ELSE es

Saved(es) == [i \in DOMAIN es |-> [seq |-> es[i].seq, edges |-> es[i].edges]]

\* load: an entry with a call that does not decode is skipped
ResolvedCalls(h, v, es) == ElementsAt(es, {i \in DOMAIN es : es[i].seq \in Decodes(h, v)})

\* Mutant: the count of the file is kept.
ReplayedEdges_Kept(e, gained) == e.edges

\* the edge count of a replayed entry: what its execution adds to the map
ReplayedEdges(e, gained) == Cardinality(gained)

-----------------------------------------------------------------------------
Fresh ==
    /\ corpus = <<>> /\ todo = <<>> /\ coverage = {}
    /\ runs = 0 /\ broken = 0 /\ reported = 0

CommandInit ==
    /\ version = [h \in Harnesses |-> 0]
    /\ files \in [Keys -> {Absent, Document(CorpusVersion + 1, <<>>)}]
    /\ harness \in Harnesses /\ phase = "idle"
    /\ Fresh /\ artifacts = {}
    /\ saved = [h \in Harnesses |-> NotSaved] /\ commands = 0

\* Every way a command ends drops its memory.
End ==
    /\ phase' = "idle"
    /\ corpus' = <<>> /\ todo' = <<>> /\ coverage' = {}
    /\ runs' = 0 /\ broken' = 0 /\ reported' = 0

\* between commands: the user edits a harness or deletes a corpus file
EditHarness(h) ==
    /\ phase = "idle" /\ commands < MaxCommands
    /\ \E v \in Versions \ {version[h]} : version' = [version EXCEPT ![h] = v]
    /\ UNCHANGED <<files, saved, commands, harness, phase, campaign, reports>>

Delete(k) ==
    /\ phase = "idle" /\ commands < MaxCommands /\ files[k] # Absent
    /\ files' = [files EXCEPT ![k] = Absent]
    /\ saved' = [h \in Harnesses |-> IF FileKey(h) = k THEN NotSaved ELSE saved[h]]
    /\ UNCHANGED <<version, commands, harness, phase, campaign, reports>>

\* steps 1 to 7: logging, config, compilation, validation, the empty chain
Start(h) ==
    /\ phase = "idle" /\ commands < MaxCommands
    /\ harness' = h /\ commands' = commands + 1
    /\ phase' = "deploy" /\ artifacts' = {}
    /\ UNCHANGED <<version, files, saved, campaign, reported>>

\* steps 8 and 9; a revert leaves its trace and ends the command
Deploy ==
    /\ phase = "deploy"
    /\ phase' = IF HasSetup(harness) THEN "setup" ELSE "load"
    /\ coverage' = IF HasSetup(harness) THEN {} ELSE Baseline(harness, version[harness])
    /\ UNCHANGED <<kept, harness, corpus, todo, runs, broken, reports>>

Setup ==
    /\ phase = "setup"
    /\ phase' = "load"
    /\ coverage' = Baseline(harness, version[harness])
    /\ UNCHANGED <<kept, harness, corpus, todo, runs, broken, reports>>

PrepareReverts ==
    /\ phase \in {"deploy", "setup"}
    /\ artifacts' = artifacts \union {"trace"}
    /\ End /\ UNCHANGED <<kept, harness>>

\* step 10
Load ==
    /\ phase = "load"
    /\ files[CorpusKey] # Torn
    /\ todo' = IF files[CorpusKey] # Absent /\ files[CorpusKey].version = CorpusVersion
               THEN ResolvedCalls(harness, version[harness], files[CorpusKey].entries) ELSE <<>>
    /\ phase' = "replay"
    /\ UNCHANGED <<kept, harness, corpus, coverage, runs, broken, reports>>

LoadFails ==
    /\ phase = "load" /\ files[CorpusKey] = Torn
    /\ End /\ UNCHANGED <<kept, harness, artifacts>>

\* step 11, one entry at a time
Replay ==
    /\ phase = "replay" /\ todo # <<>>
    /\ LET e == Head(todo)
           all == Covers(harness, version[harness], e.seq)
       IN  /\ corpus' = Added(corpus, [seq |-> e.seq, chain |-> TRUE,
                                       edges |-> ReplayedEdges(e, all \ coverage)])
           /\ coverage' = coverage \union all
    /\ todo' = Tail(todo)
    /\ UNCHANGED <<kept, harness, phase, runs, broken, reports>>

Replayed ==
    /\ phase = "replay" /\ todo = <<>>
    /\ phase' = "fuzz"
    /\ UNCHANGED <<kept, harness, campaign, reports>>

\* step 12: one sequence, with the invariants checked after its calls.  When
\* it extends a base, the base's coverage is in the map already.
Gained(s) == (Covers(harness, version[harness], s) \union Checks(harness, version[harness], s))
             \ coverage

Fuzz(s, finds) ==
    /\ phase = "fuzz" /\ runs < MaxFuzzRuns /\ broken < MaxFailures
    /\ s \in Decodes(harness, version[harness])
    /\ corpus' = IF Gained(s) = {} THEN corpus
                 ELSE Added(corpus, [seq |-> s, chain |-> TRUE, edges |-> Cardinality(Gained(s))])
    /\ coverage' = coverage \union Gained(s)
    /\ runs' = runs + 1 /\ broken' = broken + finds
    /\ UNCHANGED <<kept, harness, phase, todo, reports>>

\* a call that matches a stop filter: the coverage is merged, the sequence
\* is recorded as a finding and is not added
FuzzStop(s) ==
    /\ phase = "fuzz" /\ runs < MaxFuzzRuns /\ broken < MaxFailures
    /\ s \in Decodes(harness, version[harness])
    /\ coverage' = coverage \union Gained(s)
    /\ broken' = broken + 1 /\ runs' = runs + 1 /\ phase' = "shrink"
    /\ UNCHANGED <<kept, harness, corpus, todo, reports>>

\* the budget is spent, the time is up or the findings are full
FuzzEnds ==
    /\ phase = "fuzz"
    /\ phase' = IF broken > 0 THEN "shrink" ELSE "save"
    /\ UNCHANGED <<kept, harness, campaign, reports>>

\* a worker failed: best-effort save, then the error
FuzzFails ==
    /\ phase = "fuzz"
    /\ phase' = "rescue"
    /\ UNCHANGED <<kept, harness, campaign, reports>>

\* step 13
Shrink ==
    /\ phase = "shrink"
    /\ phase' = "save"
    /\ UNCHANGED <<kept, harness, campaign, reports>>

\* step 14.  fs::write truncates the file and then fills it.
Truncate ==
    /\ phase \in {"save", "rescue"}
    /\ files' = [files EXCEPT ![CorpusKey] = Torn]
    /\ saved' = [saved EXCEPT ![harness] = NotSaved]
    /\ phase' = IF phase = "save" THEN "write" ELSE "rescue write"
    /\ UNCHANGED <<version, commands, harness, campaign, reports>>

\* Mutant: an entry without new edges is not written.
Written_Useful(es) == Document(CorpusVersion, Saved(SelectSeq(es, LAMBDA e : e.edges > 0)))

Written(es) == Document(CorpusVersion, Saved(es))

WriteFile ==
    /\ files' = [files EXCEPT ![CorpusKey] = Written(corpus)]
    /\ saved' = [saved EXCEPT ![harness] = [complete |-> TRUE, v |-> version[harness],
                                          seqs |-> SeqsOf(corpus)]]
    /\ UNCHANGED <<version, commands, harness>>

Save ==
    /\ phase = "write" /\ WriteFile
    /\ phase' = "report"
    /\ UNCHANGED <<campaign, reports>>

Rescue ==
    /\ phase = "rescue write" /\ WriteFile
    /\ End /\ UNCHANGED artifacts

\* steps 15 and 16: a traced re-run for each finding, or the summary
Report ==
    /\ phase = "report" /\ reported < broken
    /\ reported' = reported + 1 /\ artifacts' = artifacts \union {"trace"}
    /\ UNCHANGED <<kept, harness, phase, campaign>>

Summary ==
    /\ phase = "report" /\ reported = broken
    /\ artifacts' = IF broken = 0 /\ HasSummary(harness) THEN artifacts \union {"trace"}
                    ELSE artifacts
    /\ phase' = "coverage"
    /\ UNCHANGED <<kept, harness, campaign, reported>>

\* steps 17 and 18
CoverageReport ==
    /\ phase = "coverage"
    /\ artifacts' = artifacts \union {"coverage"} /\ phase' = "stats"
    /\ UNCHANGED <<kept, harness, campaign, reported>>

StatsReport ==
    /\ phase = "stats"
    /\ artifacts' = artifacts \union {"stats"}
    /\ End /\ UNCHANGED <<kept, harness>>

\* any other error, and the death of the process: what is on disk stays
Fails ==
    /\ phase # "idle"
    /\ End /\ UNCHANGED <<kept, harness, artifacts>>

CommandNext ==
    \/ \E h \in Harnesses : EditHarness(h) \/ Start(h)
    \/ \E k \in Keys : Delete(k)
    \/ Deploy \/ Setup \/ PrepareReverts \/ Load \/ LoadFails \/ Replay \/ Replayed
    \/ \E s \in Seqs : FuzzStop(s) \/ \E finds \in 0..1 : Fuzz(s, finds)
    \/ FuzzEnds \/ FuzzFails \/ Shrink \/ Truncate \/ Save \/ Rescue
    \/ Report \/ Summary \/ CoverageReport \/ StatsReport \/ Fails

CommandSpec == CommandInit /\ [][CommandNext]_commandVars
-----------------------------------------------------------------------------
\* The new edges of all entries together.
Sum(es) ==
    LET edges == [i \in 0 .. Len(es) - 1 |-> es[i + 1].edges]
        upto[k \in 0 .. Len(es)] == IF k = 0 THEN 0 ELSE upto[k - 1] + edges[k - 1]
    IN  upto[Len(es)]

\* A harness has its corpus file to itself: no other one has both its source
\* file name and its contract name.
KeysDistinct == \A g, h \in Harnesses : FileKey(g) = FileKey(h) => g = h

\* What a command saved for a harness is what the next command of that
\* harness starts from: as long as the harness is not edited, the replayed
\* corpus holds the saved sequences in their order, each with its snapshot,
\* and the map holds all that their calls cover (Corpus::save, load and
\* Replayer::replay, through a file that other commands also use).
NextRunResumes ==
    phase = "fuzz" /\ runs = 0 /\ saved[harness].complete /\ saved[harness].v = version[harness] =>
        /\ SeqsOf(corpus) = saved[harness].seqs
        /\ \A e \in Range(corpus) :
              e.chain /\ Covers(harness, version[harness], e.seq) \subseteq coverage

\* An edge is credited to at most one corpus entry: the new edges of all
\* entries together never exceed what the map gained over the deployment,
\* although entries come from earlier commands with counts of their own.
EdgesCreditedOnce ==
    phase \notin {"idle", "deploy", "setup"} =>
        Sum(corpus) <= Cardinality(coverage \ Baseline(harness, version[harness]))
=============================================================================
