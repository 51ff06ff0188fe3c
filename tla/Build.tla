-------------------------------- MODULE Build --------------------------------
(***************************************************************************)
(* Everything that happens to the project directory before a contract      *)
(* runs: the solc pipeline (src/compilers/solc, src/inspectors/compile.rs),*)
(* its compilation cache and compiler binary, the dependencies fetch       *)
(* installs (src/dependencies/fetch.rs, src/cli/fetch.rs) and the config   *)
(* that names them (src/config.rs).  Several ripfuzz processes share one   *)
(* directory without a lock, the user edits it meanwhile, and a process    *)
(* can die between any two writes.                                         *)
(*                                                                         *)
(* A path is a sequence of segments, a content tells files apart and       *)
(* determines the imports it has and the imports the line scan of ripfuzz  *)
(* finds in it.  The output of solc is what it depends on: the input, and  *)
(* the files solc reads from the project itself because the walk did not   *)
(* put them into the input.                                                *)
(***************************************************************************)
EXTENDS Naturals, Sequences, FiniteSets, SequencesExt, FiniteSetsExt, Subsequences

CONSTANTS
    Procs,
    Target,          \* path of the compiled source
    Imports(_),      \* the import strings of a content, in order
    Scanned(_),      \* the strings extract_imports takes for them
    Broken,          \* contents solc reports an error for
    Edits,           \* [path, content]: what the user may write
    Disk0, Config0,  \* the project at the start
    Settings,        \* via_ir values the user may configure
    TextRemappings,  \* remappings.txt: sequence of [prefix, target]
    Names,           \* dependency names that pass ensure_valid_name
    Archives,        \* [hash, entries]: what a URL may serve
    MaxJobs, MaxEdits, MaxCrashes

\* What a file may hold: what is there at first, what the user writes and
\* the files of the archives.
Contents == Range(Disk0) \union {e.content : e \in Edits}
            \union UNION {{[hash |-> a.hash, file |-> e.path] : e \in Range(a.entries)} : a \in Archives}

\* Paths are sequences of segments; imports and archives are sequences too.
ASSUME BuildAssumption ==
    /\ {MaxJobs, MaxEdits, MaxCrashes} \subseteq Nat
    /\ DOMAIN Disk0 \union {e.path : e \in Edits} \subseteq Seq(STRING) /\ Names \subseteq STRING
    /\ \A c \in Contents : Scanned(c) \in Seq(Range(Scanned(c)))
    /\ \A a \in Archives : /\ a.entries \in Seq(Range(a.entries))
                          /\ \A e \in Range(a.entries) : e.path \in Seq(STRING) \ {<<>>}

VARIABLES
    disk,    \* path -> content
    config,  \* ripfuzz.toml: [version, viaIr, remappings, dependencies]
    binary,  \* .ripfuzz/bin/solc-<version>
    cache,   \* compile_hash -> output
    proc,    \* the processes
    jobs, edits, crashes

buildVars == <<disk, config, binary, cache, proc, jobs, edits, crashes>>

None == "none"
Idle == [pc |-> "idle"]
-----------------------------------------------------------------------------
(* Paths and trees *)

Under(dir) == {p \in DOMAIN disk : IsPrefix(dir, p)}
Removed(f, ps) == [p \in DOMAIN f \ ps |-> f[p]]
With(f, p, c) == [q \in DOMAIN f \union {p} |-> IF q = p THEN c ELSE f[q]]
Rest(dir, p) == SubSeq(p, Len(dir) + 1, Len(p))
\* rename of a directory
Moved(f, from, to) ==
    LET ps == {p \in DOMAIN f : IsPrefix(from, p)}
        kept == Removed(f, ps)
    IN  [q \in DOMAIN kept \union {to \o Rest(from, p) : p \in ps} |->
            IF q \in DOMAIN kept THEN kept[q] ELSE f[from \o Rest(to, q)]]

Dir(name) == <<"dependencies", name>>
Staging(name) == <<"staging", name>>

\* normalize_path: a parent component removes the one before it
Normalize(path) ==
    FoldLeft(LAMBDA out, c : IF c = "." THEN out
                             ELSE IF c # ".." THEN Append(out, c)
                             ELSE IF out # <<>> THEN Front(out) ELSE <<"..">>, <<>>, path)
-----------------------------------------------------------------------------
(* Remappings and imports *)

\* dependency_remappings: into src when the dependency has one
DependencyRemapping(name) ==
    [prefix |-> <<name>>,
     target |-> IF Under(Dir(name) \o <<"src">>) # {} THEN Dir(name) \o <<"src">> ELSE Dir(name)]

\* compile_remappings, then the entries of remappings.txt.  The order of the
\* dependencies is immaterial, their prefixes do not overlap.
Remappings(cfg) ==
    cfg.remappings
    \o [i \in 1..Len(cfg.dependencies) |-> DependencyRemapping(cfg.dependencies[i].name)]
    \o TextRemappings

\* RemappingsResolver::resolve: the first remapping that matches
Remapped(maps, import) ==
    LET match == {i \in DOMAIN maps : IsPrefix(maps[i].prefix, import)}
    IN  IF match = {} THEN <<>>
        ELSE <<maps[Min(match)].target \o Rest(maps[Min(match)].prefix, import)>>

\* Where an import of file p may be, in the order the resolver tries: next
\* to the importing file, through the remappings, from the root.
Candidates(maps, p, import) ==
    <<Normalize(Front(p) \o import)>> \o Remapped(maps, import) \o <<import>>

\* The positions of the candidates that exist, and the first of them.
Existing(cs) == {i \in DOMAIN cs : cs[i] \in DOMAIN disk}
FirstExisting(cs) == cs[Min(Existing(cs))]

\* The files the imports of p resolve to; an import that resolves to nothing
\* is left to solc.
Resolved(maps, p, imports) ==
    LET at == [i \in DOMAIN imports |-> Candidates(maps, p, imports[i])]
    IN  ElementsAt([i \in DOMAIN imports |-> IF Existing(at[i]) = {} THEN <<>>
                                             ELSE FirstExisting(at[i])],
                   {i \in DOMAIN imports : Existing(at[i]) # {}})
-----------------------------------------------------------------------------
(* Compilation *)

\* solc (external) applies the remapping with the longest prefix, the last one
\* of several with that prefix, to a path taken from the importing file when it
\* starts with a dot.
SolcUnit(maps, p, import) ==
    LET unit == IF import[1] \in {".", ".."} THEN Normalize(Front(p) \o import) ELSE import
        match == {i \in DOMAIN maps : IsPrefix(maps[i].prefix, unit)}
        best == {i \in match : \A j \in match :
                    \/ Len(maps[j].prefix) < Len(maps[i].prefix)
                    \/ Len(maps[j].prefix) = Len(maps[i].prefix) /\ j <= i}
    IN  IF match = {} THEN unit
        ELSE LET m == maps[CHOOSE i \in best : TRUE] IN m.target \o Rest(m.prefix, unit)

Needs(maps, p, content) == {SolcUnit(maps, p, import) : import \in Range(Imports(content))}

\* The files of a tree that solc loads, given some of them: the least set that
\* holds those and, with a file, what it needs.
Units(maps, tree, given) ==
    LET to == [f \in DOMAIN tree |-> Needs(maps, f, tree[f]) \intersect DOMAIN tree]
        closed == {s \in SUBSET DOMAIN tree : given \subseteq s /\ \A f \in s : to[f] \subseteq s}
    IN  {f \in DOMAIN tree : \A s \in closed : f \in s}

\* solc runs in the project root: a file that is not in the input is read from
\* the disk.
Tree(sources) == [f \in DOMAIN disk \union DOMAIN sources |->
                     IF f \in DOMAIN sources THEN sources[f] ELSE disk[f]]
Loaded(maps, sources) == Units(maps, Tree(sources), DOMAIN sources)
ReadBySolc(maps, sources) == [f \in Loaded(maps, sources) \ DOMAIN sources |-> disk[f]]

\* It reports an error in any of them, and an import that leads nowhere.
Rejected(maps, sources) ==
    \E f \in Loaded(maps, sources) :
        \/ Tree(sources)[f] \in Broken
        \/ ~(Needs(maps, f, Tree(sources)[f]) \subseteq DOMAIN Tree(sources))

\* What its output depends on.
Output(version, settings, sources, read) ==
    [version |-> version, settings |-> settings, sources |-> sources, read |-> read]

\* StandardJSONInputBuilder: the compile command always sets via_ir, the
\* inspectors only when it is true
InputSettings(job, cfg, maps) ==
    [remappings |-> maps, viaIr |-> IF job = "inspect" /\ ~cfg.viaIr THEN None
                                    ELSE IF cfg.viaIr THEN "true" ELSE "false"]

\* Mutant: the key of the cache leaves out the settings.
CompileHash_SourcesOnly(version, settings, sources) == <<version, sources>>

\* compile_hash, taken to be free of collisions, hashes the input: the files solc
\* reads itself are not in it.
CompileHash(version, settings, sources) == <<version, settings, sources>>

BuildInit ==
    /\ disk = Disk0 /\ config = Config0
    /\ binary = "absent" /\ cache = <<>>
    /\ proc = [p \in Procs |-> Idle]
    /\ jobs = 0 /\ edits = 0 /\ crashes = 0

Set(p, r) == proc' = [proc EXCEPT ![p] = r]

\* The config is loaded and the walk seeded with the target, which must exist.
StartCompile(p, job) ==
    /\ proc[p].pc = "idle" /\ jobs < MaxJobs
    /\ jobs' = jobs + 1
    /\ Set(p, IF Target \notin DOMAIN disk THEN Idle
              ELSE [pc |-> "walk", job |-> job, cfg |-> config, maps |-> Remappings(config),
                    stack |-> <<Target>>, sources |-> <<>>, settled |-> TRUE, read |-> <<>>])
    /\ UNCHANGED <<disk, config, binary, cache, edits, crashes>>

\* SourceResolver::resolve, one file of the stack at a time.  A file that
\* vanished since it was pushed fails the command.
Walk(p) ==
    /\ proc[p].pc = "walk" /\ proc[p].stack # <<>>
    /\ LET path == Last(proc[p].stack)
           below == Front(proc[p].stack)
       IN  Set(p, CASE path \in DOMAIN proc[p].sources -> [proc[p] EXCEPT !.stack = below]
                    [] path \notin DOMAIN proc[p].sources \union DOMAIN disk -> Idle
                    [] OTHER ->
                         [proc[p] EXCEPT
                            !.stack = below \o Resolved(proc[p].maps, path, Scanned(disk[path])),
                            !.sources = With(@, path, disk[path])])
    /\ UNCHANGED <<disk, config, binary, cache, jobs, edits, crashes>>

Key(p) == CompileHash(proc[p].cfg.version,
                      InputSettings(proc[p].job, proc[p].cfg, proc[p].maps), proc[p].sources)

\* read_cache; an entry is complete, because it is renamed into place
Lookup(p) ==
    /\ proc[p].pc = "walk" /\ proc[p].stack = <<>>
    /\ Set(p, IF Key(p) \in DOMAIN cache
              THEN [pc |-> "done", job |-> proc[p].job, cfg |-> proc[p].cfg,
                    settled |-> proc[p].settled, output |-> cache[Key(p)], ran |-> FALSE]
              ELSE [proc[p] EXCEPT !.pc = "install"])
    /\ UNCHANGED <<disk, config, binary, cache, jobs, edits, crashes>>

\* ensure_installed: a file that exists is used as it is
Install(p) ==
    /\ proc[p].pc = "install"
    /\ Set(p, [proc[p] EXCEPT !.pc = IF binary = "absent" THEN "download" ELSE "run"])
    /\ UNCHANGED <<disk, config, binary, cache, jobs, edits, crashes>>

\* the list, the build, the download and its checksum
DownloadFails(p) ==
    /\ proc[p].pc = "download"
    /\ Set(p, Idle)
    /\ UNCHANGED <<disk, config, binary, cache, jobs, edits, crashes>>

\* fs::write fills the file, then set_permissions
WriteBinary(p) ==
    /\ proc[p].pc \in {"download", "fill", "chmod"}
    /\ binary' = CASE proc[p].pc = "download" -> "partial"
                   [] proc[p].pc = "fill" -> IF binary = "ready" THEN "ready" ELSE "plain"
                   [] OTHER -> IF binary = "partial" THEN "partial" ELSE "ready"
    /\ Set(p, [proc[p] EXCEPT !.pc = CASE @ = "download" -> "fill" [] @ = "fill" -> "chmod"
                                       [] OTHER -> "run"])
    /\ UNCHANGED <<disk, config, cache, jobs, edits, crashes>>

\* solc runs only when the binary is whole and executable; errors it
\* reports fail the command and are not cached
RunSolc(p) ==
    /\ proc[p].pc = "run"
    /\ LET maps == proc[p].maps
           sources == proc[p].sources
       IN  Set(p, IF binary # "ready" \/ Rejected(maps, sources) THEN Idle
                  ELSE [proc[p] EXCEPT !.pc = "publish", !.read = ReadBySolc(maps, sources)])
    /\ UNCHANGED <<disk, config, binary, cache, jobs, edits, crashes>>

\* write_cache (temporary file, rename), then the artifacts
Publish(p) ==
    /\ proc[p].pc = "publish"
    /\ LET out == Output(proc[p].cfg.version, InputSettings(proc[p].job, proc[p].cfg, proc[p].maps),
                         proc[p].sources, proc[p].read)
       IN  /\ cache' = With(cache, Key(p), out)
           /\ Set(p, [pc |-> "done", job |-> proc[p].job, cfg |-> proc[p].cfg,
                      settled |-> proc[p].settled, output |-> out, ran |-> TRUE])
    /\ UNCHANGED <<disk, config, binary, jobs, edits, crashes>>

Return(p) ==
    /\ proc[p].pc = "done"
    /\ Set(p, Idle)
    /\ UNCHANGED <<disk, config, binary, cache, jobs, edits, crashes>>
-----------------------------------------------------------------------------
(* Dependencies *)

Fetching(name) == \E p \in Procs : proc[p].pc \in {"stage", "extract", "move", "record"}
                                   /\ proc[p].name = name

\* Fetcher::download.  Two fetches of one name at a time share a staging
\* directory; the user is taken not to start them.
StartFetch(p, name, archive) ==
    /\ proc[p].pc = "idle" /\ jobs < MaxJobs /\ ~Fetching(name)
    /\ jobs' = jobs + 1
    /\ Set(p, [pc |-> "stage", name |-> name, archive |-> archive, left |-> archive.entries])
    /\ UNCHANGED <<disk, config, binary, cache, edits, crashes>>

\* The steps of other processes and of the user unsettle a compilation that
\* reads the disk: settled says that nothing changed since it started.
Unsettled(f) == [q \in Procs |-> IF f[q].pc \in {"walk", "install", "download", "fill", "chmod",
                                                 "run", "publish", "done"}
                                 THEN [f[q] EXCEPT !.settled = FALSE] ELSE f[q]]
SetUnsettled(p, r) == proc' = Unsettled([proc EXCEPT ![p] = r])

\* Mutant: what an earlier fetch left in the staging directory stays.
Staged_Kept(name) == disk

Staged(name) == Removed(disk, Under(Staging(name)))

Stage(p) ==
    /\ proc[p].pc = "stage"
    /\ disk' = Staged(proc[p].name)
    /\ SetUnsettled(p, [proc[p] EXCEPT !.pc = "extract"])
    /\ UNCHANGED <<config, binary, cache, jobs, edits, crashes>>

\* extract_archive: an unsafe path fails the fetch, links are skipped
Extract(p) ==
    /\ proc[p].pc = "extract" /\ proc[p].left # <<>>
    /\ LET e == Head(proc[p].left)
       IN  /\ disk' = IF e.safe /\ e.kind = "file"
                      THEN With(disk, Staging(proc[p].name) \o e.path,
                                [hash |-> proc[p].archive.hash, file |-> e.path])
                      ELSE disk
           /\ SetUnsettled(p, IF e.safe THEN [proc[p] EXCEPT !.left = Tail(@)] ELSE Idle)
    /\ UNCHANGED <<config, binary, cache, jobs, edits, crashes>>

\* collapse_root: the only directory of the archive, or all of it
Collapsed(dir) ==
    LET only(t) == \A p \in Under(dir) : Len(p) > Len(dir) + 1 /\ p[Len(dir) + 1] = t
        tops == {p[Len(dir) + 1] : p \in Under(dir)}
    IN  IF \E t \in tops : only(t) THEN Append(dir, CHOOSE t \in tops : only(t)) ELSE dir

\* Replace: the old installation goes, then the staged tree takes its place.
Swap(p) ==
    /\ proc[p].pc = "extract" /\ proc[p].left = <<>>
    /\ disk' = Removed(disk, Under(Dir(proc[p].name)))
    /\ SetUnsettled(p, [proc[p] EXCEPT !.pc = "move"])
    /\ UNCHANGED <<config, binary, cache, jobs, edits, crashes>>

Move(p) ==
    /\ proc[p].pc = "move"
    /\ LET name == proc[p].name
           moved == Moved(disk, Collapsed(Staging(name)), Dir(name))
       IN  disk' = Removed(moved, {q \in DOMAIN moved : IsPrefix(Staging(name), q)})
    /\ SetUnsettled(p, [proc[p] EXCEPT !.pc = "record"])
    /\ UNCHANGED <<config, binary, cache, jobs, edits, crashes>>

\* Config::record_dependency: read, replace the entry of the name, write
Recorded(deps, name, hash) ==
    IF \E i \in DOMAIN deps : deps[i].name = name
    THEN [i \in DOMAIN deps |-> IF deps[i].name = name THEN [name |-> name, hash |-> hash]
                                ELSE deps[i]]
    ELSE Append(deps, [name |-> name, hash |-> hash])

Record(p) ==
    /\ proc[p].pc = "record"
    /\ config' = [config EXCEPT !.dependencies = Recorded(@, proc[p].name, proc[p].archive.hash)]
    /\ SetUnsettled(p, Idle)
    /\ UNCHANGED <<disk, binary, cache, jobs, edits, crashes>>
-----------------------------------------------------------------------------
(* The user, and the end of a process *)

Edit(e) ==
    /\ edits < MaxEdits /\ (e.path \in DOMAIN disk => disk[e.path] # e.content)
    /\ disk' = With(disk, e.path, e.content)
    /\ edits' = edits + 1 /\ proc' = Unsettled(proc)
    /\ UNCHANGED <<config, binary, cache, jobs, crashes>>

Configure(s) ==
    /\ edits < MaxEdits /\ config.viaIr # s
    /\ config' = [config EXCEPT !.viaIr = s]
    /\ edits' = edits + 1 /\ proc' = Unsettled(proc)
    /\ UNCHANGED <<disk, binary, cache, jobs, crashes>>

\* A process dies.  While it removes the old installation, any part of it
\* may be gone already.
Crash(p) ==
    /\ proc[p].pc # "idle" /\ crashes < MaxCrashes
    /\ crashes' = crashes + 1
    /\ IF proc[p].pc = "extract" /\ proc[p].left = <<>>
       THEN \E gone \in SUBSET Under(Dir(proc[p].name)) : disk' = Removed(disk, gone)
       ELSE disk' = disk
    /\ SetUnsettled(p, Idle)
    /\ UNCHANGED <<config, binary, cache, jobs, edits>>

BuildNext ==
    \/ \E p \in Procs :
          \/ \E job \in {"compile", "inspect"} : StartCompile(p, job)
          \/ \E name \in Names, archive \in Archives : StartFetch(p, name, archive)
          \/ Walk(p) \/ Lookup(p) \/ Install(p) \/ DownloadFails(p) \/ WriteBinary(p)
          \/ RunSolc(p) \/ Publish(p) \/ Return(p)
          \/ Stage(p) \/ Extract(p) \/ Swap(p) \/ Move(p) \/ Record(p) \/ Crash(p)
    \/ \E e \in Edits : Edit(e)
    \/ \E s \in Settings : Configure(s)

BuildSpec == BuildInit /\ [][BuildNext]_buildVars
-----------------------------------------------------------------------------
\* The files the scanned imports of a file that exists lead to.
Imported(maps, p) ==
    {FirstExisting(Candidates(maps, p, import)) :
        import \in {j \in Range(Scanned(disk[p])) : Existing(Candidates(maps, p, j)) # {}}}

\* The files a walk should put into the input: the least set that holds the
\* target and, with a file, what its scanned imports lead to.
Closure(maps) ==
    LET to == [p \in DOMAIN disk |-> Imported(maps, p)]
        closed == {s \in SUBSET DOMAIN disk : Target \in s /\ \A p \in s : to[p] \subseteq s}
    IN  {p \in DOMAIN disk : \A s \in closed : p \in s}

\* The files the target is made of, as solc sees it.
Uses(maps) == Units(maps, disk, {Target})

\* The scan finds every import of the target's files, and the resolver leads
\* where solc goes.
Traced(maps) ==
    \A f \in Uses(maps) : \A import \in Range(Imports(disk[f])) :
        LET found == Candidates(maps, f, import)
        IN  /\ import \in Range(Scanned(disk[f]))
            /\ Existing(found) # {} /\ FirstExisting(found) = SolcUnit(maps, f, import)

\* The files an entry of the cache may have out of date.
Missed(maps) == IF Traced(maps) THEN {} ELSE Uses(maps) \ Closure(maps)

\* An output was made with file f as it is.
MadeWith(out, f) ==
    \E part \in {out.sources, out.read} : f \in DOMAIN part /\ part[f] = disk[f]

\* What a compilation returns is what solc makes of the project as it is: if
\* nothing on disk changed since the command started, the output is that of
\* the configured version and settings, with every file the target is made of
\* as it is on disk, whether solc ran or an entry another process left was
\* reused; only an entry may be behind, and only in a file that an import the
\* scan misses, or the resolver takes for another one, leads to
\* (SourceResolver::resolve, compile_hash, read_cache, write_cache).
CompiledIsCurrent ==
    \A p \in Procs : proc[p].pc = "done" /\ proc[p].settled =>
        LET maps == Remappings(config)
            out == proc[p].output
        IN  /\ out.version = config.version
            /\ out.settings = InputSettings(proc[p].job, config, maps)
            /\ \A f \in Uses(maps) :
                  MadeWith(out, f) \/ (~proc[p].ran /\ f \in Missed(maps))

\* The files of one archive an installation of it has.
Files(archive) == {e.path : e \in {x \in Range(archive.entries) : x.kind = "file"}}

\* Nobody but fetch writes below the directories it installs to.
OnlyFetchWrites ==
    \A p \in DOMAIN Disk0 \union {e.path : e \in Edits} : p[1] \notin {"dependencies", "staging"}

\* An installed dependency is never a mixture: all its files come from one
\* archive, whatever an earlier fetch that died or failed left behind, and
\* as long as no process died it is that archive's whole tree (install).
InstalledFromOneArchive ==
    \A name \in Names : Under(Dir(name)) # {} =>
        \E a \in Archives :
            /\ \A f \in Under(Dir(name)) : disk[f].hash = a.hash
            /\ crashes = 0 => {disk[f].file : f \in Under(Dir(name))} = Files(a)
=============================================================================
