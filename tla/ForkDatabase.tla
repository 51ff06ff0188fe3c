---------------------------- MODULE ForkDatabase ----------------------------
(***************************************************************************)
(* The multi-fork database (src/evm/database.rs) under one chain, together *)
(* with rvm.fork (cheatcode/calls/fork.rs), the registry of local          *)
(* addresses and the journal of the transaction that is running.  A chain  *)
(* starts as a sandbox; rvm.fork creates or selects a fork in the middle   *)
(* of a transaction, while the journal holds accounts of the fork it       *)
(* leaves.                                                                 *)
(*                                                                         *)
(* Abstractions: an account is one value (its info and slots together) and *)
(* a touched flag; revm's journal, checkpoints and CacheDB are external    *)
(* and modelled by what the code relies on: a load caches the account in   *)
(* the overlay and in the journal, a checkpoint is a journal length, a     *)
(* revert undoes the entries from that length on, commit writes the        *)
(* touched accounts to the overlay of the active fork.                     *)
(***************************************************************************)
EXTENDS Naturals, Sequences, FiniteSets

CONSTANTS
    Addr,         \* the accounts
    Always,       \* DEFAULT_DEPLOYER and VM_ADDRESS
    Creatable,    \* addresses CREATE or rvm.addr can make local
    Forks,        \* fork keys (url, block)
    UrlOf,        \* the endpoint of a fork
    ChainValue,   \* what the endpoint says of an account at the pinned block
    Coinbase,     \* the beneficiary of the pinned block
    Options,      \* rate limits a ForkConfig argument can ask for
    NoOptions,    \* the two-argument form of rvm.fork
    Defaults,     \* the rate limit of ExecutionState.fork_defaults
    NoLimit,
    Sandbox,      \* the active "fork" of Database::Empty
    MaxDepth,     \* bound: nested call frames
    MaxOps,       \* bound: transactions, frames, accesses and forks
    MaxInputs     \* bound: inputs run from the post-setup chain

ASSUME AddrAssumption ==
    /\ Always \subseteq Addr
    /\ Creatable \subseteq Addr \ Always
    /\ Sandbox \notin Forks
    /\ NoOptions \in Options
    /\ {MaxDepth, MaxOps, MaxInputs} \subseteq Nat

VARIABLES
    active,    \* MultiForkDB.active, or Sandbox
    forks,     \* overlay of the sandbox and of every fork created so far
    backends,  \* options each endpoint's SharedBackend was built with
    held,      \* Chain.database is Some, or inside the running transaction
    env,       \* the fork the block and cfg environment come from
    registry,  \* SharedLocalAddressRegistry, shared by all clones
    state,     \* journaled accounts
    journal,   \* journal entries: the accounts an entry restores
    frames,    \* open call frames
    running,   \* a transaction is executing
    base,      \* the chain after setup, cloned for every input
    ops,       \* transactions, frames, accesses and forks so far
    inputs     \* inputs started

dbVars == <<active, forks, backends>>
txVars == <<state, journal, frames, running>>
vars == <<dbVars, txVars, held, env, registry, base, ops, inputs>>

NotCached == <<"not cached">>
NotLoaded == [val |-> <<"not loaded">>, touched |-> FALSE]
Empty == <<"empty">>
Rich == <<"max balance">>
Remote(f) == <<"on chain", f>>
Written(f) == <<"written", f>>

\* What an endpoint answers is an account, never one of the two marks of absence.
ASSUME ChainAssumption ==
    \A f \in Forks, a \in Addr : ChainValue[f][a] \notin {NotCached, NotLoaded.val}

Persistent(a) == a \in Always \cup registry
Loaded(a) == state[a] # NotLoaded

\* build_fork_slot: only the block's coinbase is cached.
NewOverlay(f) ==
    [a \in Addr |-> IF f # Sandbox /\ a = Coinbase[f] THEN Rich ELSE NotCached]

Overlay(f) == IF f \in DOMAIN forks THEN forks[f] ELSE NewOverlay(f)

\* EmptyDB and ForkDB: a local account exists on no chain.
Backing(f, a) == IF f = Sandbox \/ a \in registry THEN Empty ELSE ChainValue[f][a]

Read(f, a) == IF Overlay(f)[a] # NotCached THEN Overlay(f)[a] ELSE Backing(f, a)

\* What code running on fork f reads of account a.
Seen(f, a) == IF f = active /\ Loaded(a) THEN state[a].val ELSE Read(f, a)
SeenNow(a) == Seen(active, a)

Init ==
    /\ active = Sandbox
    /\ forks = [f \in {Sandbox} |->
                   [a \in Addr |-> IF a \in Always THEN Rich ELSE NotCached]]
    /\ backends = <<>>
    /\ held = TRUE
    /\ env = Sandbox
    /\ registry = {}
    /\ state = [a \in Addr |-> NotLoaded]
    /\ journal = <<>>
    /\ frames = <<>>
    /\ running = FALSE
    /\ base = <<>>
    /\ ops = 0
    /\ inputs = 0

-----------------------------------------------------------------------------
\* Transactions and call frames.

Count == ops < MaxOps /\ ops' = ops + 1

ClearJournal ==
    /\ state' = [a \in Addr |-> NotLoaded]
    /\ journal' = <<>>
    /\ frames' = <<>>
    /\ running' = FALSE

OpenFrame == [at |-> Len(journal), seen |-> [a \in Addr |-> SeenNow(a)],
              registry |-> registry, clean |-> TRUE]

\* Chain::inspect, transact or exec takes the database.
BeginTx ==
    /\ ~running /\ held
    /\ Count
    /\ running' = TRUE
    /\ frames' = <<OpenFrame>>
    /\ UNCHANGED <<dbVars, state, journal, held, env, registry, base, inputs>>

\* The transaction ends: revm commits, the chain takes the database back.
EndTx ==
    /\ running /\ frames = <<>>
    /\ forks' = [forks EXCEPT ![active] =
                    [a \in Addr |-> IF state[a].touched THEN state[a].val ELSE @[a]]]
    /\ ClearJournal
    /\ UNCHANGED <<active, backends, held, env, registry, base, ops, inputs>>

\* A fetch fails while the EVM loads an account: the transaction ends with an
\* error and the database it took is dropped with the EVM.
TxFault(a) ==
    /\ running /\ frames # <<>>
    /\ active # Sandbox
    /\ ~Loaded(a) /\ forks[active][a] = NotCached /\ a \notin registry
    /\ held' = FALSE
    /\ ClearJournal
    /\ UNCHANGED <<dbVars, env, registry, base, ops, inputs>>

CallFrame ==
    /\ frames # <<>> /\ Len(frames) < MaxDepth
    /\ Count
    /\ frames' = Append(frames, OpenFrame)
    /\ UNCHANGED <<dbVars, state, journal, running, held, env, registry, base, inputs>>

Pop == frames' = SubSeq(frames, 1, Len(frames) - 1)

ReturnFrame ==
    /\ frames # <<>>
    /\ Pop
    /\ UNCHANGED <<dbVars, state, journal, running, held, env, registry, base, ops, inputs>>

\* checkpoint_revert: undo the entries made since the checkpoint, if the
\* journal is longer than it was then.
Undone(at) ==
    [a \in Addr |->
        LET touching == {i \in at + 1 .. Len(journal) : a \in DOMAIN journal[i]}
        IN  IF touching = {} THEN state[a]
            ELSE journal[CHOOSE i \in touching : \A j \in touching : i <= j][a]]

RevertFrame ==
    /\ frames # <<>>
    /\ LET at == frames[Len(frames)].at IN
          /\ state' = Undone(at)
          /\ journal' = IF at < Len(journal) THEN SubSeq(journal, 1, at) ELSE journal
    /\ Pop
    /\ UNCHANGED <<dbVars, running, held, env, registry, base, ops, inputs>>

-----------------------------------------------------------------------------
\* State accesses of the running frame.

Log(A) == journal' = Append(journal, [a \in A |-> state[a]])

\* load_account: the overlay and the journal cache the account.
Load(a) ==
    /\ frames # <<>> /\ ~Loaded(a)
    /\ Count
    /\ LET account == [val |-> Read(active, a), touched |-> FALSE] IN
          /\ forks' = [forks EXCEPT ![active][a] = Read(active, a)]
          /\ state' = [state EXCEPT ![a] = account]
          /\ journal' = Append(journal, [b \in {a} |-> account])
    /\ UNCHANGED <<active, backends, frames, running, held, env, registry, base, inputs>>

\* Mutant of Write: the change is not journaled.
Write_NotJournaled(A) ==
    /\ frames # <<>> /\ \A a \in A : Loaded(a)
    /\ Count
    /\ state' = [a \in Addr |->
                    IF a \in A THEN [val |-> Written(active), touched |-> TRUE] ELSE state[a]]
    /\ UNCHANGED <<dbVars, journal, frames, running, held, env, registry, base, inputs>>

\* SSTORE, rvm.deal, rvm.etch, rvm.setNonce; a transfer changes two accounts
\* with one entry.
Write(A) ==
    /\ frames # <<>> /\ \A a \in A : Loaded(a)
    /\ Count
    /\ Log(A)
    /\ state' = [a \in Addr |->
                    IF a \in A THEN [val |-> Written(active), touched |-> TRUE] ELSE state[a]]
    /\ UNCHANGED <<dbVars, frames, running, held, env, registry, base, inputs>>

Dirty == frames' = [i \in DOMAIN frames |-> [frames[i] EXCEPT !.clean = FALSE]]

\* rvm.store: the slot is zeroed in the overlay, not in the journal, before
\* the journaled write.
Store(a) ==
    /\ frames # <<>>
    /\ Count
    /\ forks' = [forks EXCEPT ![active][a] = Empty]
    /\ LET old == IF Loaded(a) THEN state[a] ELSE [val |-> Empty, touched |-> FALSE] IN
          journal' = Append(journal, [b \in {a} |-> old])
    /\ state' = [state EXCEPT ![a] = [val |-> Written(active), touched |-> TRUE]]
    /\ Dirty
    /\ UNCHANGED <<active, backends, running, held, env, registry, base, inputs>>

\* rvm.addr marks the derived address.
MarkLocal(a) ==
    /\ frames # <<>> /\ a \in Creatable \ registry
    /\ Count
    /\ registry' = registry \cup {a}
    /\ UNCHANGED <<dbVars, txVars, held, env, base, inputs>>

\* LocalTracker marks the created address before the CREATE handler loads it.
Create(a) ==
    /\ frames # <<>> /\ a \in Creatable /\ ~Loaded(a)
    /\ Count
    /\ registry' = registry \cup {a}
    /\ LET found == IF Overlay(active)[a] = NotCached THEN Empty ELSE Overlay(active)[a] IN
          /\ forks' = [forks EXCEPT ![active][a] = found]
          /\ journal' = Append(journal, [b \in {a} |-> [val |-> found, touched |-> FALSE]])
    /\ state' = [state EXCEPT ![a] = [val |-> Written(active), touched |-> TRUE]]
    /\ UNCHANGED <<active, backends, frames, running, held, env, base, inputs>>

-----------------------------------------------------------------------------
\* rvm.fork.  An empty URL or a block beyond u64 reverts and changes nothing.

\* ForkOptions over the campaign's defaults; an overriding limit of 0 means no
\* limit.
Effective(o) == IF o = NoOptions THEN Defaults ELSE IF o = 0 THEN NoLimit ELSE o

\* The overlay of the active fork once the remote accounts of the journal are
\* committed to it.
\* Mutant of Left: the journaled remote accounts are dropped, not committed.
Left_Dropped == forks[active]

Left == [a \in Addr |-> IF ~Persistent(a) /\ state[a].touched THEN state[a].val
                        ELSE forks[active][a]]

\* journal_entry_is_persistent
\* Mutant of KeepsEntry: an entry stays if one of its accounts is local.
KeepsEntry_Any(e) == \E a \in DOMAIN e : Persistent(a)

KeepsEntry(e) == \A a \in DOMAIN e : Persistent(a)

\* journal.retain: the entries that stay, in their order.
Retained ==
    LET kept[n \in 0 .. Len(journal)] ==
            IF n = 0 THEN <<>>
            ELSE IF KeepsEntry(journal[n]) THEN Append(kept[n - 1], journal[n]) ELSE kept[n - 1]
    IN  kept[Len(journal)]

\* commit_remote_before_fork_switch, on the journal.
DropRemote ==
    /\ state' = [a \in Addr |-> IF Persistent(a) THEN state[a] ELSE NotLoaded]
    /\ journal' = Retained
    /\ Dirty

\* collect_persistent_from_active; the sandbox hands over all it has cached.
\* Mutant of Carried: only the deployer and the VM are carried over.
Carried_NoRegistry == {a \in Addr : Left[a] # NotCached /\ (active = Sandbox \/ a \in Always)}

Carried == {a \in Addr : Left[a] # NotCached /\ (active = Sandbox \/ Persistent(a))}

\* apply_persistent
Applied(overlay) == [a \in Addr |-> IF a \in Carried THEN Left[a] ELSE overlay[a]]

Forking(f) == frames # <<>> /\ f \in Forks

\* The fork is active already: only its environment is applied again.
SelectActive(f) ==
    /\ Forking(f) /\ f = active
    /\ Count
    /\ env' = f
    /\ UNCHANGED <<dbVars, txVars, held, registry, base, inputs>>

\* select_or_create finds the fork.
SelectExisting(f) ==
    /\ Forking(f) /\ f # active /\ f \in DOMAIN forks
    /\ Count
    /\ DropRemote
    /\ forks' = [forks EXCEPT ![active] = Left, ![f] = Applied(forks[f])]
    /\ active' = f
    /\ env' = f
    /\ UNCHANGED <<backends, running, held, registry, base, inputs>>

WithBackend(f, o) ==
    [u \in DOMAIN backends \cup {UrlOf[f]} |->
        IF u \in DOMAIN backends THEN backends[u] ELSE Effective(o)]

\* create_fork: the chain id and the pinned block are fetched first.
CreateFork(f, o) ==
    /\ Forking(f) /\ f \notin DOMAIN forks
    /\ Count
    /\ DropRemote
    /\ forks' = [g \in (DOMAIN forks \cup {f}) \ {Sandbox} |->
                    IF g = f THEN Applied(NewOverlay(f))
                    ELSE IF g = active THEN Left ELSE forks[g]]
    /\ backends' = WithBackend(f, o)
    /\ active' = f
    /\ env' = f
    /\ UNCHANGED <<running, held, registry, base, inputs>>

\* Mutant of CreateFails: the fork is made active before its block is fetched.
CreateFails_ActiveFirst(f, o) ==
    /\ Forking(f) /\ f \notin DOMAIN forks
    /\ Count
    /\ DropRemote
    /\ active # Sandbox
    /\ forks' = [g \in DOMAIN forks \cup {f} |->
                    IF g = f THEN NewOverlay(f) ELSE IF g = active THEN Left ELSE forks[g]]
    /\ active' = f
    /\ UNCHANGED <<backends, running, held, env, registry, base, inputs>>

\* The same, when a fetch fails or the endpoint answers with another block: the
\* journal has already been split.
CreateFails(f, o) ==
    /\ Forking(f) /\ f \notin DOMAIN forks
    /\ Count
    /\ DropRemote
    /\ forks' = [forks EXCEPT ![active] = Left]
    /\ backends' = IF active = Sandbox THEN backends ELSE WithBackend(f, o)
    /\ UNCHANGED <<active, running, held, env, registry, base, inputs>>

ForkStep ==
    \E f \in Forks :
        \/ SelectActive(f)
        \/ SelectExisting(f)
        \/ \E o \in Options : CreateFork(f, o) \/ CreateFails(f, o)

-----------------------------------------------------------------------------
\* Setup is over: the chain becomes the one every input clones.
FinishSetup ==
    /\ ~running /\ held /\ base = <<>>
    /\ base' = <<active, forks, backends, env>>
    /\ UNCHANGED <<dbVars, txVars, held, env, registry, ops, inputs>>

\* The next input runs on a clone of that chain; the registry is not cloned.
NextInput ==
    /\ ~running /\ base # <<>>
    /\ inputs < MaxInputs
    /\ inputs' = inputs + 1
    /\ active' = base[1] /\ forks' = base[2] /\ backends' = base[3] /\ env' = base[4]
    /\ held' = TRUE
    /\ UNCHANGED <<txVars, registry, base, ops>>

Next ==
    \/ BeginTx \/ EndTx
    \/ \E a \in Addr : TxFault(a) \/ Load(a) \/ Store(a) \/ MarkLocal(a) \/ Create(a)
    \/ CallFrame \/ ReturnFrame \/ RevertFrame
    \/ \E A \in {S \in SUBSET Addr : Cardinality(S) \in 1 .. 2} : Write(A)
    \/ ForkStep
    \/ FinishSetup \/ NextInput

Spec == Init /\ [][Next]_vars

-----------------------------------------------------------------------------
\* The journal reverted rvm.store, the overlay kept its zero.
Zeroed(a) == Loaded(a) /\ ~state[a].touched /\ forks[active][a] = Empty /\ state[a].val # Empty

\* Selecting, creating or failing to create a fork changes nothing any fork
\* shows of a remote account: mutations made before a switch are found again on
\* return and appear on no other fork (docs/fork-mode.md, "Remote state is
\* isolated per fork").  Excepted are accounts handed over by the sandbox, and
\* accounts a reverted rvm.store has left zeroed in the overlay.
RemoteIsolated ==
    [][ForkStep => \A f \in Forks, a \in Addr :
          \/ Persistent(a)
          \/ Seen(f, a)' = Seen(f, a)
          \/ active = Sandbox /\ a \in Carried
          \/ f = active /\ Zeroed(a)]_vars

\* A local account the active fork has loaded reads the same before and after
\* rvm.fork, whether the fork is new, cached, current or fails: harness storage
\* is shared across chains, journaled or committed.
LocalsTravel ==
    [][ForkStep => \A a \in Addr :
          Persistent(a) /\ (Loaded(a) \/ forks[active][a] # NotCached) =>
              SeenNow(a)' = SeenNow(a)]_vars

\* The block and chain environment is that of the active fork, also after
\* failed forks, reverted frames and clones.
EnvMatchesFork == held => env = active

\* Every account a journal entry restores is in the journal: a call revert
\* after a fork switch never unwraps an account the switch removed.
RevertsFindTheirAccounts ==
    \A i \in DOMAIN journal : \A a \in DOMAIN journal[i] : Loaded(a)

\* A reverted frame in which neither rvm.fork left a fork nor rvm.store ran
\* shows every account as the frame found it.
RevertRestores ==
    [][RevertFrame /\ frames[Len(frames)].clean =>
          \A a \in Addr :
              (a \in registry <=> a \in frames[Len(frames)].registry) =>
                  SeenNow(a)' = frames[Len(frames)].seen[a]]_vars
=============================================================================
